---------------------------- MODULE ChatInbound ----------------------------
(***************************************************************************)
(* OpenAI chat/completions requests that are served from ChatGPT accounts: *)
(* which account serves one, the loop with its three budgets, how the      *)
(* buffered answer becomes a chat message, and the session routes, which   *)
(* the user edits meanwhile.                                               *)
(*                                                                         *)
(* A step runs from one lock or await to the next.  Text is reduced to     *)
(* the events of the answer that carry it.                                 *)
(***************************************************************************)
EXTENDS Naturals, Sequences

CONSTANTS
    Requests,
    Sessions,      \* values of the header x-pod-worker-route
    Accounts,
    NoAccount,
    Start,         \* bound: the account that is current at the start
    Pro,           \* accounts whose plan is pro
    Answers,       \* bound: answers of status 200
    SwitchBudget,  \* quota_switch_budget of FollowCurrent (2)
    MaxEdits,      \* bound: commands on session routes
    MaxSwitches    \* bound: switches by the user

\* An answer: the events that carry its text, its call, whether the call's
\* arguments come with the item or only as deltas, and whether it failed.
ASSUME InboundAssumption ==
    /\ Start \in Accounts /\ NoAccount \notin Accounts /\ Pro \subseteq Accounts
    /\ Answers \subseteq [text : SUBSET {"delta", "done", "item"}, call : BOOLEAN,
                          args : {"none", "delta", "item"}]
    /\ SwitchBudget \in Nat /\ MaxEdits \in Nat /\ MaxSwitches \in Nat

VARIABLES
    current, depleted,
    route,       \* session_routes: the account of each session's route
    enabled,     \* sessions whose route is enabled
    pc,
    session,     \* the session of each request
    pick,        \* ChatInboundPick
    chosen,      \* the account that was picked
    acct,        \* account_id
    token,       \* the account whose token is sent
    next,        \* what pick_next_account returned
    left,        \* refresh_left, empty_retry_left and quota_switch_left
    answers,     \* ghost: the answers of status 200 so far
    reply,       \* what the client got
    edits, switches

store == <<current, depleted>>
routes == <<route, enabled, edits>>
task == <<session, pick, chosen, acct, token, next, left, answers, reply>>
vars == <<store, routes, pc, task, switches>>

NoReply == [status |-> "none", text |-> FALSE, calls |-> {}, args |-> "none"]
Error(status) == [NoReply EXCEPT !.status = status]

Init ==
    /\ current = Start /\ depleted = {}
    /\ route \in [Sessions -> Accounts \cup {NoAccount}]
    /\ enabled \in SUBSET {x \in Sessions : route[x] # NoAccount}
    /\ pc = [r \in Requests |-> "new"]
    /\ session \in [Requests -> Sessions]
    /\ pick = [r \in Requests |-> "none"]
    /\ chosen = [r \in Requests |-> NoAccount]
    /\ acct = chosen /\ token = chosen /\ next = chosen
    /\ left = [r \in Requests |-> [refresh |-> 0, empty |-> 0, quota |-> 0]]
    /\ answers = [r \in Requests |-> <<>>]
    /\ reply = [r \in Requests |-> NoReply]
    /\ edits = 0 /\ switches = 0

Go(r, label) == pc' = [pc EXCEPT ![r] = label]

Finish(r, what) ==
    /\ Go(r, "over")
    /\ reply' = [reply EXCEPT ![r] = what]

(***************************************************************************)
(* The answer as a chat message.                                           *)
(***************************************************************************)
\* responses_sse_to_chat: the deltas, or else output_text.done, or else the
\* message item; the arguments of the item, or else those of the deltas.
ToChat(answer) ==
    [status |-> "ok", text |-> answer.text # {},
     calls |-> IF answer.call THEN {"call"} ELSE {},
     args |-> IF answer.call THEN answer.args ELSE "none"]

Empty(message) == ~message.text /\ message.calls = {}

(***************************************************************************)
(* handle_chat_inbound                                                     *)
(***************************************************************************)
\* decide_chat_inbound_pick: a request of the worker goes by its session's
\* route, or to current; any other to the first pro account.
HardRouted(r) == IF session[r] \in enabled THEN route[session[r]] ELSE NoAccount

Resolve(r, worker) ==
    /\ pc[r] = "new"
    /\ chosen' = [chosen EXCEPT ![r] = IF worker THEN HardRouted(r) ELSE NoAccount]
    /\ pick' = [pick EXCEPT ![r] = IF worker THEN "worker" ELSE "other"]
    /\ Go(r, "pick")
    /\ UNCHANGED <<store, routes, session, acct, token, next, left, answers, reply, switches>>

Serve(r, a, how) ==
    /\ pick' = [pick EXCEPT ![r] = how]
    /\ chosen' = [chosen EXCEPT ![r] = a]
    /\ acct' = [acct EXCEPT ![r] = a] /\ token' = [token EXCEPT ![r] = a]
    /\ left' = [left EXCEPT ![r] = [refresh |-> IF how = "current" THEN 1 ELSE 0, empty |-> 1,
                                    quota |-> IF how = "current" THEN SwitchBudget ELSE 0]]
    /\ Go(r, "send")
    /\ UNCHANGED reply

\* An account without a token, or no pro account: 503.
Pick(r) ==
    /\ pc[r] = "pick"
    /\ \/ pick[r] = "worker" /\ chosen[r] # NoAccount /\ Serve(r, chosen[r], "hard")
       \/ pick[r] = "worker" /\ chosen[r] = NoAccount /\ Serve(r, current, "current")
       \/ pick[r] = "other" /\ \E a \in Pro : Serve(r, a, "spark")
       \/ /\ Finish(r, Error("unavailable"))
          /\ UNCHANGED <<pick, chosen, acct, token, left>>
    /\ UNCHANGED <<store, routes, session, next, answers, switches>>

\* Mutant: one counter for the refresh and for the empty answer, as it once was.
SpendShared(r) == [left EXCEPT ![r].refresh = 0, ![r].empty = 0]

SpendRefresh(r) == [left EXCEPT ![r].refresh = @ - 1]

Upstream401(r) ==
    /\ pc[r] = "send"
    /\ IF left[r].refresh > 0
       THEN /\ left' = SpendRefresh(r)
            /\ Go(r, "refresh") /\ UNCHANGED reply
       ELSE Finish(r, Error("401")) /\ UNCHANGED left
    /\ UNCHANGED <<store, routes, session, pick, chosen, acct, token, next, answers, switches>>

\* silent_refresh_current: current by then; account_id stays what it was.
Refresh(r) ==
    /\ pc[r] = "refresh"
    /\ \/ /\ token' = [token EXCEPT ![r] = current]
          /\ Go(r, "send") /\ UNCHANGED reply
       \/ Finish(r, Error("401")) /\ UNCHANGED token
    /\ UNCHANGED <<store, routes, session, pick, chosen, acct, next, left, answers, switches>>

\* Mutant: a request that names its account may switch as well.
MaySwitchAnyone(r) == left[r].quota > 0 \/ pick[r] = "hard"

MaySwitch(r) == left[r].quota > 0

\* 429: mark_account_quota_depleted, or the error as it is.
Upstream429(r) ==
    /\ pc[r] = "send"
    /\ IF MaySwitch(r)
       THEN /\ left' = [left EXCEPT ![r].quota = IF @ = 0 THEN 0 ELSE @ - 1]
            /\ depleted' = depleted \cup {acct[r]}
            /\ Go(r, "next") /\ UNCHANGED reply
       ELSE Finish(r, Error("429")) /\ UNCHANGED <<left, depleted>>
    /\ UNCHANGED <<current, routes, session, pick, chosen, acct, token, next, answers, switches>>

PickNext(r) ==
    /\ pc[r] = "next"
    /\ LET candidates == Accounts \ (depleted \cup {current})
       IN  IF candidates = {}
           THEN Finish(r, Error("429")) /\ UNCHANGED next
           ELSE /\ \E a \in candidates : next' = [next EXCEPT ![r] = a]
                /\ Go(r, "switch") /\ UNCHANGED reply
    /\ UNCHANGED <<store, routes, session, pick, chosen, acct, token, left, answers, switches>>

\* do_switch, which may fail.
Switch(r) ==
    /\ pc[r] = "switch"
    /\ \/ /\ current' = next[r]
          /\ acct' = [acct EXCEPT ![r] = next[r]] /\ token' = [token EXCEPT ![r] = next[r]]
          /\ Go(r, "send") /\ UNCHANGED reply
       \/ Finish(r, Error("429")) /\ UNCHANGED <<current, acct, token>>
    /\ next' = [next EXCEPT ![r] = NoAccount]
    /\ UNCHANGED <<depleted, routes, session, pick, chosen, left, answers, switches>>

\* The network, or any other status.
UpstreamFails(r) ==
    /\ pc[r] = "send"
    /\ Finish(r, Error("error"))
    /\ UNCHANGED <<store, routes, session, pick, chosen, acct, token, next, left, answers, switches>>

\* Mutant: an empty answer is asked for until it is not empty.
Upstream200Insists(r, answer) ==
    /\ pc[r] = "send"
    /\ answers' = IF Len(answers[r]) = 2 THEN answers
                  ELSE [answers EXCEPT ![r] = Append(@, answer)]
    /\ IF Empty(ToChat(answer))
       THEN Go(r, "send") /\ left' = [left EXCEPT ![r].empty = 1 - @] /\ UNCHANGED reply
       ELSE Finish(r, ToChat(answer)) /\ UNCHANGED left
    /\ UNCHANGED <<store, routes, session, pick, chosen, acct, token, next, switches>>

\* 200: an empty answer is asked for once more.  A body that breaks off is
\* read as no text at all (unwrap_or_default).
Upstream200(r, answer) ==
    /\ pc[r] = "send"
    /\ answers' = [answers EXCEPT ![r] = Append(@, answer)]
    /\ IF Empty(ToChat(answer)) /\ left[r].empty > 0
       THEN /\ left' = [left EXCEPT ![r].empty = @ - 1]
            /\ Go(r, "send") /\ UNCHANGED reply
       ELSE Finish(r, ToChat(answer)) /\ UNCHANGED left
    /\ UNCHANGED <<store, routes, session, pick, chosen, acct, token, next, switches>>

(***************************************************************************)
(* The user.                                                               *)
(***************************************************************************)
Edit == edits < MaxEdits /\ edits' = edits + 1

\* add_session_route: a new one, or the session's own with another account.
AddRoute(x, a) ==
    /\ Edit
    /\ route' = [route EXCEPT ![x] = a] /\ enabled' = enabled \cup {x}
    /\ UNCHANGED <<store, pc, task, switches>>

ToggleRoute(x) ==
    /\ Edit /\ route[x] # NoAccount
    /\ enabled' = IF x \in enabled THEN enabled \ {x} ELSE enabled \cup {x}
    /\ UNCHANGED <<store, route, pc, task, switches>>

\* Mutant: a route that is deleted stays enabled.
DeleteRouteEnabled(x) ==
    /\ Edit /\ route[x] # NoAccount
    /\ route' = [route EXCEPT ![x] = NoAccount]
    /\ UNCHANGED <<store, enabled, pc, task, switches>>

DeleteRoute(x) ==
    /\ Edit /\ route[x] # NoAccount
    /\ route' = [route EXCEPT ![x] = NoAccount] /\ enabled' = enabled \ {x}
    /\ UNCHANGED <<store, pc, task, switches>>

UserSwitch(a) ==
    /\ switches < MaxSwitches /\ switches' = switches + 1
    /\ a # current /\ current' = a
    /\ UNCHANGED <<depleted, routes, pc, task>>

Serving(r) ==
    \/ \E worker \in BOOLEAN : Resolve(r, worker)
    \/ Pick(r)
    \/ Upstream401(r) \/ Refresh(r)
    \/ Upstream429(r) \/ PickNext(r) \/ Switch(r)
    \/ UpstreamFails(r)
    \/ \E answer \in Answers : Upstream200(r, answer)

Next ==
    \/ \E r \in Requests : Serving(r)
    \/ \E x \in Sessions : ToggleRoute(x) \/ DeleteRoute(x) \/ \E a \in Accounts : AddRoute(x, a)
    \/ \E a \in Accounts : UserSwitch(a)

Spec == Init /\ [][Next]_vars

\* The task of a request is scheduled, and the upstream answers or fails.
FairSpec == Spec /\ \A r \in Requests : WF_vars(Serving(r))

(***************************************************************************)
(* Properties                                                              *)
(***************************************************************************)
\* Type invariant: only routes that exist are enabled, and a request has an
\* account from its pick to its end.
TypeOK ==
    /\ current \in Accounts /\ depleted \subseteq Accounts
    /\ route \in [Sessions -> Accounts \cup {NoAccount}]
    /\ \A x \in enabled : route[x] \in Accounts
    /\ \A r \in Requests :
         /\ pc[r] \in {"new", "pick", "send", "refresh", "next", "switch", "over"}
         /\ pick[r] \in {"none", "worker", "other", "hard", "current", "spark"}
         /\ pc[r] \in {"send", "refresh", "next", "switch"} =>
              acct[r] \in Accounts /\ token[r] \in Accounts
         /\ left[r] \in [refresh : 0..1, empty : 0..1, quota : 0..SwitchBudget]
         /\ answers[r] \in Seq(Answers)

\* A reply with neither text nor call means that the upstream answered twice,
\* and that no event of either answer carried any: neither a refresh on the
\* way (lines 2910-2912) nor the events the text came in (chat_inbound.rs lines
\* 208-213 and 313-320) makes an answer empty.
EmptyMeansEmpty ==
    \A r \in Requests : reply[r].status = "ok" /\ Empty(reply[r]) =>
        /\ Len(answers[r]) = 2
        /\ \A i \in 1..2 : answers[r][i].text = {} /\ ~answers[r][i].call

\* A request for which the user named an account, or which may use pro accounts
\* only, is served by that account or fails, whatever becomes of current: it
\* neither refreshes nor switches (lines 2906-2908 and 2757-2758).
NamedAccountServes ==
    \A r \in Requests : pick[r] \in {"hard", "spark"} =>
        /\ acct[r] = chosen[r] /\ token[r] = chosen[r]
        /\ pc[r] \notin {"refresh", "next", "switch"}

\* Every request gets a reply: its three budgets bound the loop (line 2912).
InboundEnds == \A r \in Requests : pc[r] = "pick" ~> pc[r] = "over"
=============================================================================
