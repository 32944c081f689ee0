------------------------------ MODULE WsBridge ------------------------------
(***************************************************************************)
(* WebSockets through the local proxy: the handshake, which chooses an     *)
(* account and may switch, the bridge between the client and the ChatGPT   *)
(* upstream, the adapter for a chat-completions relay and the one for      *)
(* models of a provider, and the notice that a switch by the user gives    *)
(* the connections that are open.                                          *)
(*                                                                         *)
(* A connection is one tokio task.  A step runs from one await, or from    *)
(* one lock of the store, to the next.  A frame is reduced to what the     *)
(* code makes of it; the frames forwarded so far are "few" or at least the *)
(* twenty that allow an answer to be ended in the upstream's place.        *)
(***************************************************************************)
EXTENDS Naturals

CONSTANTS
    Conns,         \* windows of the client: each has one socket at a time
    Accounts,
    Relays,        \* those that are relays with the chat-completions protocol
    NoAccount,
    Start,         \* bound: the account that is current at the start
    Reserve,       \* accounts with a Luna reserve at the start
    Models,        \* bound: of "plain", "spark", "luna" and "provider"
    Attempts,      \* candidates a handshake tries (3)
    Retries,       \* retries of a handshake when the upstream is full (3)
    ProbeFaults,   \* whether the query for a candidate's quota may fail
    MaxTurns,      \* bound: turns on one socket
    MaxRefusals,   \* bound: refusals by the upstream
    MaxSwitches    \* bound: switches by the user

ASSUME ConnAssumption ==
    /\ Relays \subseteq Accounts /\ Reserve \subseteq Accounts
    /\ Start \in Accounts /\ NoAccount \notin Accounts
    /\ Models \subseteq {"plain", "spark", "luna", "provider"}
    /\ Attempts \in Nat \ {0} /\ Retries \in Nat /\ ProbeFaults \in BOOLEAN
    /\ MaxTurns \in Nat /\ MaxRefusals \in Nat /\ MaxSwitches \in Nat

VARIABLES
    current,    \* AccountStore.current
    depleted,   \* accounts whose cached quota is spent
    banned,     \* accounts marked is_banned
    reserve,    \* accounts with a Luna reserve left
    pc,         \* where each connection is
    acct,       \* the account whose token its upstream socket carries
    target,     \* what pick_next_account returned
    tries,      \* attempts of the loop the handshake is in
    model,      \* routing hint of the handshake
    flags,      \* what bridge_websockets remembers of its connection
    turn,       \* the client's turn: its number, and how far it has come
    cut,        \* ghost: connections on which the proxy ended an answer with a
                \* call in a form the bridge looks for
    refusals,   \* ghost: refusals by the upstream
    marks,      \* ghost: accounts the connections have taken out of the pool
    switches

store == <<current, depleted, banned, reserve>>
counts == <<refusals, marks>>
client == <<turn, cut>>
vars == <<store, pc, acct, target, tries, model, flags, client, counts, switches>>

Handshake == {"arrive", "token", "precheck", "pick", "probe", "take", "dial",
              "backoff", "redial", "relimit", "repick", "retake", "upgrading"}
Open == {"sniff", "bridged", "relay", "relaying", "routed", "routing"}
PCs == Handshake \cup Open \cup {"idle", "mpick", "mtake"}

NoFlags == [completed |-> FALSE, tool |-> FALSE, many |-> FALSE,
            spark |-> FALSE, luna |-> FALSE]
NoTurn == [no |-> 0, at |-> "none", tool |-> "none"]

\* How an answer asks for a tool: as a function_call or tool_call, or as a
\* custom_tool_call or local_shell_call.  The bridge looks for the first.
Forms == {"function", "other"}
Detected == {"function"}

Init ==
    /\ current = Start
    /\ depleted = {} /\ banned = {} /\ reserve = Reserve
    /\ pc = [c \in Conns |-> "idle"]
    /\ acct = [c \in Conns |-> NoAccount]
    /\ target = [c \in Conns |-> NoAccount]
    /\ tries = [c \in Conns |-> 0]
    /\ model = [c \in Conns |-> "plain"]
    /\ flags = [c \in Conns |-> NoFlags]
    /\ turn = [c \in Conns |-> NoTurn]
    /\ cut = {}
    /\ refusals = 0 /\ marks = 0 /\ switches = 0

(***************************************************************************)
(* What connections do to the account list.                                *)
(***************************************************************************)
Usable(a) == a \notin depleted /\ a \notin banned

\* pick_next_account, for relay_auto_switch_in off: never the current one.
Candidates == {a \in Accounts \ (Relays \cup {current}) : Usable(a)}

Go(c, label) == pc' = [pc EXCEPT ![c] = label]

\* A relay has no cached quota to clear.
MarkDepleted(a) ==
    /\ depleted' = depleted \cup ({a} \ Relays)
    /\ marks' = marks + IF a \in depleted \cup Relays THEN 0 ELSE 1
    /\ UNCHANGED <<current, banned, reserve>>

\* The upstream refuses an account for its quota.
Refuse ==
    /\ refusals < MaxRefusals
    /\ refusals' = refusals + 1

NoRefusal == UNCHANGED counts

\* Mutant: the turn stays open when its socket is gone.
CloseLeavesTurn(c, with) ==
    /\ Go(c, "idle")
    /\ acct' = [acct EXCEPT ![c] = NoAccount]
    /\ target' = [target EXCEPT ![c] = NoAccount]
    /\ tries' = [tries EXCEPT ![c] = 0]
    /\ flags' = [flags EXCEPT ![c] = NoFlags]
    /\ cut' = with
    /\ UNCHANGED <<turn, model>>

\* The socket is gone, and with it what its task remembered.  The client sees
\* a turn that was under way break off, and asks again on its next socket.
Close(c, with) ==
    /\ Go(c, "idle")
    /\ acct' = [acct EXCEPT ![c] = NoAccount]
    /\ target' = [target EXCEPT ![c] = NoAccount]
    /\ tries' = [tries EXCEPT ![c] = 0]
    /\ flags' = [flags EXCEPT ![c] = NoFlags]
    /\ turn' = [turn EXCEPT ![c] = NoTurn]
    /\ cut' = with
    /\ UNCHANGED model

Drop(c) == Close(c, cut)

Still(c, label) ==
    /\ Go(c, label)
    /\ UNCHANGED <<acct, target, tries, model, flags, client>>

Aside == UNCHANGED switches

(***************************************************************************)
(* handle_request for an upgrade, and handle_websocket.                    *)
(***************************************************************************)
Connect(c) ==
    /\ pc[c] = "idle"
    /\ \E m \in Models : model' = [model EXCEPT ![c] = m]
    /\ Go(c, "arrive")
    /\ UNCHANGED <<store, acct, target, tries, flags, client>>
    /\ NoRefusal /\ Aside

\* handle_model_routed_websocket: the routing hint is looked at first.
RouteModel(c) ==
    /\ pc[c] = "arrive" /\ model[c] = "provider"
    /\ Go(c, "routed")
    /\ model' = [model EXCEPT ![c] = "plain"]
    /\ UNCHANGED <<store, acct, target, tries, flags, client>>
    /\ NoRefusal /\ Aside

\* handle_chat_completions_relay_websocket: the relay the user chose for the
\* session, here any, or else current when it is a relay.
RouteRelay(c) ==
    /\ pc[c] = "arrive" /\ model[c] # "provider"
    /\ \E relay \in Relays :
         /\ Go(c, "relay")
         /\ acct' = [acct EXCEPT ![c] = relay]
    /\ model' = [model EXCEPT ![c] = "plain"]
    /\ UNCHANGED <<store, target, tries, flags, client>>
    /\ NoRefusal /\ Aside

\* Everything else goes to the account of the moment.
RouteUpgrade(c) ==
    /\ pc[c] = "arrive" /\ model[c] # "provider" /\ current \notin Relays
    /\ Go(c, "token")
    /\ acct' = [acct EXCEPT ![c] = NoAccount]
    /\ UNCHANGED <<store, target, tries, model, flags, client>>
    /\ NoRefusal /\ Aside

\* get_current_token
TakeToken(c) ==
    /\ pc[c] = "token"
    /\ acct' = [acct EXCEPT ![c] = current]
    /\ Go(c, "precheck")
    /\ UNCHANGED <<store, target, tries, model, flags, client>>
    /\ NoRefusal /\ Aside

\* An account in trouble is left before it is tried, unless the model is the
\* one that Luna's reserve pays for (relay_auto_switch_out is off).
Precheck(c) ==
    /\ pc[c] = "precheck"
    /\ Go(c, IF /\ ~Usable(current) /\ current \notin Relays
                /\ ~(model[c] = "luna" /\ current \in reserve)
             THEN "pick" ELSE "dial")
    /\ model' = [model EXCEPT ![c] = "plain"]
    /\ UNCHANGED <<acct, target, tries, flags, client>>
    /\ UNCHANGED store /\ NoRefusal /\ Aside

Pick(c, at, then, without) ==
    /\ pc[c] = at
    /\ \/ /\ Candidates = {} /\ without
       \/ \E a \in Candidates :
            /\ target' = [target EXCEPT ![c] = a]
            /\ Go(c, then)
            /\ UNCHANGED <<acct, tries, model, flags, client>>
    /\ UNCHANGED store /\ NoRefusal /\ Aside

\* do_switch: no connection is told.
Switch(c, at, then) ==
    /\ pc[c] = at
    /\ current' = target[c]
    /\ acct' = [acct EXCEPT ![c] = target[c]]
    /\ target' = [target EXCEPT ![c] = NoAccount]
    /\ Go(c, then)
    /\ UNCHANGED <<depleted, banned, reserve, tries, model, flags, client>>
    /\ NoRefusal /\ Aside

PickCandidate(c) == Pick(c, "pick", "probe", Still(c, "dial"))

\* fetch_usage_direct says that the candidate has quota.
ProbeFinds(c) ==
    /\ pc[c] = "probe"
    /\ Still(c, "take")
    /\ UNCHANGED store /\ NoRefusal /\ Aside

TakeCandidate(c) == Switch(c, "take", "dial")

\* It has none, or the query failed: the candidate is marked all the same.
ProbeFails(c) ==
    /\ pc[c] = "probe"
    /\ MarkDepleted(target[c])
    /\ \/ Refuse
       \/ ProbeFaults /\ UNCHANGED refusals
    /\ tries' = [tries EXCEPT ![c] = IF @ + 1 = Attempts THEN 0 ELSE @ + 1]
    /\ target' = [target EXCEPT ![c] = NoAccount]
    /\ Go(c, IF tries[c] + 1 = Attempts THEN "dial" ELSE "pick")
    /\ UNCHANGED <<acct, model, flags, client>>
    /\ Aside

(***************************************************************************)
(* The upstream's answer to the handshake.                                 *)
(***************************************************************************)
Dialled(c) ==
    /\ pc[c] \in {"dial", "redial", "relimit"}
    /\ tries' = [tries EXCEPT ![c] = 0]
    /\ Go(c, "upgrading")
    /\ UNCHANGED <<acct, target, model, flags, client>>
    /\ UNCHANGED store /\ NoRefusal /\ Aside

\* Full: the same account again, or rather the one that is current by then.
DialCapacity(c) ==
    /\ pc[c] = "dial"
    /\ tries' = [tries EXCEPT ![c] = 0]
    /\ Go(c, "backoff")
    /\ UNCHANGED <<store, acct, target, model, flags, client>>
    /\ NoRefusal /\ Aside

\* Mutant: a retry that fails is a first try again.
BackoffStartsOver(c) ==
    /\ pc[c] = "backoff"
    /\ acct' = [acct EXCEPT ![c] = current]
    /\ Go(c, "upgrading") \/ Go(c, "dial")
    /\ UNCHANGED <<store, target, tries, model, flags, client>>
    /\ NoRefusal /\ Aside

Backoff(c) ==
    /\ pc[c] = "backoff"
    /\ \/ /\ tries[c] < Retries
          /\ acct' = [acct EXCEPT ![c] = current]
          /\ \/ Go(c, "upgrading") /\ tries' = [tries EXCEPT ![c] = 0]
             \/ Go(c, "backoff") /\ tries' = [tries EXCEPT ![c] = @ + 1]
          /\ UNCHANGED <<target, model, flags, client>>
       \/ tries[c] = Retries /\ Drop(c)
    /\ UNCHANGED store /\ NoRefusal /\ Aside

\* 401 or 403: silent_refresh_current, and once more with the token of current.
DialUnauthorized(c) ==
    /\ pc[c] = "dial"
    /\ \/ /\ acct' = [acct EXCEPT ![c] = current]
          /\ Go(c, "redial")
          /\ UNCHANGED <<target, tries, model, flags, client>>
       \/ Drop(c)
    /\ UNCHANGED store /\ NoRefusal /\ Aside

\* The network, or anything else: 502, and the client comes again.
DialFails(c) ==
    /\ pc[c] \in {"dial", "redial", "relimit"}
    /\ Drop(c)
    /\ UNCHANGED store /\ NoRefusal /\ Aside

\* A limit of the account.  What is marked is the account that is current.
DialLimited(c) ==
    /\ pc[c] = "dial"
    /\ Refuse
    /\ MarkDepleted(current)
    /\ tries' = [tries EXCEPT ![c] = 0]
    /\ Go(c, "repick")
    /\ UNCHANGED <<acct, target, model, flags, client>>
    /\ Aside

Repick(c) == Pick(c, "repick", "retake", Drop(c))

TakeNext(c) == Switch(c, "retake", "relimit")

\* Mutant: whatever stopped the new account counts as a spent quota.
RedialMarksAnyway(c) ==
    /\ pc[c] = "relimit"
    /\ MarkDepleted(current)
    /\ UNCHANGED refusals
    /\ tries' = [tries EXCEPT ![c] = @ + 1]
    /\ IF tries[c] + 1 = Attempts THEN Drop(c)
       ELSE Go(c, "repick") /\ UNCHANGED <<acct, target, model, flags, client>>
    /\ Aside

\* The account that was switched to is spent as well.
RedialLimited(c) ==
    /\ pc[c] = "relimit"
    /\ Refuse
    /\ MarkDepleted(current)
    /\ IF tries[c] + 1 = Attempts THEN Drop(c)
       ELSE /\ tries' = [tries EXCEPT ![c] = @ + 1]
            /\ Go(c, "repick")
            /\ UNCHANGED <<acct, target, model, flags, client>>
    /\ Aside

\* 101 goes out; on_upgrade resolves, and bridge_websockets begins to read.
Upgrade(c) ==
    /\ pc[c] = "upgrading"
    /\ Still(c, "sniff")
    /\ UNCHANGED store /\ NoRefusal /\ Aside

(***************************************************************************)
(* bridge_websockets                                                       *)
(***************************************************************************)
\* The client asks for an answer.
Request(c) ==
    /\ turn[c].at = "none" /\ turn[c].no < MaxTurns
    /\ turn' = [turn EXCEPT ![c] = [no |-> @.no + 1, at |-> "asked", tool |-> "none"]]
    /\ UNCHANGED cut

\* Both flags only ever rise, whatever model the next request is for.
Flagged(c, m) ==
    flags' = [flags EXCEPT ![c].spark = @ \/ m = "spark",
                           ![c].luna = @ \/ (m = "luna" /\ current \in reserve)]

\* The model shows within five seconds and sixteen frames: one of a provider
\* leaves the upstream socket for the adapter.
Sniff(c) ==
    /\ pc[c] = "sniff"
    /\ \E m \in Models :
         /\ Request(c)
         /\ IF m = "provider"
            THEN /\ Go(c, "routing")
                 /\ acct' = [acct EXCEPT ![c] = NoAccount]
                 /\ UNCHANGED flags
            ELSE Go(c, "bridged") /\ Flagged(c, m) /\ UNCHANGED acct
    /\ UNCHANGED <<store, target, tries, model>>
    /\ NoRefusal /\ Aside

\* It does not: the socket is bridged whatever comes later.
SniffEnds(c) ==
    /\ pc[c] = "sniff"
    /\ Still(c, "bridged")
    /\ UNCHANGED store /\ NoRefusal /\ Aside

Ask(c) ==
    /\ pc[c] = "bridged"
    /\ \E m \in Models : Request(c) /\ Flagged(c, m)
    /\ UNCHANGED <<store, pc, acct, target, tries, model>>
    /\ NoRefusal /\ Aside

Frame(c) ==
    /\ pc[c] = "bridged"
    /\ UNCHANGED <<store, acct, target, tries, model>>
    /\ Aside

Created(c) ==
    /\ Frame(c) /\ turn[c].at = "asked"
    /\ turn' = [turn EXCEPT ![c].at = "answering"]
    /\ UNCHANGED <<pc, cut, flags>> /\ NoRefusal

Deltas(c) ==
    /\ Frame(c) /\ turn[c].at = "answering"
    /\ flags' = [flags EXCEPT ![c].many = TRUE]
    /\ UNCHANGED <<pc, client>> /\ NoRefusal

ToolCall(c) ==
    /\ Frame(c) /\ turn[c].at = "answering"
    /\ \E form \in Forms :
         /\ turn' = [turn EXCEPT ![c].tool = IF @ \in Detected THEN @ ELSE form]
         /\ flags' = [flags EXCEPT ![c].tool = @ \/ form \in Detected]
    /\ UNCHANGED <<pc, cut>> /\ NoRefusal

TurnEnds(c) ==
    /\ turn' = [turn EXCEPT ![c].at = "none", ![c].tool = "none"]
    /\ UNCHANGED cut

Completed(c) ==
    /\ Frame(c) /\ turn[c].at = "answering"
    /\ TurnEnds(c)
    /\ flags' = [flags EXCEPT ![c].completed = TRUE]
    /\ UNCHANGED pc /\ NoRefusal

\* response.failed for any other reason is passed on, and the socket stays.
Failed(c) ==
    /\ Frame(c) /\ turn[c].at # "none"
    /\ TurnEnds(c)
    /\ UNCHANGED <<pc, flags>> /\ NoRefusal

\* A limit.  Spark has a quota of its own, and nothing is marked for it; else
\* the account that is current is marked, and current moves on.
Limited(c) ==
    /\ pc[c] = "bridged" /\ turn[c].at # "none"
    /\ IF flags[c].spark
       THEN Drop(c) /\ UNCHANGED store /\ NoRefusal
       ELSE /\ Refuse
            /\ depleted' = depleted \cup ({current} \ Relays)
            /\ marks' = marks + IF current \in depleted \cup Relays THEN 0 ELSE 1
            /\ reserve' = IF flags[c].luna THEN reserve \ {current} ELSE reserve
            /\ UNCHANGED <<current, banned>>
            /\ Still(c, "mpick")
    /\ Aside

BannedFrame(c) ==
    /\ pc[c] = "bridged" /\ turn[c].at # "none"
    /\ Refuse
    /\ banned' = banned \cup {current}
    /\ UNCHANGED <<current, depleted, reserve, marks>>
    /\ Still(c, "mpick")
    /\ Aside

MovePick(c) == Pick(c, "mpick", "mtake", Drop(c))

MoveTake(c) ==
    /\ pc[c] = "mtake"
    /\ current' = target[c]
    /\ Drop(c)
    /\ UNCHANGED <<depleted, banned, reserve>> /\ NoRefusal /\ Aside

\* Full: the error goes to the client, and then Close.
CapacityFrame(c) ==
    /\ pc[c] = "bridged" /\ turn[c].at # "none"
    /\ Drop(c)
    /\ UNCHANGED store /\ NoRefusal /\ Aside

\* Mutant: a tool call does not keep the answer from being ended.
SynthesizesAnyway(f) == ~f.completed /\ f.many

Synthesizes(f) == ~f.completed /\ ~f.tool /\ f.many

\* The upstream breaks off (None or Err).  An answer that has come far enough
\* is ended in its place, so that the client does not ask for all of it again.
UpstreamBreaks(c) ==
    /\ pc[c] = "bridged"
    /\ IF Synthesizes(flags[c])
       THEN Close(c, IF turn[c].tool \in Detected THEN cut \cup {c} ELSE cut)
       ELSE Drop(c)
    /\ UNCHANGED store /\ NoRefusal /\ Aside

\* The client goes, or the upstream sends Close, which is passed on: nothing
\* can be sent after it.
Hangup(c) ==
    /\ pc[c] \in Open
    /\ Drop(c)
    /\ UNCHANGED store /\ NoRefusal /\ Aside

(***************************************************************************)
(* The adapters: requests one after the other, each a call upstream.       *)
(***************************************************************************)
RelayAsk(c) ==
    /\ pc[c] = "relay"
    /\ Request(c)
    /\ Go(c, "relaying")
    /\ UNCHANGED <<store, acct, target, tries, model, flags>>
    /\ NoRefusal /\ Aside

\* handle_chat_relay_ws_text returns; an error is reported in a frame and the
\* connection stays, which ends the turn for the client all the same.
RelayAnswers(c) ==
    /\ pc[c] = "relaying"
    /\ TurnEnds(c)
    /\ Go(c, "relay")
    /\ UNCHANGED <<store, acct, target, tries, model, flags>>
    /\ NoRefusal /\ Aside

\* The adapter of provider models sends the request to the HTTP path.
AdapterAsk(c) ==
    /\ pc[c] = "routed"
    /\ Request(c)
    /\ Go(c, "routing")
    /\ UNCHANGED <<store, acct, target, tries, model, flags>>
    /\ NoRefusal /\ Aside

AdapterAnswers(c) ==
    /\ pc[c] = "routing"
    /\ TurnEnds(c)
    /\ Go(c, "routed")
    /\ UNCHANGED <<store, acct, target, tries, model, flags>>
    /\ NoRefusal /\ Aside

\* This adapter ends after an error.
AdapterFails(c) ==
    /\ pc[c] = "routing"
    /\ Drop(c)
    /\ UNCHANGED store /\ NoRefusal /\ Aside

(***************************************************************************)
(* The user, and quota that comes back.                                    *)
(***************************************************************************)
\* Those that wait in a select with disconnect.notified().
Listening == {c \in Conns : pc[c] \in {"bridged", "relay"}}

\* switch_account: notify_waiters wakes those that wait, and no one else.
UserSwitch(a) ==
    /\ switches < MaxSwitches
    /\ switches' = switches + 1
    /\ a # current /\ current' = a
    /\ pc' = [c \in Conns |-> IF c \in Listening THEN "idle" ELSE pc[c]]
    /\ acct' = [c \in Conns |-> IF c \in Listening THEN NoAccount ELSE acct[c]]
    /\ target' = [c \in Conns |-> IF c \in Listening THEN NoAccount ELSE target[c]]
    /\ tries' = [c \in Conns |-> IF c \in Listening THEN 0 ELSE tries[c]]
    /\ flags' = [c \in Conns |-> IF c \in Listening THEN NoFlags ELSE flags[c]]
    /\ turn' = [c \in Conns |-> IF c \in Listening THEN NoTurn ELSE turn[c]]
    /\ UNCHANGED <<depleted, banned, reserve, model, cut>> /\ NoRefusal

\* A quota refresh finds the window of an account renewed.
Renew(a) ==
    /\ a \in depleted
    /\ depleted' = depleted \ {a}
    /\ UNCHANGED <<current, banned, reserve, pc, acct, target, tries, model, flags,
                   client, counts>>
    /\ Aside

Handshaking(c) ==
    \/ RouteModel(c) \/ RouteRelay(c) \/ RouteUpgrade(c) \/ TakeToken(c) \/ Precheck(c)
    \/ PickCandidate(c) \/ ProbeFinds(c) \/ TakeCandidate(c) \/ ProbeFails(c)
    \/ Dialled(c) \/ DialCapacity(c) \/ Backoff(c) \/ DialUnauthorized(c)
    \/ DialFails(c) \/ DialLimited(c) \/ Repick(c) \/ TakeNext(c)
    \/ RedialLimited(c) \/ Upgrade(c)

Bridging(c) ==
    \/ Sniff(c) \/ SniffEnds(c) \/ Ask(c)
    \/ Created(c) \/ Deltas(c) \/ ToolCall(c) \/ Completed(c) \/ Failed(c)
    \/ Limited(c) \/ BannedFrame(c) \/ MovePick(c) \/ MoveTake(c)
    \/ CapacityFrame(c) \/ UpstreamBreaks(c) \/ Hangup(c)
    \/ RelayAsk(c) \/ RelayAnswers(c)
    \/ AdapterAsk(c) \/ AdapterAnswers(c) \/ AdapterFails(c)

Next ==
    \/ \E c \in Conns : Connect(c) \/ Handshaking(c) \/ Bridging(c)
    \/ \E a \in Accounts : UserSwitch(a) \/ Renew(a)

Spec == Init /\ [][Next]_vars

\* The task of a handshake is scheduled, and what it awaits answers.
FairSpec == Spec /\ \A c \in Conns : WF_vars(Handshaking(c))

(***************************************************************************)
(* Properties                                                              *)
(***************************************************************************)
\* Type invariant: a socket carries an account's token exactly while it is
\* bridged or with a relay, and a turn is only under way on an open socket.
TypeOK ==
    /\ current \in Accounts /\ depleted \subseteq Accounts \ Relays
    /\ banned \subseteq Accounts /\ reserve \subseteq Accounts
    /\ pc \in [Conns -> PCs]
    /\ acct \in [Conns -> Accounts \cup {NoAccount}]
    /\ target \in [Conns -> Accounts \cup {NoAccount}]
    /\ tries \in [Conns -> 0..(Attempts + Retries)]
    /\ model \in [Conns -> Models \cup {"plain"}]
    /\ flags \in [Conns -> [completed : BOOLEAN, tool : BOOLEAN,
                            many : BOOLEAN, spark : BOOLEAN, luna : BOOLEAN]]
    /\ turn \in [Conns -> [no : 0..MaxTurns, at : {"none", "asked", "answering"},
                           tool : Forms \cup {"none"}]]
    /\ cut \subseteq Conns
    /\ \A c \in Conns :
         /\ pc[c] \in {"sniff", "bridged", "relay", "relaying"} => acct[c] # NoAccount
         /\ turn[c].at # "none" => pc[c] \in Open \cup {"mpick", "mtake"}

\* The proxy never ends an answer in the upstream's place when the answer has
\* asked for a tool in a form the bridge looks for, on whatever turn of the
\* socket and however often the upstream broke off before (lines 7325 and 7474):
\* the client would wait for the rest of the call.  An answer with a custom or
\* local shell call it does end (lines 7326-7331).
ToolCallIsNotCut ==
    cut = {}

\* One refusal for quota costs one account at most, whatever connections are
\* under way: neither a failure of the network nor a full upstream takes accounts
\* out of the pool (comments at lines 6494-6497 and 6608-6611).  A failed query
\* for a candidate's own quota does (line 6390), which ProbeFaults switches on.
OneMarkPerRefusal == marks <= refusals

\* A handshake comes to an end: its loops over candidates and retries are
\* bounded, whatever the upstream answers (lines 6304, 6545 and 6613).
HandshakeEnds ==
    \A c \in Conns : pc[c] = "arrive" ~> pc[c] \notin Handshake
=============================================================================
