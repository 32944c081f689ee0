---------------------------- MODULE ProxySwitch ----------------------------
(***************************************************************************)
(* Automatic account switching in the local proxy, on a host that decides  *)
(* by itself (remote_mode other than "client"): which account a request is *)
(* sent with, what a refusal of the upstream does to the account list, the *)
(* switch-and-retry chain, the stream that is switched under way, and the  *)
(* preemptive switch after an answer.                                      *)
(*                                                                         *)
(* A request is one tokio task.  A step runs from one await, or from one   *)
(* lock of the store, to the next; between the steps of a request those of *)
(* the others run.  The body of a streamed answer and the preemptive       *)
(* switch are tasks of their own, and go on when the request ended.        *)
(*                                                                         *)
(* The three flags is_banned, is_logged_out and is_token_invalid are only  *)
(* ever tested together here and are one set; cached quota is reduced to   *)
(* "nothing left that can be spent"; the score that orders the candidates  *)
(* is left open, so any of them may come first.                            *)
(***************************************************************************)
EXTENDS Naturals

CONSTANTS
    Accounts,
    Relays,           \* those that are relays with the Responses protocol
    NoAccount,
    Requests,
    Streaming,        \* requests whose 200 answer is an SSE stream
    Compact,          \* requests to /responses/compact
    Sessions,
    SessionOf,        \* the session key of each request
    NoSession,
    RouteOf,          \* the session_routes entry of each request
    Start,            \* bound: the accounts that may be current at the start
    AllowIn,          \* setting relay_auto_switch_in
    MaxRetries,       \* MAX_429_RETRIES (5)
    CompactRounds,    \* COMPACT_MAX_SWITCH_ATTEMPTS (5)
    CapacityRetries,  \* retries with the same account (3)
    MaxEvents,        \* bound: manual switches, quota refreshes, expiries
    MaxDrops          \* bound: requests whose client hangs up

ASSUME AccountAssumption ==
    /\ Relays \subseteq Accounts
    /\ NoAccount \notin Accounts
    /\ Start \subseteq Accounts
ASSUME RequestAssumption ==
    /\ Streaming \subseteq Requests
    /\ Compact \subseteq Requests
    /\ Compact \cap Streaming = {}
    /\ NoSession \notin Sessions
    /\ SessionOf \in [Requests -> Sessions \cup {NoSession}]
    /\ RouteOf \in [Requests -> Accounts \cup {NoAccount}]
    /\ AllowIn \in BOOLEAN
ASSUME BoundAssumption ==
    /\ MaxRetries \in Nat /\ CompactRounds \in Nat /\ CapacityRetries \in Nat
    /\ MaxEvents \in Nat /\ MaxDrops \in Nat

VARIABLES
    current,     \* AccountStore.current
    flagged,     \* accounts marked banned, logged out or token-invalid
    depleted,    \* accounts whose cached quota is spent
    cooling,     \* keys of quota_cooldown that have not expired
    binding,     \* SessionAffinity: the account each session sticks to
    allowOut,    \* setting relay_auto_switch_out
    switching,   \* ProxyState.switching
    held,        \* requests between their compare_exchange and the store(false)
    pc,          \* where each request, or the body of its answer, is
    used,        \* the account whose token is in flight, or is refreshed
    owner,       \* AffinityCtx.account_id
    entry,       \* entry_current of try_switch_and_retry
    target,      \* what pick_next_account returned
    tries,       \* attempts of the chain, of the stream or of the backoff
    count,       \* rounds of a compact request, capacity retries of a stream
    back,        \* where each request's preemptive switch is
    backTarget,  \* what it picked
    events, drops

pool == <<flagged, depleted, cooling>>
guard == <<switching, held>>
request == <<used, owner, entry, target, tries, count>>
behind == <<back, backTarget>>
bounds == <<events, drops, allowOut>>
vars == <<current, pool, binding, guard, pc, request, behind, bounds>>

PCs == {"new", "sent", "busy", "busysent", "over", "oversent", "login",
        "resend", "dispatch", "wait", "resent", "enter", "pick", "switch",
        "retry", "refresh", "retry2", "restore", "unrestored", "leave",
        "rejected",
        "stream", "spick", "sswitch", "ssent", "scap", "flow", "tail",
        "done", "dropped"}

MaybeAccount == Accounts \cup {NoAccount}

(***************************************************************************)
(* Choosing an account.                                                    *)
(***************************************************************************)
Unflagged == Accounts \ flagged

\* score_candidate_accounts: neither the current account nor one in trouble.
Candidates ==
    {a \in (Unflagged \ depleted) \ {current} : AllowIn \/ a \notin Relays}

\* pick_next_account: the accounts it may return.
Picks == IF Candidates \ cooling # {} THEN Candidates \ cooling ELSE Candidates

BoundTo(r) == IF SessionOf[r] = NoSession THEN NoAccount ELSE binding[SessionOf[r]]

\* SessionAffinity::lookup with the filter of resolve_token_with_affinity.
Healthy(a) == a \in Unflagged /\ (a \in Relays \/ a \notin depleted)

\* Mutant: a healthy binding is followed wherever it leads.
ResolvedAnywhere(r) ==
    LET bound == BoundTo(r)
    IN  IF RouteOf[r] # NoAccount THEN RouteOf[r]
        ELSE IF bound # NoAccount /\ Healthy(bound) THEN bound ELSE current

\* The account resolve_token_with_affinity takes: the route the user set, else
\* a healthy bound one (a relay only if one is current), else the current one.
Resolved(r) ==
    LET bound == BoundTo(r)
    IN  IF RouteOf[r] # NoAccount THEN RouteOf[r]
        ELSE IF /\ bound # NoAccount
                /\ Healthy(bound)
                /\ bound \in Relays => AllowIn \/ current \in Relays
        THEN bound ELSE current

\* The lookup drops a binding that it finds unhealthy.
Cleaned(r) ==
    IF /\ RouteOf[r] = NoAccount
       /\ BoundTo(r) # NoAccount
       /\ ~Healthy(BoundTo(r))
    THEN [binding EXCEPT ![SessionOf[r]] = NoAccount]
    ELSE binding

\* effective_relay, which takes the request before any lookup.
EffectiveRelay(r) ==
    IF RouteOf[r] \in Relays THEN RouteOf[r]
    ELSE IF current \in Relays THEN current ELSE NoAccount

\* hard_routed: the token is that of the route the user set for the session.
HardRouted(r) == RouteOf[r] # NoAccount /\ owner[r] = RouteOf[r]

(***************************************************************************)
(* What a refusal does to the account list.                                *)
(***************************************************************************)
\* SessionAffinity::invalidate_account
Invalidated(a) == [s \in Sessions |-> IF binding[s] = a THEN NoAccount ELSE binding[s]]

MarkCurrentBanned ==
    /\ flagged' = flagged \cup {current}
    /\ binding' = Invalidated(current)
    /\ UNCHANGED <<depleted, cooling>>

\* Mutant: a relay is marked like a subscription.
MarkCurrentDepletedAlways ==
    /\ depleted' \in {depleted, depleted \cup {current}}
    /\ cooling' = cooling \cup {current}
    /\ binding' = Invalidated(current)
    /\ UNCHANGED flagged

\* A relay has no quota to clear, other accounts may have none cached, or have
\* credits left, or a window that has been renewed since.
MarkCurrentDepleted ==
    /\ depleted' \in {depleted, depleted \cup ({current} \ Relays)}
    /\ cooling' = cooling \cup {current}
    /\ binding' = Invalidated(current)
    /\ UNCHANGED flagged

MarkDead(a) ==
    /\ flagged' = flagged \cup {a}
    /\ UNCHANGED <<depleted, cooling, binding>>

NoMark == UNCHANGED <<pool, binding>>

(***************************************************************************)
(* Control of one request.                                                 *)
(***************************************************************************)
Go(r, label) == pc' = [pc EXCEPT ![r] = label]

\* The request is over: what it remembered is gone, and it gives back the
\* flag it took in dispatch_quota_switch_retry.
Forget(r) ==
    /\ used' = [used EXCEPT ![r] = NoAccount]
    /\ owner' = [owner EXCEPT ![r] = NoAccount]
    /\ entry' = [entry EXCEPT ![r] = NoAccount]
    /\ target' = [target EXCEPT ![r] = NoAccount]
    /\ tries' = [tries EXCEPT ![r] = 0]
    /\ count' = [count EXCEPT ![r] = 0]

\* Mutant: whoever ends clears the flag.
ReleaseAlways(r) ==
    /\ held' = held \ {r}
    /\ switching' = FALSE

Release(r) ==
    /\ held' = held \ {r}
    /\ switching' = IF r \in held THEN FALSE ELSE switching

Finish(r) == Go(r, "done") /\ Forget(r) /\ Release(r)

\* The answer is passed on; end_signal remembers a, the owner, when it ends.
Serve(r, a) ==
    /\ Go(r, "tail")
    /\ owner' = [owner EXCEPT ![r] = a]
    /\ UNCHANGED <<used, entry, target, tries, count>>
    /\ Release(r)

\* The rest of a step that only moves the request on.
Keep(r, label) == Go(r, label) /\ UNCHANGED <<request, guard>>

Others == UNCHANGED <<behind, bounds>>

\* The account is chosen, and the first forward_with_token is under way.
Resolve(r) ==
    /\ pc[r] = "new"
    /\ LET relay == EffectiveRelay(r)
           chosen == IF relay # NoAccount THEN relay ELSE Resolved(r)
       IN  /\ used' = [used EXCEPT ![r] = chosen]
           /\ owner' = [owner EXCEPT ![r] = chosen]
           /\ binding' = IF relay # NoAccount THEN binding ELSE Cleaned(r)
    /\ Go(r, "sent")
    /\ UNCHANGED <<current, pool, guard, entry, target, tries, count>>
    /\ Others

\* The first answer needs nothing more: an error of the request itself, no
\* connection, a refusal of a hard route, or a 429 for a Spark or Luna model.
PassThrough(r) ==
    /\ pc[r] = "sent"
    /\ Finish(r)
    /\ NoMark /\ UNCHANGED current /\ Others

\* Step 8 and 9 of handle_request: the body, and the preemptive check behind it.
Accept(r) ==
    /\ pc[r] = "sent"
    /\ Keep(r, IF r \in Streaming THEN "stream" ELSE "tail")
    /\ back' = [back EXCEPT ![r] = "check"]
    /\ UNCHANGED <<current, backTarget, bounds>> /\ NoMark

\* 402, or 401 and 403 with a word for a ban: this chain runs unguarded.
Banned(r) ==
    /\ pc[r] = "sent"
    /\ ~HardRouted(r)
    /\ MarkCurrentBanned
    /\ Keep(r, "enter")
    /\ UNCHANGED current /\ Others

\* Any other 401: silent_refresh_current, unless the current one is a relay.
Unauthorized(r) ==
    /\ pc[r] = "sent"
    /\ ~HardRouted(r)
    /\ Go(r, IF current \in Relays THEN "enter" ELSE "login")
    /\ used' = [used EXCEPT ![r] = current]
    /\ UNCHANGED <<current, owner, entry, target, tries, count, guard>>
    /\ NoMark /\ Others

\* The refresh succeeded: the request is sent again with the new token.
LoginRefreshed(r) ==
    /\ pc[r] = "login"
    /\ Keep(r, "resend")
    /\ UNCHANGED current /\ NoMark /\ Others

\* LoggedOut and NoRefreshToken mark store.current, other errors nothing.
LoginFailed(r) ==
    /\ pc[r] = "login"
    /\ \/ MarkDead(current)
       \/ NoMark
    /\ Keep(r, "enter")
    /\ UNCHANGED current /\ Others

Resend(r) ==
    /\ pc[r] = "resend"
    /\ \/ Serve(r, owner[r])
       \/ Finish(r)
    /\ UNCHANGED current /\ NoMark /\ Others

\* 429 of one account.  A compact request starts the first of its rounds.
Limited(r) ==
    /\ pc[r] = "sent"
    /\ ~HardRouted(r)
    /\ MarkCurrentDepleted
    /\ Go(r, "dispatch")
    /\ count' = [count EXCEPT ![r] = IF r \in Compact THEN 1 ELSE 0]
    /\ UNCHANGED <<current, used, owner, entry, target, tries, guard>>
    /\ Others

\* The upstream is full: 429 with a word for it, or a 5xx (which a hard route
\* does not stop).
Overloaded(r) ==
    /\ pc[r] = "sent"
    /\ \/ ~HardRouted(r) /\ r \notin Compact /\ Keep(r, "busy")
       \/ Keep(r, "over")
    /\ UNCHANGED current /\ NoMark /\ Others

\* Three retries with the account that is resolved anew.
Backoff(r, waiting, sent) ==
    /\ pc[r] = waiting
    /\ tries[r] < CapacityRetries
    /\ tries' = [tries EXCEPT ![r] = @ + 1]
    /\ used' = [used EXCEPT ![r] = Resolved(r)]
    /\ binding' = Cleaned(r)
    /\ Go(r, sent)
    /\ UNCHANGED <<current, pool, guard, owner, entry, target, count>>
    /\ Others

BackoffAnswer(r, waiting, sent) ==
    /\ pc[r] = sent
    /\ \/ Keep(r, waiting)
       \/ /\ Go(r, IF r \in Streaming THEN "stream" ELSE "tail")
          /\ tries' = [tries EXCEPT ![r] = 0]
          /\ UNCHANGED <<used, owner, entry, target, count, guard>>
       \/ Finish(r)
    /\ UNCHANGED current /\ NoMark /\ Others

\* The retries are used up: a 429 now counts against the current account.
BackoffEnds(r, waiting) ==
    /\ pc[r] = waiting
    /\ tries[r] = CapacityRetries
    /\ IF waiting = "busy" THEN MarkCurrentDepleted ELSE NoMark
    /\ Go(r, "dispatch")
    /\ tries' = [tries EXCEPT ![r] = 0]
    /\ UNCHANGED <<current, guard, used, owner, entry, target, count>>
    /\ Others

(***************************************************************************)
(* dispatch_quota_switch_retry                                             *)
(***************************************************************************)
DispatchWins(r) ==
    /\ pc[r] = "dispatch"
    /\ ~switching
    /\ switching' = TRUE
    /\ held' = held \cup {r}
    /\ Go(r, "enter")
    /\ UNCHANGED <<current, request>> /\ NoMark /\ Others

\* Somebody else is switching: wait, then send with what is current by then.
DispatchLoses(r) ==
    /\ pc[r] = "dispatch"
    /\ switching
    /\ Keep(r, "wait")
    /\ UNCHANGED current /\ NoMark /\ Others

WaitEnds(r) ==
    /\ pc[r] = "wait"
    /\ used' = [used EXCEPT ![r] = current]
    /\ Go(r, "resent")
    /\ UNCHANGED <<current, owner, entry, target, tries, count, guard>>
    /\ NoMark /\ Others

\* BootstrappedForward::Ok.  In a compact request a 4xx is not good enough.
InCompact(r) == r \in Compact /\ count[r] > 0

Served(r) ==
    \/ Serve(r, current)
    \/ Finish(r)
    \/ /\ InCompact(r)
       /\ Go(r, "rejected")
       /\ Release(r)
       /\ UNCHANGED request

Resent(r) ==
    /\ pc[r] = "resent"
    /\ Served(r)
    /\ UNCHANGED current /\ NoMark /\ Others

\* The next round of a compact request, when one is left.
Rejected(r) ==
    /\ pc[r] = "rejected"
    /\ MarkCurrentDepleted
    /\ IF count[r] < CompactRounds
       THEN /\ Go(r, "dispatch")
            /\ count' = [count EXCEPT ![r] = @ + 1]
            /\ UNCHANGED <<used, owner, entry, target, tries, guard>>
       ELSE Finish(r)
    /\ UNCHANGED current /\ Others

(***************************************************************************)
(* try_switch_and_retry                                                    *)
(***************************************************************************)
Enter(r) ==
    /\ pc[r] = "enter"
    /\ entry' = [entry EXCEPT ![r] = current]
    /\ tries' = [tries EXCEPT ![r] = 0]
    /\ Go(r, IF current \in Relays /\ ~allowOut THEN "leave" ELSE "pick")
    /\ UNCHANGED <<current, used, owner, target, count, guard>>
    /\ NoMark /\ Others

Pick(r) ==
    /\ pc[r] = "pick"
    /\ tries[r] < MaxRetries
    /\ \E a \in Picks : target' = [target EXCEPT ![r] = a]
    /\ Go(r, "switch")
    /\ UNCHANGED <<current, used, owner, entry, tries, count, guard>>
    /\ NoMark /\ Others

\* Exhausted, or the last attempt is over.
NoPick(r) ==
    /\ pc[r] = "pick"
    /\ Candidates = {} \/ tries[r] = MaxRetries
    /\ Keep(r, "restore")
    /\ UNCHANGED current /\ NoMark /\ Others

DoSwitch(r) ==
    /\ pc[r] = "switch"
    /\ current' = target[r]
    /\ used' = [used EXCEPT ![r] = target[r]]
    /\ Go(r, "retry")
    /\ UNCHANGED <<owner, entry, target, tries, count, guard>>
    /\ NoMark /\ Others

\* Mutant: the attempt does not count.
NextTryForever(r) ==
    /\ Go(r, "pick")
    /\ used' = [used EXCEPT ![r] = NoAccount]
    /\ target' = [target EXCEPT ![r] = NoAccount]
    /\ UNCHANGED <<owner, entry, tries, count, guard>>

\* The attempt is over, its account and token with it.
NextTry(r) ==
    /\ Go(r, "pick")
    /\ tries' = [tries EXCEPT ![r] = @ + 1]
    /\ used' = [used EXCEPT ![r] = NoAccount]
    /\ target' = [target EXCEPT ![r] = NoAccount]
    /\ UNCHANGED <<owner, entry, count, guard>>

\* switch_to or save fails; save fails after current was changed.
DoSwitchFails(r) ==
    /\ pc[r] = "switch"
    /\ current' \in {current, target[r]}
    /\ NextTry(r)
    /\ NoMark /\ Others

RetryServed(r) ==
    /\ pc[r] \in {"retry", "retry2"}
    /\ Served(r)
    /\ UNCHANGED current /\ NoMark /\ Others

\* RateLimit and Banned mark store.current, Capacity and Failed nothing.
RetryRefused(r) ==
    /\ pc[r] = "retry"
    /\ \/ MarkCurrentDepleted
       \/ MarkCurrentBanned
       \/ NoMark
    /\ NextTry(r)
    /\ UNCHANGED current /\ Others

RetryUnauthorized(r) ==
    /\ pc[r] = "retry"
    /\ used' = [used EXCEPT ![r] = current]
    /\ Go(r, "refresh")
    /\ UNCHANGED <<current, owner, entry, target, tries, count, guard>>
    /\ NoMark /\ Others

Refreshed(r) ==
    /\ pc[r] = "refresh"
    /\ Keep(r, "retry2")
    /\ UNCHANGED current /\ NoMark /\ Others

\* Here it is the picked account that is marked.
RefreshFailed(r) ==
    /\ pc[r] = "refresh"
    /\ \/ MarkDead(target[r])
       \/ NoMark
    /\ NextTry(r)
    /\ UNCHANGED current /\ Others

RetryAgainRefused(r) ==
    /\ pc[r] = "retry2"
    /\ NextTry(r)
    /\ UNCHANGED current /\ NoMark /\ Others

\* restore_current_if_flagged: the account at entry, else any other in order.
Revert(r) ==
    IF entry[r] \in Unflagged THEN {entry[r]}
    ELSE {a \in Unflagged : AllowIn \/ a \notin Relays}

\* Mutant: only the account at entry is put back.
RestoreEntry(r) ==
    /\ pc[r] = "restore"
    /\ IF current \in flagged /\ entry[r] \in Unflagged
       THEN current' = entry[r]
       ELSE UNCHANGED current
    /\ Keep(r, "leave")
    /\ NoMark /\ Others

Restore(r) ==
    /\ pc[r] = "restore"
    /\ IF current \in flagged /\ Revert(r) # {}
       THEN current' \in Revert(r)
       ELSE UNCHANGED current
    /\ Keep(r, "leave")
    /\ NoMark /\ Others

\* switch_to cannot write auth.json: the error is printed, nothing else.
RestoreFails(r) ==
    /\ pc[r] = "restore"
    /\ current \in flagged /\ Revert(r) # {}
    /\ Keep(r, "unrestored")
    /\ UNCHANGED current /\ NoMark /\ Others

\* The chain returned None, and so does the request's last hope.
Leave(r) ==
    /\ pc[r] \in {"leave", "unrestored"}
    /\ Finish(r)
    /\ UNCHANGED current /\ NoMark /\ Others

(***************************************************************************)
(* The body of a streamed answer: bootstrap_loop_task.                     *)
(***************************************************************************)
StreamReady(r) ==
    /\ pc[r] = "stream"
    /\ Keep(r, "flow")
    /\ UNCHANGED current /\ NoMark /\ Others

\* Another account, unless this was the last attempt; n capacity retries count.
StreamNext(r, n) ==
    IF tries[r] + 1 >= MaxRetries
    THEN Finish(r)
    ELSE /\ Go(r, "spick")
         /\ tries' = [tries EXCEPT ![r] = @ + 1]
         /\ count' = [count EXCEPT ![r] = n]
         /\ UNCHANGED <<used, owner, entry, target, guard>>

StreamRefused(r) ==
    /\ pc[r] = "stream"
    /\ \/ MarkCurrentDepleted
       \/ MarkCurrentBanned
    /\ StreamNext(r, count[r])
    /\ UNCHANGED current /\ Others

StreamCapacity(r) ==
    /\ pc[r] = "stream"
    /\ IF count[r] < CapacityRetries
       THEN /\ Go(r, "scap")
            /\ count' = [count EXCEPT ![r] = @ + 1]
            /\ UNCHANGED <<used, owner, entry, target, tries, guard>>
       ELSE StreamNext(r, 0)
    /\ UNCHANGED current /\ NoMark /\ Others

\* acquire_same_account_upstream: "the same account" is the current one.
StreamSame(r) ==
    /\ pc[r] = "scap"
    /\ used' = [used EXCEPT ![r] = current]
    /\ Go(r, "ssent")
    /\ UNCHANGED <<current, owner, entry, target, tries, count, guard>>
    /\ NoMark /\ Others

\* acquire_replacement_upstream: neither the guard nor relay_auto_switch_out.
StreamPick(r) ==
    /\ pc[r] = "spick"
    /\ \E a \in Picks : target' = [target EXCEPT ![r] = a]
    /\ Go(r, "sswitch")
    /\ UNCHANGED <<current, used, owner, entry, tries, count, guard>>
    /\ NoMark /\ Others

StreamSwitch(r) ==
    /\ pc[r] = "sswitch"
    /\ current' = target[r]
    /\ used' = [used EXCEPT ![r] = target[r]]
    /\ Go(r, "ssent")
    /\ UNCHANGED <<owner, entry, target, tries, count, guard>>
    /\ NoMark /\ Others

StreamSwitchFails(r) ==
    /\ pc[r] = "sswitch"
    /\ current' \in {current, target[r]}
    /\ Finish(r)
    /\ NoMark /\ Others

StreamAgain(r) ==
    /\ pc[r] = "ssent"
    /\ Keep(r, "stream")
    /\ UNCHANGED current /\ NoMark /\ Others

\* No candidate, no connection, a status other than 200, a Luna model, or a
\* client that is gone: the body ends.
StreamBreaks(r) ==
    /\ \/ pc[r] \in {"ssent", "stream", "flow"}
       \/ pc[r] = "spick" /\ Candidates = {}
    /\ Finish(r)
    /\ UNCHANGED current /\ NoMark /\ Others

\* A limit in mid-stream cuts the stream off.
FlowLimited(r) ==
    /\ pc[r] = "flow"
    /\ MarkCurrentDepleted
    /\ Finish(r)
    /\ UNCHANGED current /\ Others

\* end_signal after response.completed: record_cache_hit.
Complete(r) ==
    /\ pc[r] \in {"flow", "tail"}
    /\ binding' = IF SessionOf[r] = NoSession THEN binding
                  ELSE [binding EXCEPT ![SessionOf[r]] = owner[r]]
    /\ Finish(r)
    /\ UNCHANGED <<current, pool>> /\ Others

(***************************************************************************)
(* The preemptive switch that a good answer leaves behind.                 *)
(***************************************************************************)
\* should_preemptive_switch; the thresholds are left open.
MaySwitchEarly ==
    /\ current \in Relays => allowOut
    /\ current \in flagged \/ \A s \in Sessions : binding[s] # current

BackSkips(r) ==
    /\ back[r] = "check"
    /\ back' = [back EXCEPT ![r] = "none"]
    /\ UNCHANGED <<current, guard, pc, request, backTarget, bounds>>
    /\ NoMark

BackTakes(r) ==
    /\ back[r] = "check"
    /\ MaySwitchEarly
    /\ ~switching
    /\ switching' = TRUE
    /\ back' = [back EXCEPT ![r] = "pick"]
    /\ UNCHANGED <<current, held, pc, request, backTarget, bounds>>
    /\ NoMark

BackPicks(r) ==
    /\ back[r] = "pick"
    /\ \E a \in Picks : backTarget' = [backTarget EXCEPT ![r] = a]
    /\ back' = [back EXCEPT ![r] = "switch"]
    /\ UNCHANGED <<current, guard, pc, request, bounds>>
    /\ NoMark

BackDone(r) ==
    /\ back' = [back EXCEPT ![r] = "none"]
    /\ backTarget' = [backTarget EXCEPT ![r] = NoAccount]
    /\ switching' = FALSE
    /\ UNCHANGED <<held, pc, request, bounds>>
    /\ NoMark

BackFindsNone(r) ==
    /\ back[r] = "pick"
    /\ Candidates = {}
    /\ BackDone(r)
    /\ UNCHANGED current

BackSwitches(r) ==
    /\ back[r] = "switch"
    /\ current' \in {current, backTarget[r]}
    /\ BackDone(r)

(***************************************************************************)
(* What happens around the requests.                                       *)
(***************************************************************************)
Around == UNCHANGED <<guard, pc, request, behind, allowOut>>

\* switch_account of the UI
ManualSwitch(a) ==
    /\ events < MaxEvents
    /\ events' = events + 1
    /\ a # current
    /\ current' = a
    /\ NoMark /\ Around /\ UNCHANGED drops

\* get_quota_internal: the usage of an account is fetched, which proves that
\* its token is good (not that it is not banned), or the fetch is refused.
QuotaRefresh(a) ==
    /\ events < MaxEvents
    /\ events' = events + 1
    /\ a \notin Relays
    /\ \/ /\ depleted' \in {depleted \cup {a}, depleted \ {a}}
          /\ flagged' \in {flagged, flagged \ {a}}
       \/ /\ flagged' = flagged \cup {a}
          /\ UNCHANGED depleted
    /\ UNCHANGED <<current, cooling, binding, drops>> /\ Around

CooldownExpires(a) ==
    /\ events < MaxEvents
    /\ events' = events + 1
    /\ a \in cooling
    /\ cooling' = cooling \ {a}
    /\ UNCHANGED <<current, flagged, depleted, binding, drops>> /\ Around

\* The client closes the connection while the handler awaits: hyper drops the
\* handler's future where it stands.
Awaiting == {"sent", "busy", "busysent", "over", "oversent", "login", "resend",
             "wait", "resent", "retry", "refresh", "retry2", "rejected"}

Drop(r) ==
    /\ drops < MaxDrops
    /\ drops' = drops + 1
    /\ pc[r] \in Awaiting
    /\ Go(r, "dropped")
    /\ Forget(r)
    /\ held' = held \ {r}
    /\ UNCHANGED <<current, switching, behind, events, allowOut>> /\ NoMark

(***************************************************************************)
(* The specification.                                                      *)
(***************************************************************************)
Init ==
    /\ current \in Start
    /\ flagged = {} /\ depleted = {} /\ cooling = {}
    /\ binding = [s \in Sessions |-> NoAccount]
    /\ allowOut \in BOOLEAN
    /\ switching = FALSE /\ held = {}
    /\ pc = [r \in Requests |-> "new"]
    /\ used = [r \in Requests |-> NoAccount]
    /\ owner = [r \in Requests |-> NoAccount]
    /\ entry = [r \in Requests |-> NoAccount]
    /\ target = [r \in Requests |-> NoAccount]
    /\ tries = [r \in Requests |-> 0]
    /\ count = [r \in Requests |-> 0]
    /\ back = [r \in Requests |-> "none"]
    /\ backTarget = [r \in Requests |-> NoAccount]
    /\ events = 0 /\ drops = 0

FirstAnswer(r) ==
    \/ Resolve(r) \/ PassThrough(r) \/ Accept(r) \/ Banned(r)
    \/ Unauthorized(r) \/ LoginRefreshed(r) \/ LoginFailed(r) \/ Resend(r)
    \/ Limited(r) \/ Overloaded(r)
    \/ Backoff(r, "busy", "busysent") \/ Backoff(r, "over", "oversent")
    \/ BackoffAnswer(r, "busy", "busysent") \/ BackoffAnswer(r, "over", "oversent")
    \/ BackoffEnds(r, "busy") \/ BackoffEnds(r, "over")

Chain(r) ==
    \/ DispatchWins(r) \/ DispatchLoses(r) \/ WaitEnds(r) \/ Resent(r)
    \/ Rejected(r) \/ Enter(r) \/ Pick(r) \/ NoPick(r) \/ DoSwitch(r)
    \/ DoSwitchFails(r) \/ RetryServed(r) \/ RetryRefused(r)
    \/ RetryUnauthorized(r) \/ Refreshed(r) \/ RefreshFailed(r)
    \/ RetryAgainRefused(r) \/ Restore(r) \/ RestoreFails(r) \/ Leave(r)

Body(r) ==
    \/ StreamReady(r) \/ StreamRefused(r) \/ StreamCapacity(r) \/ StreamSame(r)
    \/ StreamPick(r) \/ StreamSwitch(r) \/ StreamSwitchFails(r)
    \/ StreamAgain(r) \/ StreamBreaks(r) \/ FlowLimited(r) \/ Complete(r)

Behind(r) ==
    BackSkips(r) \/ BackTakes(r) \/ BackPicks(r) \/ BackFindsNone(r) \/ BackSwitches(r)

Handler(r) == FirstAnswer(r) \/ Chain(r) \/ Body(r)

Surroundings ==
    \E a \in Accounts : ManualSwitch(a) \/ QuotaRefresh(a) \/ CooldownExpires(a)

Next ==
    \/ \E r \in Requests : Handler(r) \/ Behind(r) \/ Drop(r)
    \/ Surroundings

Spec == Init /\ [][Next]_vars

\* The runtime polls every task that can go on, and the upstream answers or
\* the connection to it fails.
Fairness == \A r \in Requests : WF_vars(Handler(r)) /\ WF_vars(Behind(r))

FairSpec == Spec /\ Fairness

(***************************************************************************)
(* Properties.                                                             *)
(***************************************************************************)
TypeOK ==
    /\ current \in Accounts
    /\ flagged \subseteq Accounts
    /\ depleted \subseteq Accounts \ Relays
    /\ cooling \subseteq Accounts
    /\ binding \in [Sessions -> MaybeAccount]
    /\ allowOut \in BOOLEAN
    /\ switching \in BOOLEAN
    /\ held \subseteq Requests
    /\ pc \in [Requests -> PCs]
    /\ used \in [Requests -> MaybeAccount]
    /\ owner \in [Requests -> MaybeAccount]
    /\ entry \in [Requests -> MaybeAccount]
    /\ target \in [Requests -> MaybeAccount]
    /\ tries \in [Requests -> Nat]
    /\ count \in [Requests -> Nat]
    /\ back \in [Requests -> {"none", "check", "pick", "switch"}]
    /\ backTarget \in [Requests -> MaybeAccount]
    /\ events \in 0..MaxEvents
    /\ drops \in 0..MaxDrops

\* The tasks that took the flag and will give it back.
Switchers ==
    {<<r, "chain">> : r \in held} \cup
    {<<r, "behind">> : r \in {q \in Requests : back[q] \in {"pick", "switch"}}}

\* The flag `switching` is a lock: guarded chains and preemptive switches never
\* run two at a time, and nobody but its owner clears it, whoever loses the
\* compare_exchange, ends early or is dropped (proxy.rs:5366, 5424, 4071, 4099).
OneSwitcher ==
    /\ Switchers # {} => switching
    /\ \A x, y \in Switchers : x = y

\* No automatic step makes a relay the current account when the setting
\* relay_auto_switch_in forbids it, unless it puts back the relay that was
\* current when the chain began: "a relay is only switched to by hand".
AutoAvoidsRelays ==
    [][current' # current /\ current' \in Relays =>
         \/ AllowIn
         \/ events' # events
         \/ \E r \in Requests : pc[r] = "restore" /\ entry[r] = current']_vars

\* While a subscription is current no request is sent with a relay's key behind
\* the user's back, whatever its session was bound to before.
SessionsStayOffRelays ==
    [][\A r \in Requests :
         used'[r] # used[r] /\ used'[r] \in Relays =>
           AllowIn \/ current' \in Relays \/ used'[r] = RouteOf[r]]_vars

\* A chain that gives up leaves a current account without a flag, if there is
\* one it may choose and its auth.json can be written: however the chain went
\* and whatever happened beside it, the next request does not start from a
\* dead account.  Only a failing switch_to leaves one, and changes nothing
\* then (proxy.rs:4520).
GivesUpOnHealthy ==
    [][\A r \in Requests : pc[r] = "restore" /\ pc'[r] # "restore" =>
         \/ current' \notin flagged'
         \/ Accounts \ flagged' \subseteq Relays
         \/ pc'[r] = "unrestored" /\ current' = current]_vars

\* Every request ends, and so does every preemptive switch: no chain of
\* refusals, rounds, retries and switches under way goes on for ever.
RequestsEnd ==
    \A r \in Requests : <>[](pc[r] \in {"done", "dropped"} /\ back[r] = "none")

=============================================================================
