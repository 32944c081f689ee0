--------------------------- MODULE WindowPriming ---------------------------
(***************************************************************************)
(* Priming of quota windows: when a window of a subscription has ended,    *)
(* the quota loop of the host that owns the account sends one smallest     *)
(* model request, so that the next window starts to run.  The request      *)
(* costs quota, so an event (the end of a window, or a bootstrap request)  *)
(* must not be warmed twice: not after a crash, and not because a client   *)
(* pushes an older copy of the account.                                    *)
(*                                                                         *)
(* One account (accounts do not share priming state), its record on the    *)
(* server, in the server's accounts.json and on a client.  Time is counted *)
(* in ticks of the shortest window; 0 stands for no time.                  *)
(***************************************************************************)
EXTENDS Naturals, FiniteSetsExt

CONSTANTS
    None,
    Answers,    \* what wham/usage may say: see below
    MaxTime,    \* bound: ticks
    MaxEvents   \* bound: failed saves, crashes, queries, imports and copies,
                \* together, where a copy counts twice

Kinds == {"five", "weekly"}
Slots == {"primary", "secondary"}

\* An answer: the kind of each slot that it reports, in how many ticks it
\* resets (0: no reset is reported), whether the managed window is below 100%,
\* and whether both windows have quota left.
ASSUME PrimingAssumption ==
    /\ Answers \subseteq [kind : [Slots -> Kinds \cup {None}], in : [Slots -> Nat],
                          used : BOOLEAN, left : BOOLEAN]
    /\ MaxTime \in Nat /\ MaxEvents \in Nat

VARIABLES
    now,
    srv,        \* the account on the server
    disk,       \* the account in the server's accounts.json
    copy,       \* the client's copy that it will push
    pc,         \* where the quota loop is
    due,        \* QuotaRefreshTarget.prime_due
    usage,      \* the usage it fetched
    asked,      \* a command or a request of a client fetches the usage too
    ids,        \* bootstrap ids made so far, with who made them
    warmed,     \* ghost: events a warm-up was sent for
    again,      \* ghost: events it was sent for a second time
    newest,     \* ghost: when the newest quota that the server cached was fetched
    older,      \* ghost: a client has pushed an older one since
    events

records == <<srv, disk, copy>>
loop == <<pc, due, usage>>
ghosts == <<warmed, again>>
vars == <<now, records, loop, ids, ghosts, newest, older, events, asked>>

Boots == [n : 1 .. MaxEvents + 1, by : {"default", "user"}]

\* WindowPrimingState::default of a new account.
Fresh == [quota |-> None, on |-> {}, configured |-> FALSE, request |-> None,
          lastRequest |-> None, last |-> [k \in Kinds |-> 0], attempt |-> 0]

Init ==
    /\ now = 0 /\ srv = Fresh /\ disk = Fresh /\ copy = None
    /\ pc = "idle" /\ due = {} /\ usage = None /\ asked = FALSE
    /\ ids = {} /\ warmed = {} /\ again = {} /\ newest = 0 /\ older = FALSE
    /\ events = 0

---------------------------------------------------------------------------
(* What the loop reads from a record.                                      *)

\* A window's kind comes with the answer; the slots are not bound to a kind.
Weekly(q, slot) == q.kind[slot] = "weekly"

\* The end of the window of a kind: the primary slot is asked first.
SemanticReset(q, k) ==
    IF q.kind["primary"] = k THEN q.reset["primary"]
    ELSE IF q.kind["secondary"] = k \/ k = "weekly" THEN q.reset["secondary"] ELSE 0

\* Which kind the account's plan lets priming manage.
Managed(a) == IF a.quota # None /\ Weekly(a.quota, "primary") THEN "weekly" ELSE "five"

Window(k, t) == [kind |-> k, at |-> t]
Boot(id) == [kind |-> "boot", id |-> id]

\* Mutant: a window may be due before its end.
WindowPrimeDueEarly(a) ==
    {Window(k, SemanticReset(a.quota, k)) : k \in
       {x \in IF a.quota = None THEN {} ELSE a.on :
          LET t == SemanticReset(a.quota, x) IN  t > 0 /\ a.quota.updated < t /\ a.last[x] # t}}

\* Bootstraps that were not reserved, and windows that ended after the quota
\* was fetched and are not the one reserved last.
WindowPrimeDue(a) ==
    (IF a.on = {} \/ a.request \in {None, a.lastRequest} THEN {} ELSE {Boot(a.request)})
    \cup {Window(k, SemanticReset(a.quota, k)) : k \in
            {x \in IF a.quota = None THEN {} ELSE a.on :
               LET t == SemanticReset(a.quota, x)
               IN  t > 0 /\ t <= now /\ a.quota.updated < t /\ a.last[x] # t}}

\* The kind of a slot: a window that is not reported is labelled by its slot.
WindowKind(ans, slot) ==
    IF ans.kind[slot] # None THEN ans.kind[slot]
    ELSE IF slot = "primary" THEN "five" ELSE "weekly"

\* A usage answer, fetched at time t, as the record it is cached as.
Cached(ans, t, at) ==
    [kind |-> [s \in Slots |-> WindowKind(ans, s)], used |-> ans.used, updated |-> at,
     reset |-> [s \in Slots |-> IF ans.in[s] = 0 THEN 0 ELSE t + ans.in[s]]]

Reserved(a, e) == IF e.kind = "boot" THEN a.lastRequest = e.id ELSE a.last[e.kind] = e.at

\* last_attempt_at: the time, later than any that a record has.
Clock == 1 + Max({a.attempt : a \in {srv, disk} \cup ({copy} \ {None})})

\* The attempt is recorded and its events count as handled.
Record(a, d) ==
    [a EXCEPT !.attempt = Clock,
              !.last = [k \in Kinds |-> IF \E e \in d : e.kind = k
                                        THEN (CHOOSE e \in d : e.kind = k).at ELSE @[k]],
              !.lastRequest = IF \E e \in d : e.kind = "boot"
                              THEN (CHOOSE e \in d : e.kind = "boot").id ELSE @]

---------------------------------------------------------------------------
(* The quota loop of the server.                                           *)

Go(s) == pc' = s

\* The store is saved; a save may fail and is not repeated.
Kept == UNCHANGED <<srv, disk, events>>
Spend(n) == events + n <= MaxEvents /\ events' = events + n
Event == Spend(1)
Stored(a, ok) ==
    /\ srv' = a
    /\ IF ok THEN disk' = a /\ UNCHANGED events ELSE UNCHANGED disk /\ Event
Saved(a) == \E ok \in BOOLEAN : Stored(a, ok)

\* The record of an attempt is stored.
Attempt(ok) == Stored(Record(srv, due), ok)
Attempted == \E ok \in BOOLEAN : Attempt(ok)

\* An upsert: memory keeps it, and only when it is saved is the usage fetched.
Upserted(a) ==
    /\ srv' = a
    /\ \/ disk' = a /\ asked' = TRUE
       \/ UNCHANGED <<disk, asked>>

Managing(a) == [a EXCEPT !.on = {Managed(a)}]
Bootstrapped(a) == [Managing(a) EXCEPT !.request = [n |-> Cardinality(ids) + 1, by |-> "default"]]

\* An account that was never configured is managed, and bootstrapped once
\* unless its window is known to run.
Defaulted(a) ==
    IF a.configured THEN a
    ELSE IF \/ a.request # None \/ a.lastRequest # None \/ a.attempt > 0
            \/ a.quota # None /\ a.quota.used
         THEN Managing(a) ELSE Bootstrapped(a)

\* A round starts with the defaults.
Defaults ==
    /\ pc = "idle"
    /\ LET a == Defaulted(srv)
       IN  /\ IF a = srv THEN Kept ELSE Saved(a)
           /\ ids' = ids \cup ({a.request} \ {None})
    /\ Go("targets")
    /\ UNCHANGED <<now, copy, due, usage, ghosts, newest, older, asked>>

\* A solo host has the accounts, or the account is no target: nothing is done
\* this round.
Yields ==
    /\ pc = "targets" /\ Go("idle")
    /\ UNCHANGED <<now, records, due, usage, ids, ghosts, events, newest, older, asked>>

\* The targets, with what is due for each.  The account is none while it is
\* marked as banned, invalid or logged out, which others decide, or when
\* nothing is due and its batch has not come.
Targets ==
    /\ pc = "targets"
    /\ due' = WindowPrimeDue(srv) /\ Go("fetch")
    /\ UNCHANGED <<now, records, usage, ids, ghosts, events, newest, older, asked>>

\* The usage before the warm-up.
Fetch ==
    /\ pc = "fetch"
    /\ \E ans \in Answers : usage' = [ans |-> ans, at |-> now]
    /\ Go(IF due = {} THEN "write" ELSE "fetched")
    /\ UNCHANGED <<now, records, due, ids, ghosts, events, newest, older, asked>>

\* It could not be fetched.
FetchFails ==
    /\ pc = "fetch" /\ Go("idle") /\ due' = {}
    /\ UNCHANGED <<now, records, usage, ids, ghosts, events, newest, older, asked>>

\* Mutant: a failed save does not stop the warm-up.
ReserveUnsaved ==
    /\ pc = "fetched" /\ usage.ans.left
    /\ IF \A e \in due : Reserved(srv, e) THEN Go("write") /\ Kept
       ELSE Attempted /\ Go("sending")
    /\ UNCHANGED <<now, copy, due, usage, ids, ghosts, asked, newest, older>>

\* The events are recorded as handled, and saved, before the request leaves.
Reserve ==
    /\ pc = "fetched" /\ usage.ans.left
    /\ IF \A e \in due : Reserved(srv, e) THEN Go("write") /\ Kept
       ELSE \E ok \in BOOLEAN : Attempt(ok) /\ Go(IF ok THEN "sending" ELSE "write")
    /\ UNCHANGED <<now, copy, due, usage, ids, ghosts, asked, newest, older>>

\* One of the windows is empty: a request would be refused, so the events
\* count as handled without one.
NoQuota ==
    /\ pc = "fetched" /\ ~usage.ans.left
    /\ Attempted /\ Go("write")
    /\ UNCHANGED <<now, copy, due, usage, ids, ghosts, asked, newest, older>>

\* The warm-up reaches the upstream.
WarmUp ==
    /\ pc = "sending" /\ Go("sent")
    /\ again' = again \cup (due \cap warmed) /\ warmed' = warmed \cup due
    /\ UNCHANGED <<now, records, due, usage, ids, events, newest, older, asked>>

\* It was answered: the usage is fetched once more.
WarmUpOk ==
    /\ pc = "sent" /\ Attempted /\ Go("refetch")
    /\ UNCHANGED <<now, copy, due, usage, ids, ghosts, asked, newest, older>>

\* It was refused, or lost on the way there or back: it is not sent again.
WarmUpFails ==
    /\ pc \in {"sending", "sent"}
    /\ Attempted
    /\ Go("write")
    /\ UNCHANGED <<now, copy, due, usage, ids, ghosts, asked, newest, older>>

\* The usage after the warm-up, or the older one.
Refetch ==
    /\ pc = "refetch"
    /\ \/ \E ans \in Answers : usage' = [ans |-> ans, at |-> now]
       \/ UNCHANGED usage
    /\ Go("write")
    /\ UNCHANGED <<now, records, due, ids, ghosts, events, newest, older, asked>>

\* The usage is cached.
Write ==
    /\ pc = "write"
    /\ Saved([srv EXCEPT !.quota = Cached(usage.ans, usage.at, now)])
    /\ usage' = None /\ due' = {} /\ Go("idle") /\ newest' = now
    /\ UNCHANGED <<now, copy, ids, ghosts, older, asked>>

---------------------------------------------------------------------------
(* The rest of the server, its clients and the world.                      *)

\* A command of the user, a switch or a request of a client wants the quota.
Query ==
    /\ ~asked /\ asked' = TRUE /\ Event
    /\ UNCHANGED <<now, records, loop, ids, ghosts, newest, older>>

\* It is cached.
Queried ==
    /\ asked /\ asked' = FALSE
    /\ \E ans \in Answers : Saved([srv EXCEPT !.quota = Cached(ans, now, now)])
    /\ newest' = now
    /\ UNCHANGED <<now, copy, loop, ids, ghosts, older>>

\* It could not be fetched.
QueryFails == asked /\ asked' = FALSE /\ UNCHANGED <<now, records, loop, ids, ghosts, events, newest, older>>

\* The client has the quota and the priming state as the server had them.
Pull ==
    /\ copy = None /\ copy' = srv /\ Spend(2)
    /\ UNCHANGED <<now, srv, disk, loop, ids, ghosts, newest, older, asked>>

\* Mutant: the client's watermarks replace the server's.
MergeTrusts(new, old) == new

\* The switches are the client's, the watermarks only advance.
Merge(new, old) ==
    [new EXCEPT !.last = [k \in Kinds |-> IF old.last[k] > @[k] THEN old.last[k] ELSE @[k]],
                !.lastRequest = IF old.attempt >= new.attempt /\ old.lastRequest # None
                                THEN old.lastRequest ELSE @,
                !.attempt = IF old.attempt > @ THEN old.attempt ELSE @]

\* The user of the client turns priming off, or on, which makes a bootstrap
\* request.
TurnedOff(a) == [a EXCEPT !.on = {}, !.configured = TRUE]
TurnedOn(a, id) == [a EXCEPT !.on = {Managed(a)}, !.configured = TRUE, !.request = id]

\* The client pushes the account whole, as it copied it or with a change.
Push ==
    /\ copy # None /\ copy' = None
    /\ older' = (older \/ (copy.quota # None /\ copy.quota.updated < newest))
    /\ LET id == [n |-> Cardinality(ids) + 1, by |-> "user"]
       IN  \/ /\ \E a \in {copy, TurnedOff(copy)} : Upserted(Merge(a, srv))
              /\ UNCHANGED ids
           \/ /\ Managed(copy) \notin copy.on
              /\ Upserted(Merge(TurnedOn(copy, id), srv))
              /\ ids' = ids \cup {id}
    /\ UNCHANGED <<now, loop, ghosts, newest, events>>

\* The account is imported again under another id: the record is new, its
\* switches stay.
Reimport ==
    /\ Event /\ Upserted(Merge([Fresh EXCEPT !.on = srv.on], srv))
    /\ UNCHANGED <<now, copy, loop, ids, ghosts, newest, older>>

Crash ==
    /\ Event
    /\ srv' = disk /\ pc' = "idle" /\ due' = {} /\ usage' = None /\ asked' = FALSE
    /\ UNCHANGED <<now, disk, copy, ids, ghosts, newest, older>>

Tick ==
    /\ now < MaxTime /\ now' = now + 1
    /\ UNCHANGED <<records, loop, ids, ghosts, events, newest, older, asked>>

Loop == Defaults \/ Yields \/ Targets \/ Fetch \/ FetchFails \/ Reserve \/ NoQuota
        \/ WarmUp \/ WarmUpOk \/ WarmUpFails \/ Refetch \/ Write
Next == Loop \/ Query \/ Queried \/ QueryFails \/ Pull \/ Push \/ Reimport \/ Crash \/ Tick

Spec == Init /\ [][Next]_vars

---------------------------------------------------------------------------
(* Properties.                                                             *)

Times == 0 .. MaxTime + 8
Quotas == [kind : [Slots -> Kinds], used : BOOLEAN, updated : 0 .. MaxTime, reset : [Slots -> Times]]
Events == {Boot(id) : id \in Boots} \cup [kind : Kinds, at : Times]

\* Accounts, targets and the warmed events have their types: a window that
\* was recorded lies in the past, and only known bootstraps are asked for.
TypeOK ==
    /\ now \in 0 .. MaxTime /\ asked \in BOOLEAN
    /\ pc \in {"idle", "targets", "fetch", "fetched", "sending", "sent", "refetch", "write"}
    /\ ids \subseteq Boots /\ due \subseteq Events /\ warmed \subseteq Events /\ again \subseteq warmed
    /\ pc \in {"fetched", "sending", "sent", "refetch", "write"} <=> usage # None
    /\ \A a \in {srv, disk} \cup ({copy} \ {None}) :
         /\ a.quota = None \/ a.quota \in Quotas
         /\ a.configured \in BOOLEAN /\ a.attempt \in Nat
         /\ a.on \subseteq Kinds /\ {a.request, a.lastRequest} \subseteq ids \cup {None}
         /\ \A k \in Kinds : a.last[k] \in 0 .. now

\* No event is warmed twice, whatever crashes, fails to be saved, or is pushed
\* by a client that copied the record at any earlier point of the attempt
\* (lib.rs 2184 and 2273-2274).  Except after a push of a quota older than one
\* the server has had: it brings back the end of a window that the watermark,
\* which names a later one, does not cover (lib.rs 2206).
AtMostOnce == older \/ again = {}

\* What is saved of the watermarks only advances, whoever writes the account
\* (remote_server.rs 803-809, account.rs 572-573), with the same exception,
\* which those comments do not make: a window that is warmed again takes the
\* watermark back to its end.
WatermarksAdvance == [][older' \/ \A k \in Kinds : disk.last[k] <= disk'.last[k]]_vars
=============================================================================
