------------------------- MODULE AntigravityProofs -------------------------
(***************************************************************************)
(* Theorems about Antigravity, for any sets of accounts, requests and      *)
(* loops and any bound on the events.                                      *)
(***************************************************************************)
EXTENDS Antigravity, TLAPS

RequestPCs == {"new", "route", "lease", "refresh", "renew", "send", "body", "over"}
LoopPCs == {"route", "lease", "refresh", "fetch", "write"}
Working == {"lease", "refresh", "renew", "send", "body", "fetch", "write"}
Pages == [ids : SUBSET Accounts, used : SUBSET Accounts]

(* The pointer of a host names one of its accounts, or none. *)
PointerOK(h) == selected[h] \in google[h] \cup {NoAccount}

StoresOK ==
    /\ google \in [Hosts -> SUBSET Accounts]
    /\ selected \in [Hosts -> Accounts \cup {NoAccount}]
    /\ \A h \in Hosts : PointerOK(h)
    /\ google["server"] = secret

(* Whole records: whatever the client has of them was the server's, and an *)
(* account that was deleted on the server is back only by one of them.     *)
CopiesOK ==
    /\ secret \subseteq born /\ wiped \subseteq born
    /\ whole \subseteq leaked /\ leaked \subseteq born
    /\ \A x \in Replies : \A page \in pages[x] : page.ids \subseteq born
    /\ wiped \cap secret \subseteq leaked

SetsOK ==
    /\ exhausted \in [Hosts -> SUBSET Accounts]
    /\ expired \subseteq Accounts /\ leased \subseteq Accounts /\ spent \subseteq Accounts
    /\ born \subseteq Accounts /\ joining \subseteq Accounts
    /\ pages \in [Replies -> SUBSET Pages]

(* A lock is held by exactly the task that refreshes its account. *)
LocksOK ==
    /\ lock \in [Accounts -> Tasks \cup {Free}]
    /\ \A a \in Accounts : lock[a] # Free => pc[lock[a]] = "refresh" /\ acct[lock[a]] = a
    /\ \A t \in Tasks : pc[t] = "refresh" => lock[acct[t]] = t

TasksOK ==
    /\ pc \in [Tasks -> RequestPCs \cup LoopPCs]
    /\ \A r \in Requests : pc[r] \in RequestPCs
    /\ \A q \in Loops : pc[q] \in LoopPCs
    /\ acct \in [Tasks -> Accounts \cup {NoAccount}]
    /\ \A t \in Tasks : pc[t] \in Working => acct[t] \in Accounts
    /\ todo \in [Tasks -> SUBSET Accounts]

RequestsOK ==
    /\ host \in [Requests -> Hosts]
    /\ tails = [r \in Requests |-> tails[r]]

(* A request remembers where the pointer was when it came, and one that is *)
(* overruled began with another account than the user has chosen since.    *)
WishesOK ==
    /\ began = [r \in Requests |-> began[r]] /\ at = began
    /\ choice = [h \in Hosts |-> choice[h]]
    /\ \A r \in overruled : r \in Requests /\ pc[r] # "new" /\ began[r] # choice[host[r]]

Inv == StoresOK /\ CopiesOK /\ SetsOK /\ LocksOK /\ TasksOK /\ RequestsOK /\ WishesOK
---------------------------------------------------------------------------
LEMMA InvInit == Init => Inv
<1> SUFFICES ASSUME Init PROVE Inv
  OBVIOUS
<1>1. StoresOK
  BY GoogleAssumption DEF Init, StoresOK, PointerOK, Hosts
<1>2. SetsOK
  BY GoogleAssumption DEF Init, SetsOK, Pages
<1>3. LocksOK
  BY GoogleAssumption DEF Init, LocksOK
<1>4. TasksOK
  BY GoogleAssumption DEF Init, TasksOK, Tasks, RequestPCs, LoopPCs, Working
<1>5. RequestsOK
  BY DEF Init, RequestsOK
<1>6. CopiesOK
  BY DEF Init, CopiesOK
<1>7. WishesOK
  BY DEF Init, WishesOK
<1> QED BY <1>1, <1>2, <1>3, <1>4, <1>5, <1>6, <1>7 DEF Inv

(***************************************************************************)
(* The tasks: where a step leads, and what it does to the lock.            *)
(***************************************************************************)
Moves(t) ==
    /\ pc' \in [Tasks -> RequestPCs \cup LoopPCs]
    /\ t \in Requests => pc'[t] \in RequestPCs \ {"new"}
    /\ t \in Loops => pc'[t] \in LoopPCs
    /\ acct' \in [Tasks -> Accounts \cup {NoAccount}]
    /\ pc'[t] \in Working => acct'[t] \in Accounts
    /\ todo' \in [Tasks -> SUBSET Accounts]
    /\ \A u \in Tasks \ {t} : pc'[u] = pc[u] /\ acct'[u] = acct[u]
    /\ \/ pc[t] # "refresh" /\ pc'[t] # "refresh" /\ lock' = lock
       \/ /\ pc[t] # "refresh" /\ lock[acct[t]] = Free /\ pc[t] \in Working
          /\ pc'[t] = "refresh" /\ acct'[t] = acct[t]
          /\ lock' = [lock EXCEPT ![acct[t]] = t]
       \/ /\ pc[t] = "refresh" /\ pc'[t] # "refresh"
          /\ lock' = [lock EXCEPT ![acct[t]] = Free]

LEMMA MovesKeep ==
    ASSUME Inv, NEW t \in Tasks, Moves(t)
    PROVE  TasksOK' /\ LocksOK'
<1>1. TasksOK'
  BY DEF Inv, TasksOK, Moves, Tasks
<1>2. CASE pc[t] # "refresh" /\ pc'[t] # "refresh" /\ lock' = lock
  <2>1. ASSUME NEW a \in Accounts, lock'[a] # Free
        PROVE  pc'[lock'[a]] = "refresh" /\ acct'[lock'[a]] = a
    <3>1. lock[a] \in Tasks \ {t} /\ pc[lock[a]] = "refresh" /\ acct[lock[a]] = a
      BY <1>2, <2>1 DEF Inv, LocksOK
    <3> QED BY <1>2, <3>1 DEF Moves
  <2>2. ASSUME NEW u \in Tasks, pc'[u] = "refresh" PROVE lock'[acct'[u]] = u
    BY <1>2, <2>2 DEF Inv, LocksOK, Moves
  <2> QED BY <1>1, <1>2, <2>1, <2>2 DEF Inv, LocksOK
<1>3. CASE /\ pc[t] # "refresh" /\ lock[acct[t]] = Free /\ pc[t] \in Working
           /\ pc'[t] = "refresh" /\ acct'[t] = acct[t]
           /\ lock' = [lock EXCEPT ![acct[t]] = t]
  <2>1. acct[t] \in Accounts
    BY <1>3 DEF Inv, TasksOK
  <2> QED BY <1>1, <1>3, <2>1, GoogleAssumption DEF Inv, LocksOK, TasksOK, Moves, Working
<1>4. CASE /\ pc[t] = "refresh" /\ pc'[t] # "refresh"
           /\ lock' = [lock EXCEPT ![acct[t]] = Free]
  <2>1. acct[t] \in Accounts
    BY <1>4 DEF Inv, TasksOK, Working
  <2> QED BY <1>1, <1>4, <2>1, GoogleAssumption DEF Inv, LocksOK, TasksOK, Moves, Working
<1> QED BY <1>1, <1>2, <1>3, <1>4 DEF Moves

LEMMA MoveOnMoves ==
    ASSUME Inv, NEW t \in Tasks, MoveOn(t), UNCHANGED todo,
           \/ pc[t] # "refresh" /\ lock' = lock
           \/ pc[t] = "refresh" /\ lock' = [lock EXCEPT ![acct[t]] = Free]
    PROVE  Moves(t)
BY DEF MoveOn, Go, Moves, Inv, TasksOK, RequestPCs, LoopPCs, Working, Tasks

LEMMA GoOnMoves ==
    ASSUME Inv, NEW t \in Tasks, NEW label, GoOn(t, label), UNCHANGED todo, pc[t] \in Working,
           t \in Requests => label \in RequestPCs \ {"refresh", "new"},
           t \in Loops => label \in LoopPCs \ {"refresh"},
           \/ pc[t] # "refresh" /\ lock' = lock
           \/ pc[t] = "refresh" /\ lock' = [lock EXCEPT ![acct[t]] = Free]
    PROVE  Moves(t)
<1>1. label \in RequestPCs \cup LoopPCs /\ label # "refresh"
  BY DEF Tasks
<1>2. acct[t] \in Accounts
  BY DEF Inv, TasksOK
<1> QED BY <1>1, <1>2 DEF GoOn, Go, Moves, Inv, TasksOK

LEMMA EndMoves ==
    ASSUME Inv, NEW r \in Requests, End(r), pc[r] # "refresh", lock' = lock
    PROVE  Moves(r)
BY GoogleAssumption DEF End, Go, Moves, Inv, TasksOK, RequestPCs, Working, Tasks

(* A request begins, or ends, or remembers what it did. *)
Remembers(t) ==
    \/ UNCHANGED <<at, wishes>>
    \/ /\ t \in Requests /\ UNCHANGED choice
       /\ \E id : at' = [at EXCEPT ![t] = id] /\ began' = [began EXCEPT ![t] = id]
       /\ \/ overruled' = overruled \ {t}
          \/ overruled' = overruled /\ pc[t] = "new"

LEMMA EndRemembers ==
    ASSUME NEW r \in Requests, End(r)
    PROVE  Remembers(r)
<1>1. at' = [at EXCEPT ![r] = NoAccount] /\ began' = [began EXCEPT ![r] = NoAccount]
  BY DEF End
<1>2. overruled' = overruled \ {r} /\ choice' = choice
  BY DEF End
<1> QED BY <1>1, <1>2 DEF Remembers

(* The stores and the sets of accounts, as the requests change them.       *)
UsesOK(t) ==
    /\ Moves(t)
    /\ Remembers(t)
    /\ UNCHANGED <<google, secret, born, spent, joining, pages, host, copies>>
    /\ \/ selected' = selected
       \/ t \in Requests /\ selected' = Adopt(t)
    /\ exhausted' \in [Hosts -> SUBSET Accounts]
    /\ expired' \subseteq expired
    /\ leased' \subseteq leased \cup {acct[t]}
    /\ leased' # leased => leased' \subseteq leased \/ pc[t] \in Working
    /\ tails' = [r \in Requests |-> tails'[r]]

LEMMA UsesKeep ==
    ASSUME Inv, NEW t \in Tasks, UsesOK(t)
    PROVE  Inv'
<1>1. TasksOK' /\ LocksOK'
  BY MovesKeep DEF UsesOK
<1>2. RequestsOK'
  BY DEF UsesOK, Inv, RequestsOK
<1>3. SetsOK'
  <2>1. pc[t] \in Working => acct[t] \in Accounts
    BY DEF Inv, TasksOK
  <2> QED BY <2>1 DEF UsesOK, Inv, SetsOK
<1>4. StoresOK'
  <2>1. CASE selected' = selected
    BY <2>1 DEF UsesOK, Inv, StoresOK, PointerOK
  <2>2. CASE t \in Requests /\ selected' = Adopt(t)
    <3>1. host[t] \in Hosts
      BY <2>2 DEF Inv, RequestsOK
    <3>2. CASE selected' = selected
      BY <2>1, <3>2
    <3>3. CASE acct[t] \in google[host[t]] /\ selected' = [selected EXCEPT ![host[t]] = acct[t]]
      <4>1. acct[t] \in Accounts
        BY <3>1, <3>3 DEF Inv, StoresOK
      <4> QED BY <3>1, <3>3, <4>1 DEF UsesOK, Inv, StoresOK, PointerOK
    <3> QED BY <2>2, <3>2, <3>3 DEF Adopt
  <2> QED BY <2>1, <2>2 DEF UsesOK
<1>5. CopiesOK'
  BY DEF UsesOK, Inv, CopiesOK, copies
<1>6. WishesOK'
  <2>1. \A r \in Requests : pc[r] # "new" => pc'[r] # "new"
    BY DEF UsesOK, Moves, Tasks
  <2>2. CASE UNCHANGED <<at, wishes>>
    BY <2>1, <2>2 DEF UsesOK, Inv, WishesOK, wishes
  <2>3. ASSUME NEW id, at' = [at EXCEPT ![t] = id], began' = [began EXCEPT ![t] = id],
               overruled' = overruled \ {t} \/ (overruled' = overruled /\ pc[t] = "new"),
               t \in Requests, UNCHANGED choice
        PROVE  WishesOK'
    <3>1. overruled' \subseteq overruled \ {t}
      BY <2>3 DEF Inv, WishesOK
    <3>2. \A r \in overruled' : began'[r] = began[r]
      BY <2>3, <3>1 DEF Inv, WishesOK
    <3> QED BY <2>1, <2>3, <3>1, <3>2 DEF UsesOK, Inv, WishesOK
  <2> QED BY <2>2, <2>3 DEF UsesOK, Remembers
<1> QED BY <1>1, <1>2, <1>3, <1>4, <1>5, <1>6 DEF Inv

LEMMA ArriveStep ==
    ASSUME Inv, NEW r \in Requests, Arrive(r) \/ Prewarm(r) \/ GiveUp(r)
    PROVE  UsesOK(r)
<1>1. /\ UNCHANGED <<stores, host, tails, loops, leased, lock, spent>>
      /\ pc[r] \in {"new", "route"}
  BY DEF Arrive, Prewarm, GiveUp
<1>2. Moves(r)
  <2>1. CASE End(r)
    BY <1>1, <2>1, EndMoves
  <2>2. ASSUME NEW ids \in SUBSET Accounts, todo' = [todo EXCEPT ![r] = ids], Go(r, "route"),
               acct' = acct
        PROVE  Moves(r)
    BY <1>1, <2>2, GoogleAssumption
       DEF Go, Moves, Inv, TasksOK, RequestPCs, LoopPCs, Working, Tasks
  <2>3. /\ Routes(host[r]) \subseteq Accounts
        /\ selected["client"] \in Usable("client") => {selected["client"]} \subseteq Accounts
    BY DEF Routes, Usable, Inv, StoresOK, RequestsOK, Hosts
  <2> QED BY <2>1, <2>2, <2>3 DEF Arrive, Prewarm, GiveUp
<1>3. Remembers(r)
  <2>1. CASE End(r)
    BY <2>1, EndRemembers
  <2>2. CASE Arrive(r) /\ ~End(r)
    BY <2>2 DEF Arrive, Remembers
  <2>3. CASE Prewarm(r)
    BY <2>3 DEF Prewarm, Remembers
  <2> QED BY <2>1, <2>2, <2>3 DEF GiveUp
<1> QED BY <1>1, <1>2, <1>3 DEF UsesOK, Inv, SetsOK, RequestsOK, stores, loops

LEMMA TakeStep ==
    ASSUME Inv, NEW t \in Tasks, Take(t)
    PROVE  UsesOK(t)
<1>1. PICK a \in todo[t] :
         /\ acct' = [acct EXCEPT ![t] = a] /\ todo' = [todo EXCEPT ![t] = @ \ {a}]
         /\ Go(t, IF t \in Loops THEN "lease"
                  ELSE IF host[t] = "client"
                       THEN IF a \notin leased THEN "lease" ELSE IF warm[t] THEN "route" ELSE "send"
                  ELSE IF a \in expired THEN "renew" ELSE "send")
  BY DEF Take
<1>2. a \in Accounts
  BY <1>1 DEF Inv, TasksOK
<1>3. \E label \in {"lease", "route", "renew", "send"} :
         Go(t, label) /\ (t \in Loops => label = "lease")
  BY <1>1
<1>4. UNCHANGED <<stores, host, tails, loops, leased, lock, spent>> /\ pc[t] = "route"
  BY DEF Take
<1>5. Moves(t)
  BY <1>1, <1>2, <1>3, <1>4, GoogleAssumption
     DEF Go, Moves, Inv, TasksOK, RequestPCs, LoopPCs, Working, Tasks
<1>6. Remembers(t)
  BY DEF Take, Remembers
<1> QED BY <1>4, <1>5, <1>6 DEF UsesOK, Inv, SetsOK, RequestsOK, stores, loops

LEMMA LeasedMoves ==
    ASSUME Inv, NEW t \in Tasks, Leased(t), UNCHANGED todo, pc[t] \in Working,
           \/ pc[t] # "refresh" /\ lock' = lock
           \/ pc[t] = "refresh" /\ lock' = [lock EXCEPT ![acct[t]] = Free]
    PROVE  Moves(t)
<1>1. \E label \in {"fetch", "route", "send"} :
         /\ GoOn(t, label)
         /\ IF t \in Loops THEN label = "fetch" ELSE label # "fetch"
  BY DEF Leased
<1> QED BY <1>1, GoOnMoves, GoogleAssumption DEF RequestPCs, LoopPCs

LEMMA LeaseStep ==
    ASSUME Inv, NEW t \in Tasks, Lease(t) \/ Refreshed(t) \/ LeaseFails(t)
    PROVE  UsesOK(t)
<1>1. /\ UNCHANGED <<google, selected, exhausted, secret, born, copies, host, at, wishes, tails,
                     loops, spent, todo>>
      /\ pc[t] \in {"lease", "refresh"}
      /\ pc[t] \in Working
  BY DEF Lease, Refreshed, LeaseFails, stores, request, Working
<1>2. Moves(t)
  <2> DEFINE release == \/ pc[t] # "refresh" /\ lock' = lock
                        \/ pc[t] = "refresh" /\ lock' = [lock EXCEPT ![acct[t]] = Free]
  <2>0. \/ (MoveOn(t) \/ Leased(t)) /\ release
        \/ /\ pc[t] = "lease" /\ lock[acct[t]] = Free
           /\ lock' = [lock EXCEPT ![acct[t]] = t] /\ GoOn(t, "refresh")
    <3>1. CASE Lease(t)
      BY <3>1 DEF Lease
    <3>2. CASE Refreshed(t)
      BY <3>2 DEF Refreshed
    <3>3. CASE LeaseFails(t)
      BY <3>3 DEF LeaseFails
    <3> QED BY <3>1, <3>2, <3>3
  <2>1. CASE MoveOn(t) /\ release
    BY <1>1, <2>1, MoveOnMoves
  <2>2. CASE Leased(t) /\ release
    BY <1>1, <2>2, LeasedMoves
  <2>3. CASE /\ pc[t] = "lease" /\ lock[acct[t]] = Free
             /\ lock' = [lock EXCEPT ![acct[t]] = t] /\ GoOn(t, "refresh")
    <3>1. acct[t] \in Accounts
      BY <1>1 DEF Inv, TasksOK
    <3> QED BY <1>1, <2>3, <3>1
            DEF GoOn, Go, Moves, Inv, TasksOK, RequestPCs, LoopPCs
  <2> QED BY <2>0, <2>1, <2>2, <2>3
<1>3. /\ expired' \subseteq expired
      /\ leased' \subseteq leased \cup {acct[t]}
  BY DEF Lease, Refreshed, LeaseFails, Leased, stores
<1> QED BY <1>1, <1>2, <1>3 DEF UsesOK, Remembers, Inv, SetsOK, RequestsOK, loops

LEMMA AnswerStep ==
    ASSUME Inv, NEW r \in Requests,
           \/ Renew(r) \/ Answer401(r) \/ Answer429(r) \/ Answer400(r) \/ AnswerOther(r)
           \/ Answer200(r) \/ Body(r)
    PROVE  UsesOK(r)
<1>1. /\ UNCHANGED <<google, secret, born, copies, host, loops, spent, lock>>
      /\ pc[r] \in {"renew", "send", "body"}
      /\ pc[r] \in Working
  BY DEF Renew, Answer401, Answer429, Answer400, AnswerOther, Answer200, Body, stores, request,
         Working
<1>2. Moves(r)
  <2>1. CASE MoveOn(r) /\ UNCHANGED todo
    BY <1>1, <2>1, MoveOnMoves DEF Tasks
  <2>2. CASE End(r)
    BY <1>1, <2>2, EndMoves
  <2>3. ASSUME NEW label \in {"send", "lease", "body"}, GoOn(r, label), UNCHANGED todo
        PROVE  Moves(r)
    BY <1>1, <2>3, GoOnMoves, GoogleAssumption DEF Tasks, RequestPCs
  <2> QED BY <2>1, <2>2, <2>3
          DEF Renew, Answer401, Answer429, Answer400, AnswerOther, Answer200, Body, request,
              GoOn, Stays
<1>3. selected' = selected \/ selected' = Adopt(r)
  BY DEF Renew, Answer401, Answer429, Answer400, AnswerOther, Answer200, Body, stores
<1>4. exhausted' \in [Hosts -> SUBSET Accounts]
  <2>1. CASE exhausted' = exhausted
    BY <2>1 DEF Inv, SetsOK
  <2>2. CASE exhausted' = [exhausted EXCEPT ![host[r]] = @ \cup ({acct[r]} \cap google[host[r]])]
    BY <2>2 DEF Inv, SetsOK, StoresOK, RequestsOK
  <2> QED BY <2>1, <2>2
          DEF Renew, Answer401, Answer429, Answer400, AnswerOther, Answer200, Body, stores
<1>5. expired' \subseteq expired /\ leased' \subseteq leased
  BY DEF Renew, Answer401, Answer429, Answer400, AnswerOther, Answer200, Body, stores
<1>6. tails' = [u \in Requests |-> tails'[u]]
  <2>1. CASE tails' = tails
    BY <2>1 DEF Inv, RequestsOK
  <2>2. CASE tails' = [tails EXCEPT ![r] = @ \cup {<<acct[r], "fetch">>}]
    BY <2>2 DEF Inv, RequestsOK
  <2> QED BY <2>1, <2>2
          DEF Renew, Answer401, Answer429, Answer400, AnswerOther, Answer200, Body, request
<1>7. Remembers(r)
  <2>1. CASE End(r)
    BY <2>1, EndRemembers
  <2>2. CASE UNCHANGED <<at, wishes>>
    BY <2>2 DEF Remembers
  <2> QED BY <2>1, <2>2
          DEF Renew, Answer401, Answer429, Answer400, AnswerOther, Answer200, Body, request,
              Stays, Kept
<1> QED BY <1>1, <1>2, <1>3, <1>4, <1>5, <1>6, <1>7 DEF UsesOK, loops

LEMMA RecordedType ==
    ASSUME Inv, NEW h \in Hosts, NEW a, NEW used
    PROVE  Recorded(h, a, used) \in [Hosts -> SUBSET Accounts]
BY DEF Recorded, Inv, SetsOK, StoresOK

LEMMA TailStep ==
    ASSUME Inv, NEW r \in Requests, Tail(r)
    PROVE  Inv'
<1>1. UNCHANGED <<google, selected, secret, expired, born, copies, host, at, wishes, loops, leased,
                  lock, spent, pc, acct, todo>>
  BY DEF Tail
<1>2. exhausted' \in [Hosts -> SUBSET Accounts]
  <2>1. host[r] \in Hosts
    BY DEF Inv, RequestsOK
  <2>2. exhausted' = exhausted \/ \E x \in tails[r] : exhausted' = Recorded(host[r], x[1], x[2])
    BY DEF Tail
  <2> QED BY <2>1, <2>2, RecordedType DEF Inv, SetsOK
<1>3. tails' = [u \in Requests |-> tails'[u]]
  <2>1. \E new : tails' = [tails EXCEPT ![r] = new]
    BY DEF Tail
  <2> QED BY <2>1 DEF Inv, RequestsOK
<1> QED BY <1>1, <1>2, <1>3
        DEF Inv, StoresOK, PointerOK, CopiesOK, SetsOK, LocksOK, TasksOK, RequestsOK, WishesOK,
            copies, wishes, loops

LEMMA LoopStep ==
    ASSUME Inv, NEW q \in Loops, Round(q) \/ Fetch(q) \/ Write(q)
    PROVE  UsesOK(q)
<1>1. /\ UNCHANGED <<google, selected, secret, expired, born, copies, request, pages, joining,
                     leased, lock, spent>>
      /\ pc[q] \in {"route", "fetch", "write"}
  BY DEF Round, Fetch, Write, stores, loops
<1>2. Moves(q)
  <2>1. CASE MoveOn(q) /\ UNCHANGED todo
    BY <1>1, <2>1, MoveOnMoves DEF Tasks
  <2>2. CASE GoOn(q, "write") /\ UNCHANGED todo /\ pc[q] = "fetch"
    BY <1>1, <2>2, GoOnMoves, GoogleAssumption DEF Tasks, LoopPCs, Working
  <2>3. CASE todo' = [todo EXCEPT ![q] = Usable("server")] /\ UNCHANGED <<pc, acct>>
    <3>1. Usable("server") \subseteq Accounts
      BY DEF Usable, Inv, StoresOK, Hosts
    <3> QED BY <1>1, <2>3, <3>1 DEF Moves, Inv, TasksOK, Tasks
  <2> QED BY <2>1, <2>2, <2>3 DEF Round, Fetch, Write
<1>3. exhausted' \in [Hosts -> SUBSET Accounts]
  <2>1. exhausted' = exhausted \/ exhausted' = Recorded("server", acct[q], read[q])
    BY DEF Round, Fetch, Write, stores
  <2> QED BY <2>1, RecordedType DEF Inv, SetsOK, Hosts
<1> QED BY <1>1, <1>2, <1>3 DEF UsesOK, Remembers, Inv, RequestsOK, request

(***************************************************************************)
(* The stores: deletes, mirrors, logins.                                   *)
(***************************************************************************)
LEMMA EnsuredPointer ==
    ASSUME NEW accounts \in SUBSET Accounts, NEW id, NEW new \in Ensured(accounts, id)
    PROVE  /\ new \in accounts \cup {NoAccount}
           /\ id \in accounts => new = id
BY DEF Ensured

LEMMA KeepPointer ==
    ASSUME Inv, NEW h \in Hosts, NEW accounts \in SUBSET Accounts, Keep(h, accounts)
    PROVE  /\ google' \in [Hosts -> SUBSET Accounts]
           /\ google'[h] = accounts
           /\ \A x \in Hosts \ {h} : google'[x] = google[x] /\ selected'[x] = selected[x]
           /\ selected' \in [Hosts -> Accounts \cup {NoAccount}]
           /\ \A x \in Hosts : PointerOK(x)'
           /\ selected[h] \in accounts => selected'[h] = selected[h]
<1>1. PICK id \in Ensured(accounts, selected[h]) : selected' = [selected EXCEPT ![h] = id]
  BY DEF Keep
<1>2. /\ google' = [google EXCEPT ![h] = accounts]
      /\ google \in [Hosts -> SUBSET Accounts]
      /\ selected \in [Hosts -> Accounts \cup {NoAccount}]
      /\ \A x \in Hosts : PointerOK(x)
  BY DEF Keep, Inv, StoresOK
<1>3. /\ id \in accounts \cup {NoAccount}
      /\ selected[h] \in accounts => id = selected[h]
  BY <1>1, EnsuredPointer
<1> QED BY <1>1, <1>2, <1>3 DEF PointerOK

(* Whatever leaves the tasks alone keeps what is known of them. *)
LEMMA TasksIdle ==
    ASSUME Inv, UNCHANGED <<lock, pc, acct, todo, host, tails>>
    PROVE  LocksOK' /\ TasksOK' /\ RequestsOK'
BY DEF Inv, LocksOK, TasksOK, RequestsOK

LEMMA WishesIdle ==
    ASSUME Inv, UNCHANGED <<pc, host, at, wishes>>
    PROVE  WishesOK'
BY DEF Inv, WishesOK, wishes

LEMMA CopyStep == Inv /\ Copying => Inv'
<1> SUFFICES ASSUME Inv, Copying PROVE Inv'
  OBVIOUS
<1>1. /\ UNCHANGED <<lock, pc, acct, todo, host, tails, at, wishes>>
      /\ UNCHANGED <<secret, expired, born, wiped, leased, spent, joining>>
  BY DEF Copying, Pull, Mirror, PullAll, Ask, request, stores, copies
<1>2. LocksOK' /\ TasksOK' /\ RequestsOK' /\ WishesOK'
  BY <1>1, TasksIdle, WishesIdle
<1>3. ASSUME NEW h \in Hosts, NEW accounts \in SUBSET Accounts, Keep(h, accounts),
             h = "client"
      PROVE  StoresOK'
  BY <1>1, <1>3, KeepPointer DEF Inv, StoresOK, Hosts
<1>4. UNCHANGED <<google, selected>> => StoresOK'
  BY <1>1 DEF Inv, StoresOK, PointerOK
<1>5. ASSUME NEW x \in Replies, NEW page \in pages[x]
      PROVE  page.ids \subseteq Accounts /\ page.used \subseteq Accounts /\ page.ids \subseteq born
  BY DEF Inv, SetsOK, Pages, CopiesOK
<1>6. google["client"] \subseteq Accounts /\ google["server"] \subseteq Accounts
  BY DEF Inv, StoresOK, Hosts
<1>7. ASSUME NEW x \in Replies, pages' = [pages EXCEPT ![x] = {}]
      PROVE  /\ pages' \in [Replies -> SUBSET Pages]
             /\ whole' \subseteq whole /\ leaked' = leaked => CopiesOK'
  BY <1>1, <1>7 DEF Inv, SetsOK, CopiesOK
<1>8. "quotas" \in Replies /\ "mirror" \in Replies /\ "all" \in Replies
  BY DEF Replies
<1>9. CASE Pull
  <2>1. PICK page \in pages["quotas"] : \E young \in SUBSET ((google["client"] \ page.ids) \ Born) :
             /\ Keep("client", google["client"] \ ((google["client"] \ page.ids) \ young))
             /\ whole' = whole \ ((google["client"] \ page.ids) \ young)
             /\ exhausted' = [exhausted EXCEPT !["client"] =
                                (@ \cap young) \cup (google["client"] \cap page.used)]
    BY <1>9 DEF Pull
  <2>2. PICK young \in SUBSET ((google["client"] \ page.ids) \ Born) :
             /\ Keep("client", google["client"] \ ((google["client"] \ page.ids) \ young))
             /\ whole' = whole \ ((google["client"] \ page.ids) \ young)
             /\ exhausted' = [exhausted EXCEPT !["client"] =
                                (@ \cap young) \cup (google["client"] \cap page.used)]
    BY <2>1
  <2>3. StoresOK'
    BY <1>3, <1>6, <2>2 DEF Hosts
  <2>4. exhausted' \in [Hosts -> SUBSET Accounts]
    BY <1>6, <2>2 DEF Inv, SetsOK
  <2>5. pages' \in [Replies -> SUBSET Pages] /\ CopiesOK'
    BY <1>7, <1>8, <1>9, <2>2 DEF Pull
  <2> QED BY <1>1, <1>2, <2>3, <2>4, <2>5 DEF Inv, SetsOK
<1>10. CASE Mirror
  <2>1. PICK page \in pages["mirror"] :
             /\ IF page.ids = {} THEN UNCHANGED <<google, selected>>
                ELSE Keep("client", google["client"] \cup (page.ids \ google["client"]))
             /\ exhausted' = [exhausted EXCEPT !["client"] =
                                @ \cup ((page.ids \ google["client"]) \cap page.used)]
    BY <1>10 DEF Mirror
  <2>2. page.ids \subseteq Accounts
    BY <1>5, <1>8
  <2>3. StoresOK'
    BY <1>3, <1>4, <1>6, <2>1, <2>2 DEF Hosts
  <2>4. exhausted' \in [Hosts -> SUBSET Accounts]
    BY <2>1, <2>2 DEF Inv, SetsOK
  <2>5. pages' \in [Replies -> SUBSET Pages] /\ CopiesOK'
    BY <1>7, <1>8, <1>10 DEF Mirror, copies
  <2> QED BY <1>1, <1>2, <2>3, <2>4, <2>5 DEF Inv, SetsOK
<1>11. CASE PullAll
  <2>1. PICK page \in pages["all"] :
             /\ google' = [google EXCEPT !["client"] = @ \cup page.ids]
             /\ whole' = whole \cup page.ids /\ leaked' = leaked \cup page.ids
             /\ exhausted' = [exhausted EXCEPT !["client"] = (@ \ page.ids) \cup page.used]
    BY <1>11 DEF PullAll
  <2>2. page.ids \subseteq Accounts /\ page.used \subseteq Accounts /\ page.ids \subseteq born
    BY <1>5, <1>8
  <2>3. pages' = [pages EXCEPT !["all"] = {}] /\ selected' = selected
    BY <1>11 DEF PullAll
  <2>4. StoresOK'
    BY <1>1, <2>1, <2>2, <2>3 DEF Inv, StoresOK, PointerOK, Hosts
  <2>5. exhausted' \in [Hosts -> SUBSET Accounts]
    BY <2>1, <2>2 DEF Inv, SetsOK
  <2>6. pages' \in [Replies -> SUBSET Pages]
    BY <1>7, <1>8, <2>3
  <2>7. CopiesOK'
    BY <1>1, <2>1, <2>2, <2>3 DEF Inv, CopiesOK, SetsOK
  <2> QED BY <1>1, <1>2, <2>4, <2>5, <2>6, <2>7 DEF Inv, SetsOK
<1>12. CASE \E x \in DOMAIN pages : Ask(x)
  <2>1. Page \in Pages /\ Page.ids \subseteq born
    BY <1>6 DEF Page, Pages, Inv, SetsOK, StoresOK, CopiesOK, Hosts
  <2>2. PICK x \in Replies : pages' = [pages EXCEPT ![x] = {Page}]
    BY <1>12 DEF Ask, Inv, SetsOK
  <2>3. UNCHANGED <<google, selected, exhausted, whole, leaked>>
    BY <1>12 DEF Ask, stores, copies
  <2>4. pages' \in [Replies -> SUBSET Pages]
    BY <2>1, <2>2 DEF Inv, SetsOK
  <2>5. CopiesOK'
    BY <1>1, <2>1, <2>2, <2>3 DEF Inv, CopiesOK, SetsOK
  <2> QED BY <1>1, <1>2, <1>4, <2>3, <2>4, <2>5 DEF Inv, SetsOK
<1> QED BY <1>9, <1>10, <1>11, <1>12 DEF Copying

LEMMA DeleteStep ==
    ASSUME Inv, NEW h \in Hosts, NEW a \in Accounts, NEW passed \in BOOLEAN, Delete(h, a, passed)
    PROVE  Inv'
<1> DEFINE on == IF passed THEN Hosts ELSE {h}
<1>1. /\ google' = [x \in Hosts |-> IF x \in on THEN google[x] \ {a} ELSE google[x]]
      /\ exhausted' = [x \in Hosts |-> IF x \in on THEN exhausted[x] \ {a} ELSE exhausted[x]]
      /\ secret' = IF "server" \in on THEN secret \ {a} ELSE secret
      /\ expired' = IF "server" \in on THEN expired \ {a} ELSE expired
      /\ wiped' = IF "server" \in on THEN wiped \cup ({a} \cap google["server"]) ELSE wiped
      /\ whole' = IF "client" \in on THEN whole \ {a} ELSE whole
      /\ UNCHANGED <<born, leaked, request, loops, leased, lock, spent, pc, acct, todo>>
  BY DEF Delete
<1>2. /\ selected' \in [Hosts -> Accounts \cup {NoAccount}]
      /\ \A x \in Hosts : IF x \in on /\ selected[x] = a
                          THEN selected'[x] \in Ensured(google'[x], NoAccount)
                          ELSE selected'[x] = selected[x]
  BY DEF Delete
<1>3. google \in [Hosts -> SUBSET Accounts] /\ google["server"] = secret
  BY DEF Inv, StoresOK
<1> HIDE DEF on
<1>4. google' \in [Hosts -> SUBSET Accounts] /\ google'["server"] = secret'
  BY <1>1, <1>3 DEF Hosts
<1>5. ASSUME NEW x \in Hosts PROVE PointerOK(x)'
  <2>1. CASE x \in on /\ selected[x] = a
    <3>1. google'[x] \in SUBSET Accounts /\ selected'[x] \in Ensured(google'[x], NoAccount)
      BY <1>2, <1>4, <2>1
    <3>2. selected'[x] \in google'[x] \cup {NoAccount}
      BY <3>1, EnsuredPointer
    <3> QED BY <3>2 DEF PointerOK
  <2>2. CASE ~(x \in on /\ selected[x] = a)
    <3>1. selected'[x] = selected[x] /\ selected[x] \in google[x] \cup {NoAccount}
      BY <1>2, <2>2 DEF PointerOK, Inv, StoresOK
    <3>2. google'[x] = IF x \in on THEN google[x] \ {a} ELSE google[x]
      BY <1>1
    <3> QED BY <2>2, <3>1, <3>2 DEF PointerOK
  <2> QED BY <2>1, <2>2
<1>6. SetsOK'
  BY <1>1 DEF Inv, SetsOK, loops
<1>7. LocksOK' /\ TasksOK' /\ RequestsOK' /\ WishesOK'
  BY <1>1, TasksIdle, WishesIdle DEF request
<1>8. CopiesOK'
  BY <1>1, <1>3 DEF Inv, CopiesOK, loops
<1> QED BY <1>2, <1>4, <1>5, <1>6, <1>7, <1>8 DEF Inv, StoresOK

LEMMA SelectStep ==
    ASSUME Inv, NEW h \in Hosts, NEW a \in Accounts, Select(h, a)
    PROVE  Inv'
<1>1. /\ a \in google[h] /\ selected' = [selected EXCEPT ![h] = a]
      /\ UNCHANGED <<google, exhausted, secret, expired, born, copies, loops, leased, spent>>
      /\ UNCHANGED <<lock, pc, acct, todo, host, tails, at, began>>
      /\ choice' = [choice EXCEPT ![h] = a]
  BY DEF Select, Usable
<1>2. StoresOK'
  BY <1>1 DEF Inv, StoresOK, PointerOK
<1>3. LocksOK' /\ TasksOK' /\ RequestsOK'
  BY <1>1, TasksIdle
<1>4. WishesOK'
  <2>1. ASSUME NEW r \in overruled'
        PROVE  r \in Requests /\ pc[r] # "new" /\ began[r] # choice'[host[r]]
    <3>1. \/ r \in overruled /\ ~(r \in Requests /\ host[r] = h)
          \/ r \in Requests /\ host[r] = h /\ pc[r] \notin {"new", "over"} /\ began[r] # a
      BY <2>1 DEF Select
    <3> QED BY <1>1, <3>1 DEF Inv, WishesOK, RequestsOK
  <2> QED BY <1>1, <2>1 DEF Inv, WishesOK
<1> QED BY <1>1, <1>2, <1>3, <1>4 DEF Inv, SetsOK, CopiesOK, loops, copies

LEMMA PushStep ==
    ASSUME Inv, NEW a \in Accounts, Push(a)
    PROVE  Inv'
<1>1. UNCHANGED <<selected, born, whole, leaked, wiped, request, loops, leased, lock, spent, pc, acct,
                  todo>>
  BY DEF Push, copies
<1>2. LocksOK' /\ TasksOK' /\ RequestsOK' /\ WishesOK'
  BY <1>1, TasksIdle, WishesIdle DEF request
<1>3. exhausted' \in [Hosts -> SUBSET Accounts]
  BY DEF Push, Inv, SetsOK
<1>4. CASE a \notin whole
  <2>1. UNCHANGED <<google, secret, expired>>
    BY <1>4 DEF Push
  <2> QED BY <1>1, <1>2, <1>3, <2>1 DEF Inv, StoresOK, PointerOK, CopiesOK, SetsOK, loops
<1>5. CASE a \in whole
  <2>1. /\ google' = [google EXCEPT !["server"] = @ \cup {a}] /\ secret' = secret \cup {a}
        /\ expired' \in {expired, expired \cup {a}}
    BY <1>5 DEF Push, Replace
  <2>2. StoresOK'
    BY <1>1, <2>1 DEF Inv, StoresOK, PointerOK, Hosts
  <2>3. CopiesOK'
    BY <1>1, <1>5, <2>1 DEF Inv, CopiesOK, loops
  <2>4. SetsOK'
    BY <1>1, <1>3, <2>1 DEF Inv, SetsOK, loops
  <2> QED BY <1>2, <2>2, <2>3, <2>4 DEF Inv
<1> QED BY <1>4, <1>5

LEMMA UserStep == Inv /\ Using => Inv'
<1> SUFFICES ASSUME Inv, NEW a \in Accounts,
                    (\E forClient \in BOOLEAN : Login(a, forClient)) \/ Join(a)
             PROVE  Inv'
  BY DeleteStep, SelectStep, PushStep DEF Using, Hosts
<1>1. LocksOK' /\ TasksOK' /\ RequestsOK' /\ WishesOK'
  BY TasksIdle, WishesIdle DEF Login, Join, request
<1>2. google["client"] \subseteq Accounts /\ google["server"] \subseteq Accounts
  BY DEF Inv, StoresOK, Hosts
<1>3. ASSUME NEW forClient \in BOOLEAN, Login(a, forClient) PROVE Inv'
  <2>1. /\ google' = [google EXCEPT !["server"] = @ \cup {a}] /\ secret' = secret \cup {a}
        /\ selected' = [selected EXCEPT !["server"] = IF @ = NoAccount THEN a ELSE @]
        /\ a \notin born /\ born' = born \cup {a}
        /\ joining' \in {joining, joining \cup {a}}
        /\ UNCHANGED <<expired, copies, pages, leased, spent>>
    BY <1>3 DEF Login
  <2>2. StoresOK'
    BY <2>1 DEF Inv, StoresOK, PointerOK, Hosts
  <2>3. exhausted' \in [Hosts -> SUBSET Accounts]
    BY <1>3 DEF Login, Inv, SetsOK
  <2>4. SetsOK'
    BY <2>1, <2>3 DEF Inv, SetsOK
  <2>5. CopiesOK'
    BY <2>1 DEF Inv, CopiesOK, copies
  <2> QED BY <1>1, <2>2, <2>4, <2>5 DEF Inv
<1>4. CASE Join(a)
  <2>1. /\ UNCHANGED <<exhausted, secret, expired, born, leaked, wiped, pages, leased, spent>>
        /\ joining' \subseteq joining /\ whole' \subseteq whole
    BY <1>4 DEF Join
  <2>2. SetsOK' /\ CopiesOK'
    BY <2>1 DEF Inv, SetsOK, CopiesOK
  <2>3. StoresOK'
    <3>1. CASE UNCHANGED <<google, selected>>
      BY <2>1, <3>1 DEF Inv, StoresOK, PointerOK
    <3>2. CASE Keep("client", google["client"] \cup {a})
      <4>1. google["client"] \cup {a} \in SUBSET Accounts /\ "client" \in Hosts
        BY <1>2 DEF Hosts
      <4>2. google'["server"] = google["server"]
        BY <3>2, <4>1, KeepPointer DEF Hosts
      <4> QED BY <2>1, <3>2, <4>1, <4>2, KeepPointer DEF Inv, StoresOK
    <3> QED BY <1>4, <3>1, <3>2 DEF Join
  <2> QED BY <1>1, <2>2, <2>3 DEF Inv
<1> QED BY <1>3, <1>4

LEMMA GoogleStep ==
    ASSUME Inv, NEW a \in Accounts, Deplete(a) \/ Reset(a) \/ Expire(a)
    PROVE  Inv'
<1>1. UNCHANGED <<google, selected, secret, born, copies, request, loops, lock, pc, acct, todo>>
  BY DEF Deplete, Reset, Expire, stores
<1>2. LocksOK' /\ TasksOK' /\ RequestsOK' /\ WishesOK'
  BY <1>1, TasksIdle, WishesIdle DEF request
<1>3. StoresOK' /\ CopiesOK'
  BY <1>1 DEF Inv, StoresOK, PointerOK, CopiesOK, copies, loops
<1>4. exhausted' \in [Hosts -> SUBSET Accounts]
  BY DEF Deplete, Reset, Expire, stores, Inv, SetsOK
<1>5. SetsOK'
  BY <1>1, <1>4 DEF Deplete, Reset, Expire, stores, Inv, SetsOK, loops
<1> QED BY <1>2, <1>3, <1>5 DEF Inv

LEMMA AskingStep ==
    ASSUME Inv, NEW r \in Requests, Asking(r)
    PROVE  UsesOK(r)
BY ArriveStep, TakeStep, LeaseStep, AnswerStep DEF Asking, Serving, Tasks

LEMMA LoopingStep ==
    ASSUME Inv, NEW q \in Loops, Looping(q)
    PROVE  UsesOK(q)
BY LoopStep, TakeStep, LeaseStep DEF Looping, Serving, Tasks

LEMMA InvNext == Inv /\ [Next]_vars => Inv'
<1> SUFFICES ASSUME Inv, [Next]_vars PROVE Inv'
  OBVIOUS
<1>1. CASE UNCHANGED vars
  BY <1>1 DEF vars, stores, copies, wishes, request, loops, Inv, StoresOK, PointerOK, CopiesOK,
              SetsOK, LocksOK, TasksOK, RequestsOK, WishesOK
<1>2. ASSUME NEW r \in Requests, Asking(r) PROVE Inv'
  BY <1>2, AskingStep, UsesKeep DEF Tasks
<1>3. ASSUME NEW q \in Loops, Looping(q) PROVE Inv'
  BY <1>3, LoopingStep, UsesKeep DEF Tasks
<1> QED BY <1>1, <1>2, <1>3, TailStep, CopyStep, UserStep, GoogleStep DEF Next

(* The inductive invariant holds in every behaviour.                      *)
THEOREM Invariance == Spec => []Inv
BY InvInit, InvNext, PTL DEF Spec
---------------------------------------------------------------------------
(* Types, among them: whatever is deleted, pruned, mirrored or pulled, the *)
(* pointer of a host names one of its accounts or none, and a lock has one *)
(* holder.                                                                 *)
THEOREM TypeCorrect == Spec => []TypeOK
<1>1. Inv => TypeOK
  <2> SUFFICES ASSUME Inv PROVE TypeOK
    OBVIOUS
  <2>1. secret \subseteq Accounts
    BY DEF Inv, StoresOK, Hosts
  <2>2. \A h \in Hosts : exhausted[h] \subseteq Accounts
    BY DEF Inv, SetsOK
  <2>3. {secret, expired, leased, spent, born, joining, whole, leaked, wiped} \subseteq SUBSET Accounts
    BY <2>1 DEF Inv, SetsOK, CopiesOK
  <2>4. /\ google \in [Hosts -> SUBSET Accounts]
        /\ \A h \in Hosts : selected[h] \in google[h] \cup {NoAccount}
    BY DEF Inv, StoresOK, PointerOK
  <2>5. /\ \A r \in Requests : pc[r] \in RequestPCs
        /\ \A q \in Loops : pc[q] \in LoopPCs
    BY DEF Inv, TasksOK
  <2>6. /\ \A a \in Accounts : lock[a] # Free => pc[lock[a]] = "refresh" /\ acct[lock[a]] = a
        /\ \A t \in Tasks : pc[t] = "refresh" => lock[acct[t]] = t
    BY DEF Inv, LocksOK
  <2> QED BY <2>2, <2>3, <2>4, <2>5, <2>6 DEF TypeOK, RequestPCs, LoopPCs
<1> QED BY <1>1, Invariance, PTL

(* Each Google account of the server has its refresh token, and one that   *)
(* was deleted there is back only if a client had pulled its whole record  *)
(* (handle_upsert; remote_pull_all).                                       *)
THEOREM SecretsKeptHolds == Spec => []SecretsKept
<1>1. Inv => SecretsKept
  BY DEF Inv, StoresOK, CopiesOK, SecretsKept
<1> QED BY <1>1, Invariance, PTL

(* The steps that may move the pointer of a host away from an account the  *)
(* host still has: an answer, and the user.                                *)
LEMMA Leaving ==
    ASSUME Inv, [Next]_vars, NEW h \in Hosts, selected[h] # NoAccount, selected'[h] # selected[h]
    PROVE  \/ selected[h] \notin google'[h]
           \/ \E r \in Requests : Answer200(r) /\ selected' # selected
           \/ \E a \in Accounts : Select(h, a)
<1>1. selected[h] \in google[h]
  BY DEF Inv, StoresOK, PointerOK
<1>2. google["client"] \subseteq Accounts /\ google["server"] \subseteq Accounts
  BY DEF Inv, StoresOK, Hosts
<1>3. ASSUME NEW u \in Requests, Asking(u), ~Answer200(u) PROVE selected' = selected
  BY <1>3 DEF Asking, Serving, Arrive, Prewarm, GiveUp, Renew, Take, Lease, Refreshed, LeaseFails,
              Answer401, Answer429, Answer400, AnswerOther, Body, stores
<1>4. ASSUME NEW u \in Requests, Tail(u) PROVE selected' = selected
  BY <1>4 DEF Tail
<1>5. ASSUME NEW q \in Loops, Looping(q) PROVE selected' = selected
  BY <1>5 DEF Looping, Serving, Round, Fetch, Write, Take, Lease, Refreshed, LeaseFails, stores
<1>6. ASSUME NEW a \in Accounts, Deplete(a) \/ Reset(a) \/ Expire(a) \/ Push(a)
      PROVE  selected' = selected
  BY <1>6 DEF Deplete, Reset, Expire, Push, stores
<1>7. ASSUME NEW x \in Hosts, NEW accounts \in SUBSET Accounts, Keep(x, accounts)
      PROVE  selected[h] \notin google'[h]
  BY <1>7, KeepPointer
<1>8. CASE Copying
  <2>1. CASE Pull
    <3>1. \E accounts \in SUBSET google["client"] : Keep("client", accounts)
      BY <2>1 DEF Pull
    <3> QED BY <1>2, <1>7, <3>1 DEF Hosts
  <2>2. CASE Mirror
    <3>1. PICK page \in pages["mirror"] :
             IF page.ids = {} THEN UNCHANGED <<google, selected>>
             ELSE Keep("client", google["client"] \cup (page.ids \ google["client"]))
      BY <2>2 DEF Mirror
    <3>2. page.ids \subseteq Accounts
      BY DEF Inv, SetsOK, Pages, Replies
    <3> QED BY <1>2, <1>7, <3>1, <3>2 DEF Hosts
  <2>3. CASE PullAll \/ \E x \in DOMAIN pages : Ask(x)
    BY <2>3 DEF PullAll, Ask, stores
  <2> QED BY <1>8, <2>1, <2>2, <2>3 DEF Copying
<1>9. ASSUME NEW x \in Hosts, NEW a \in Accounts, NEW passed \in BOOLEAN, Delete(x, a, passed)
      PROVE  selected[h] \notin google'[h]
  <2> DEFINE on == IF passed THEN Hosts ELSE {x}
  <2>1. /\ google' = [y \in Hosts |-> IF y \in on THEN google[y] \ {a} ELSE google[y]]
        /\ IF h \in on /\ selected[h] = a THEN TRUE ELSE selected'[h] = selected[h]
    BY <1>9 DEF Delete
  <2> QED BY <2>1
<1>10. ASSUME NEW a \in Accounts, NEW forClient \in BOOLEAN, Login(a, forClient)
       PROVE  FALSE
  BY <1>10 DEF Login, Inv, StoresOK
<1>11. ASSUME NEW a \in Accounts, Join(a) PROVE selected[h] \notin google'[h]
  <2>1. Keep("client", google["client"] \cup {a})
    BY <1>11 DEF Join
  <2> QED BY <1>2, <1>7, <2>1 DEF Hosts
<1>12. ASSUME NEW x \in Hosts, NEW a \in Accounts, Select(x, a) PROVE Select(h, a)
  <2>1. selected' = [selected EXCEPT ![x] = a]
    BY <1>12 DEF Select
  <2> QED BY <1>12, <2>1 DEF Inv, StoresOK
<1>13. CASE Using
  BY <1>6, <1>9, <1>10, <1>11, <1>12, <1>13 DEF Using, Hosts
<1>14. UNCHANGED vars => selected' = selected
  BY DEF vars, stores
<1> QED BY <1>3, <1>4, <1>5, <1>6, <1>8, <1>13, <1>14 DEF Next

(* The pointer leaves the account a user chose only when the account is    *)
(* gone, or by the answer of a request that came after the choice or had   *)
(* begun with that account (adopt_antigravity_after_success).              *)
THEOREM ChoiceKeptHolds == Spec => ChoiceKept
<1> DEFINE Left(h) == choice[h] # NoAccount /\ selected[h] = choice[h] /\ selected'[h] # choice'[h]
           Answered(h) == \E r \in Requests \ overruled :
                             host[r] = h /\ pc[r] = "send" /\ pc'[r] \in {"body", "over"}
<1>1. ASSUME Inv, [Next]_vars, NEW h \in Hosts, Left(h)
      PROVE  choice[h] \notin google'[h] \/ Answered(h)
  <2>1. ASSUME NEW r \in Requests, Answer200(r), selected' # selected PROVE Answered(h)
    <3>1. /\ selected' = [selected EXCEPT ![host[r]] = acct[r]]
          /\ selected[host[r]] = at[r] /\ pc[r] = "send"
      BY <2>1 DEF Answer200, Adopt
    <3>2. pc'[r] \in {"body", "over"} /\ choice' = choice
      BY <1>1, <2>1 DEF Answer200, End, Stays, Kept, wishes, Go, Inv, TasksOK, Tasks
    <3>3. host[r] = h
      BY <1>1, <3>1, <3>2 DEF Inv, StoresOK
    <3>4. began[r] = choice[host[r]]
      BY <1>1, <3>1, <3>3 DEF Inv, WishesOK
    <3>5. r \notin overruled
      BY <1>1, <3>4 DEF Inv, WishesOK
    <3> QED BY <3>1, <3>2, <3>3, <3>5
  <2>2. ASSUME NEW a \in Accounts, Select(h, a) PROVE FALSE
    BY <1>1, <2>2 DEF Select, Inv, StoresOK, WishesOK
  <2>3. selected'[h] # selected[h] => choice[h] \notin google'[h] \/ Answered(h)
    BY <1>1, <2>1, <2>2, Leaving
  <2>4. selected'[h] = selected[h] => choice'[h] # choice[h]
    BY <1>1
  <2>5. choice' = choice \/ \E x \in Hosts, a \in Accounts : Select(x, a)
    <3>1. ASSUME NEW u \in Requests, Asking(u) PROVE choice' = choice
      BY <1>1, <3>1, AskingStep DEF UsesOK, Remembers, wishes
    <3>2. ASSUME NEW q \in Loops, Looping(q) PROVE choice' = choice
      BY <3>2 DEF Looping, Serving, Round, Fetch, Write, Take, Lease, Refreshed, LeaseFails, request,
                  wishes
    <3>3. ASSUME NEW u \in Requests, Tail(u) PROVE choice' = choice
      BY <3>3 DEF Tail, wishes
    <3>4. Copying => choice' = choice
      BY DEF Copying, Pull, Mirror, PullAll, Ask, request, wishes
    <3>5. Using => choice' = choice \/ \E x \in Hosts, a \in Accounts : Select(x, a)
      BY DEF Using, Login, Join, Delete, Push, request, wishes
    <3>6. ASSUME NEW a \in Accounts, Deplete(a) \/ Reset(a) \/ Expire(a) PROVE choice' = choice
      BY <3>6 DEF Deplete, Reset, Expire, request, wishes
    <3>7. UNCHANGED vars => choice' = choice
      BY DEF vars, request, wishes
    <3> QED BY <1>1, <3>1, <3>2, <3>3, <3>4, <3>5, <3>6, <3>7 DEF Next
  <2>6. ASSUME NEW x \in Hosts, NEW a \in Accounts, Select(x, a), x # h
        PROVE  choice'[h] = choice[h]
    BY <2>6, <1>1 DEF Select, Inv, WishesOK
  <2> QED BY <2>2, <2>3, <2>4, <2>5, <2>6
<1>2. Inv /\ [Next]_vars =>
         [\A h \in Hosts :
            choice[h] # NoAccount /\ selected[h] = choice[h] /\ selected'[h] # choice'[h] =>
              \/ choice[h] \notin google'[h]
              \/ \E r \in Requests \ overruled :
                   host[r] = h /\ pc[r] = "send" /\ pc'[r] \in {"body", "over"}]_vars
  BY <1>1
<1> QED BY <1>2, Invariance, PTL DEF Spec, ChoiceKept
=============================================================================
