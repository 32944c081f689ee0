------------------------ MODULE TokenRotationProofs ------------------------
(***************************************************************************)
(* Theorems about TokenRotation, for any sets of accounts and tasks and    *)
(* any bounds.                                                             *)
(***************************************************************************)
EXTENDS TokenRotation, TLAPS

(* Types: every step keeps every variable in its type. *)
LEMMA TypeInit == Init => TypeOK
BY AccountAssumption, BoundAssumption
   DEF Init, TypeOK, AtAccount, AuthFile, NoFile, NoToken, PCs, Attempts

LEMMA ReturnType ==
    ASSUME TypeOK, NEW t \in Tasks, NEW l \in PCs, Return(t, l)
    PROVE  /\ pc' \in [Tasks -> PCs]
           /\ acct' \in [Tasks -> Accounts \cup {NoAccount}]
           /\ tok' \in [Tasks -> Nat]
           /\ snap' \in [Tasks -> AuthFile]
BY DEF TypeOK, Return, Goto, NoFile, NoToken, AuthFile

LEMMA ApplyType ==
    ASSUME TypeOK, NEW a, NEW g \in Nat
    PROVE  Apply(a, g) \in [Accounts -> Nat]
BY DEF TypeOK, Apply

LEMMA SyncType ==
    ASSUME TypeOK, NEW file \in AuthFile, NEW a
    PROVE  SyncFrom(file, a) \in [Accounts -> Nat]
BY DEF TypeOK, SyncFrom, AuthFile

LEMMA CriticalType ==
    ASSUME TypeOK, NEW t \in Tasks, Acquire(t) \/ Critical(t)
    PROVE  TypeOK'
<1> USE DEF TypeOK, AtAccount, server, host, env, Goto, PCs, Attempts, NoToken
<1>1. CASE Acquire(t)
  <2>1. tok' \in [Tasks -> Nat]
    BY <1>1 DEF Acquire
  <2> QED BY <1>1, <2>1 DEF Acquire
<1>2. CASE NetworkError(t)
  BY <1>2 DEF NetworkError, SendError, Fail
<1>3. CASE LostAnswer(t)
  BY <1>3, BoundAssumption DEF LostAnswer, Issue, SendError, Fail
<1>4. CASE Rotated(t)
  BY <1>4, BoundAssumption DEF Rotated, Issue
<1>5. CASE Kept(t)
  BY <1>5 DEF Kept
<1>6. CASE Reused(t)
  BY <1>6 DEF Reused, Fail
<1>7. CASE Refused(t)
  BY <1>7 DEF Refused, Fail
<1>8. CASE WriteBack(t)
  BY <1>8, ApplyType DEF WriteBack
<1> QED BY <1>1, <1>2, <1>3, <1>4, <1>5, <1>6, <1>7, <1>8 DEF Critical

LEMMA SchedulerType ==
    ASSUME TypeOK, NEW t \in Tasks, SchedulerStep(t)
    PROVE  TypeOK'
<1> USE TaskAssumption
    DEF TypeOK, AtAccount, server, host, env, Goto, Return, NoFile, NoToken, PCs, AuthFile
<1>1. CASE ReadDisk(t)
  BY <1>1 DEF ReadDisk
<1>2. CASE TickSync(t)
  BY <1>2, SyncType DEF TickSync
<1>3. CASE Collect(t)
  BY <1>3 DEF Collect
<1>4. CASE NextTarget(t)
  BY <1>4 DEF NextTarget
<1>5. CASE RoundDone(t)
  BY <1>5 DEF RoundDone
<1>6. CASE KeepaliveApply(t)
  BY <1>6, ApplyType DEF KeepaliveApply
<1>7. CASE KeepaliveFail(t)
  BY <1>7 DEF KeepaliveFail
<1> QED BY <1>1, <1>2, <1>3, <1>4, <1>5, <1>6, <1>7 DEF SchedulerStep
LEMMA ApplyThenWriteType ==
    ASSUME TypeOK, NEW t \in Tasks, ApplyThenWrite(t)
    PROVE  TypeOK'
<1> USE DEF TypeOK, ApplyThenWrite
<1>1. acct[t] \in Accounts /\ tok[t] \in Nat
  BY DEF AtAccount
<1>2. store' \in [Accounts -> Nat]
  BY <1>1, ApplyType
<1>3. CASE MayWriteDisk(acct[t])
  <2>1. tok' \in [Tasks -> Nat]
    BY <1>1, <1>2, <1>3
  <2>2. /\ pc' = [pc EXCEPT ![t] = "write"]
        /\ UNCHANGED <<acct, snap>>
    BY <1>3 DEF Goto
  <2> HIDE DEF ApplyThenWrite
  <2>3. UNCHANGED <<server, disk, current, enabled, loggedOut, cache, lock, tries, todo, env>>
    BY DEF ApplyThenWrite
  <2>4. \A u \in Tasks : AtAccount(u)' => acct'[u] \in Accounts
    BY <1>1, <2>2 DEF AtAccount
  <2>5. pc' \in [Tasks -> PCs]
    BY <2>2 DEF PCs
  <2> QED BY <1>2, <2>1, <2>2, <2>3, <2>4, <2>5 DEF AtAccount, server, env
<1>4. CASE ~MayWriteDisk(acct[t])
  <2>1. Return(t, "idle")
    BY <1>4
  <2> HIDE DEF ApplyThenWrite
  <2>2. UNCHANGED <<server, disk, current, enabled, loggedOut, cache, lock, tries, todo, env>>
    BY DEF ApplyThenWrite
  <2>3. /\ pc' \in [Tasks -> PCs]
        /\ acct' \in [Tasks -> Accounts \cup {NoAccount}]
        /\ tok' \in [Tasks -> Nat]
        /\ snap' \in [Tasks -> AuthFile]
    BY <2>1, ReturnType DEF PCs
  <2>4. \A u \in Tasks : AtAccount(u)' => acct'[u] \in Accounts
    BY <2>1 DEF AtAccount, Return, Goto
  <2> QED BY <1>2, <2>2, <2>3, <2>4 DEF AtAccount, server, env
<1> QED BY <1>3, <1>4

LEMMA AnchorType ==
    ASSUME TypeOK, NEW t \in Tasks, AnchorStep(t) \/ WriteDisk(t)
    PROVE  TypeOK'
<1> USE TaskAssumption
    DEF TypeOK, AtAccount, server, host, env, Goto, Return, NoFile, NoToken, PCs, AuthFile
<1>1. CASE AnchorTick(t)
  <2>1. AnchorAccount \in Accounts /\ store[AnchorAccount] \in Nat
    BY <1>1, AccountAssumption DEF AnchorTick
  <2>2. tok' \in [Tasks -> Nat]
    BY <1>1, <2>1 DEF AnchorTick
  <2>3. \A u \in Tasks : AtAccount(u)' => acct'[u] \in Accounts
    BY <1>1, <2>1 DEF AnchorTick
  <2>4. pc' \in [Tasks -> PCs] /\ acct' \in [Tasks -> Accounts \cup {NoAccount}]
    BY <1>1, <2>1 DEF AnchorTick
  <2>5. UNCHANGED <<server, host, cache, lock, tries, snap, todo, env>>
    BY <1>1 DEF AnchorTick
  <2> QED BY <2>2, <2>3, <2>4, <2>5
<1>2. CASE AnchorApply(t)
  BY <1>2, ApplyThenWriteType DEF AnchorApply
<1>3. CASE AnchorFail(t)
  BY <1>3 DEF AnchorFail
<1>4. CASE WriteDisk(t)
  BY <1>4 DEF WriteDisk
<1> QED BY <1>1, <1>2, <1>3, <1>4 DEF AnchorStep

LEMMA RequestType ==
    ASSUME TypeOK, NEW t \in Tasks, RequestStep(t)
    PROVE  TypeOK'
<1> USE TaskAssumption
    DEF TypeOK, AtAccount, server, host, env, Goto, Return, NoFile, NoToken, PCs, AuthFile
<1>1. CASE RequestStart(t)
  BY <1>1 DEF RequestStart
<1>2. CASE GetCurrentToken(t)
  BY <1>2, SyncType DEF GetCurrentToken
<1>3. CASE Served(t)
  BY <1>3 DEF Served
<1>4. CASE Unauthorized(t)
  BY <1>4 DEF Unauthorized
<1>5. CASE AutoSwitch(t)
  BY <1>5 DEF AutoSwitch, SwitchTo
<1>6. CASE NoCandidate(t)
  BY <1>6 DEF NoCandidate
<1>7. CASE RequestApply(t)
  BY <1>7, ApplyThenWriteType DEF RequestApply
<1>8. CASE RequestFail(t)
  BY <1>8 DEF RequestFail
<1> QED BY <1>1, <1>2, <1>3, <1>4, <1>5, <1>6, <1>7, <1>8 DEF RequestStep

LEMMA QuerySyncType ==
    ASSUME TypeOK, NEW t \in Tasks, QuerySync(t)
    PROVE  TypeOK'
<1>1. acct[t] \in Accounts
  BY DEF TypeOK, AtAccount, QuerySync
<1>2. store' \in [Accounts -> Nat]
  BY SyncType DEF TypeOK, QuerySync
<1>3. UNCHANGED <<server, disk, current, enabled, loggedOut, cache, lock, tries, todo, env>>
  BY DEF QuerySync
<1>4. \/ /\ pc' = [pc EXCEPT ![t] = "capture"]
         /\ snap' = [snap EXCEPT ![t] = NoFile]
         /\ UNCHANGED <<acct, tok>>
      \/ Return(t, "idle")
  BY DEF QuerySync, Goto
<1>5. CASE /\ pc' = [pc EXCEPT ![t] = "capture"]
           /\ snap' = [snap EXCEPT ![t] = NoFile]
           /\ UNCHANGED <<acct, tok>>
  <2>1. pc' \in [Tasks -> PCs] /\ snap' \in [Tasks -> AuthFile]
    BY <1>5 DEF TypeOK, PCs, NoFile, NoToken, AuthFile
  <2>2. \A u \in Tasks : AtAccount(u)' => acct'[u] \in Accounts
    BY <1>1, <1>5 DEF TypeOK, AtAccount
  <2> QED BY <1>2, <1>3, <1>5, <2>1, <2>2 DEF TypeOK, AtAccount, server, env
<1>6. CASE Return(t, "idle")
  <2>1. /\ pc' \in [Tasks -> PCs]
        /\ acct' \in [Tasks -> Accounts \cup {NoAccount}]
        /\ tok' \in [Tasks -> Nat]
        /\ snap' \in [Tasks -> AuthFile]
    BY <1>6, ReturnType DEF PCs
  <2>2. \A u \in Tasks : AtAccount(u)' => acct'[u] \in Accounts
    BY <1>6 DEF TypeOK, AtAccount, Return, Goto
  <2> QED BY <1>2, <1>3, <2>1, <2>2 DEF TypeOK, AtAccount, server, env
<1> QED BY <1>4, <1>5, <1>6

LEMMA QuotaType ==
    ASSUME TypeOK, NEW t \in Tasks, QuotaStep(t)
    PROVE  TypeOK'
<1> USE TaskAssumption
    DEF TypeOK, AtAccount, server, host, env, Goto, Return, NoFile, NoToken, PCs, AuthFile
<1>1. CASE QuotaStart(t)
  BY <1>1 DEF QuotaStart
<1>2. CASE QueryStart(t)
  BY <1>2 DEF QueryStart
<1>3. CASE QueryRead(t)
  BY <1>3 DEF QueryRead
<1>4. CASE QuerySync(t)
  BY <1>4, QuerySyncType
<1>5. CASE QueryCapture(t)
  BY <1>5 DEF QueryCapture
<1>6. CASE QuotaAnswered(t)
  BY <1>6 DEF QuotaAnswered
<1>7. CASE QuotaApply(t)
  BY <1>7, ApplyType DEF QuotaApply
<1>8. CASE QuotaDrop(t)
  BY <1>8 DEF QuotaDrop
<1>9. CASE RefreshHandled(t)
  BY <1>9 DEF RefreshHandled
<1>10. CASE QuotaFail(t)
  BY <1>10 DEF QuotaFail
<1> QED
  BY <1>1, <1>2, <1>3, <1>4, <1>5, <1>6, <1>7, <1>8, <1>9, <1>10
     DEF QuotaStep

LEMMA SwitchType ==
    ASSUME TypeOK, NEW t \in Tasks, SwitchStep(t)
    PROVE  TypeOK'
<1> USE TaskAssumption
    DEF TypeOK, AtAccount, server, host, env, Goto, Return, NoFile, NoToken, PCs, AuthFile
<1>1. CASE SwitchStart(t)
  BY <1>1 DEF SwitchStart
<1>2. CASE SwitchSync(t)
  BY <1>2, SyncType DEF SwitchSync
<1>3. CASE SwitchCapture(t)
  BY <1>3 DEF SwitchCapture
<1>4. CASE SwitchApply(t)
  BY <1>4, ApplyType DEF SwitchApply
<1>5. CASE SwitchFail(t)
  BY <1>5 DEF SwitchFail
<1>6. CASE SwitchCommit(t)
  BY <1>6 DEF SwitchCommit, SwitchTo
<1> QED BY <1>1, <1>2, <1>3, <1>4, <1>5, <1>6 DEF SwitchStep

LEMMA EnvironmentType ==
    ASSUME TypeOK,
           \/ \E a \in Accounts : ToggleKeepalive(a) \/ Revoke(a)
           \/ CodexRefresh
           \/ Restart
    PROVE  TypeOK'
<1> USE DEF TypeOK, AtAccount, server, host, env, locals, PCs, AuthFile
<1>1. ASSUME NEW a \in Accounts, ToggleKeepalive(a) PROVE TypeOK'
  BY <1>1 DEF ToggleKeepalive
<1>2. ASSUME NEW a \in Accounts, Revoke(a) PROVE TypeOK'
  BY <1>2 DEF Revoke
<1>3. CASE CodexRefresh
  <2>1. /\ disk.owner \in Accounts /\ live[disk.owner] \in Nat
        /\ live' \in [Accounts -> Nat]
        /\ issued' \in 0 .. MaxIssued
    BY <1>3, BoundAssumption DEF CodexRefresh, Issue
  <2>2. disk' \in AuthFile
    BY <1>3, <2>1 DEF CodexRefresh
  <2> QED BY <1>3, <2>1, <2>2 DEF CodexRefresh
<1>4. CASE Restart
  BY <1>4, BoundAssumption DEF Restart, NoFile, NoToken, Attempts
<1> QED BY <1>1, <1>2, <1>3, <1>4

LEMMA TypeNext == TypeOK /\ [Next]_vars => TypeOK'
<1> SUFFICES ASSUME TypeOK, [Next]_vars PROVE TypeOK'
  OBVIOUS
<1>1. CASE UNCHANGED vars
  BY <1>1 DEF TypeOK, AtAccount, vars, server, host, locals, env
<1>2. ASSUME NEW t \in Tasks, TaskStep(t) PROVE TypeOK'
  BY <1>2, CriticalType, SchedulerType, AnchorType, RequestType, QuotaType, SwitchType
     DEF TaskStep
<1> QED BY <1>1, <1>2, EnvironmentType DEF Next

(* Types hold in every behaviour. *)
THEOREM TypeCorrect == Spec => []TypeOK
BY TypeInit, TypeNext, PTL DEF Spec
---------------------------------------------------------------------------
(* The chain.  A step of a task outside the critical section is quiet: it  *)
(* moves copies of tokens around and leaves the server, the cache and the  *)
(* lock alone.                                                             *)
Quiet(t) ==
    /\ UNCHANGED <<live, forked, cache, lock>>
    /\ pc[t] \notin {"send", "reply"}
    /\ pc'[t] \notin {"send", "reply", "failReused"}
    /\ \A u \in Tasks \ {t} : pc'[u] = pc[u] /\ acct'[u] = acct[u] /\ tok'[u] = tok[u]
    /\ \A a \in Accounts : AllCopiesLive(a) => AllCopiesLive(a)'
    /\ NoTokenLeft'

LEMMA QuietStep ==
    ASSUME Inv, NEW t \in Tasks, Quiet(t)
    PROVE  LockHeld' /\ NoTokenLeft' /\ ChainInv' /\ NeverReused'
<1>1. LockHeld'
  BY DEF Inv, Quiet, LockHeld
<1>2. NeverReused'
  BY DEF Inv, Quiet, NeverReused
<1>3. ASSUME NEW a \in Accounts PROVE InFlight(a)' <=> InFlight(a)
  BY DEF Quiet, InFlight
<1>4. ChainInv'
  BY <1>3 DEF Inv, Quiet, ChainInv
<1> QED BY <1>1, <1>2, <1>4 DEF Quiet

LEMMA SchedulerQuiet ==
    ASSUME Inv, NEW t \in Tasks, SchedulerStep(t)
    PROVE  Quiet(t)
<1> USE TaskAssumption, AccountAssumption
    DEF Inv, TypeOK, NoTokenLeft, Quiet, AllCopiesLive, AtAccount, Fresh,
        server, host, env, Goto, Return, NoFile, NoToken, AuthFile
<1>1. CASE ReadDisk(t)
  BY <1>1 DEF ReadDisk
<1>2. CASE TickSync(t)
  BY <1>2 DEF TickSync, SyncFrom
<1>3. CASE Collect(t)
  BY <1>3 DEF Collect
<1>4. CASE NextTarget(t)
  BY <1>4 DEF NextTarget
<1>5. CASE RoundDone(t)
  BY <1>5 DEF RoundDone
<1>6. CASE KeepaliveApply(t)
  BY <1>6 DEF KeepaliveApply, Apply
<1>7. CASE KeepaliveFail(t)
  BY <1>7 DEF KeepaliveFail
<1> QED BY <1>1, <1>2, <1>3, <1>4, <1>5, <1>6, <1>7 DEF SchedulerStep

LEMMA ApplyThenWriteQuiet ==
    ASSUME Inv, NEW t \in Tasks, ApplyThenWrite(t)
    PROVE  Quiet(t)
<1> DEFINE a == acct[t]
<1>1. /\ pc[t] = "apply"
      /\ a \in Accounts
      /\ store' = Apply(a, tok[t])
      /\ UNCHANGED <<live, forked, cache, lock, disk>>
  BY DEF Inv, TypeOK, AtAccount, ApplyThenWrite, server, env
<1>2. store' \in [Accounts -> Nat] /\ store'[a] \in Nat
  BY <1>1, ApplyType DEF Inv, TypeOK
<1>3. ASSUME NEW b \in Accounts, AllCopiesLive(b)
      PROVE  store'[b] = live[b]
  BY <1>1, <1>3 DEF Inv, TypeOK, Apply, AllCopiesLive, NoToken
<1>4. \/ /\ pc' = [pc EXCEPT ![t] = "write"]
         /\ tok' = [tok EXCEPT ![t] = store'[a]]
         /\ UNCHANGED <<acct, snap>>
      \/ Return(t, "idle")
  BY DEF ApplyThenWrite, Goto
<1>5. ASSUME NEW b \in Accounts, AllCopiesLive(b)
      PROVE  AllCopiesLive(b)'
  <2>1. store'[b] = live'[b] /\ (disk'.owner = b => disk'.tok = live'[b])
    BY <1>1, <1>3, <1>5 DEF AllCopiesLive
  <2>2. CASE Return(t, "idle")
    BY <1>1, <1>5, <2>1, <2>2, AccountAssumption
       DEF Inv, TypeOK, AllCopiesLive, Return, Goto, NoToken, NoFile
  <2>3. CASE /\ pc' = [pc EXCEPT ![t] = "write"]
             /\ tok' = [tok EXCEPT ![t] = store'[a]]
             /\ UNCHANGED <<acct, snap>>
    <3>1. acct[t] = b => tok'[t] = live'[b]
      BY <2>1, <2>3 DEF Inv, TypeOK
    <3>2. \A u \in Tasks \ {t} : pc'[u] = pc[u] /\ tok'[u] = tok[u]
      BY <2>3 DEF Inv, TypeOK
    <3>3. pc'[t] = "write"
      BY <2>3 DEF Inv, TypeOK
    <3> QED BY <1>1, <1>5, <2>1, <2>3, <3>1, <3>2, <3>3 DEF AllCopiesLive
  <2> QED BY <1>4, <2>2, <2>3
<1>6. NoTokenLeft'
  BY <1>1, <1>4 DEF Inv, TypeOK, NoTokenLeft, Return, Goto
<1> QED BY <1>1, <1>4, <1>5, <1>6 DEF Inv, TypeOK, Quiet, Return, Goto

LEMMA AnchorQuiet ==
    ASSUME Inv, NEW t \in Tasks, AnchorStep(t) \/ WriteDisk(t)
    PROVE  Quiet(t)
<1> USE TaskAssumption, AccountAssumption
    DEF Inv, TypeOK, NoTokenLeft, Quiet, AllCopiesLive, AtAccount, Fresh,
        server, host, env, Goto, Return, NoFile, NoToken, AuthFile
<1>1. CASE AnchorTick(t)
  <2>1. CASE AnchorAccount = current
    <3>1. store[AnchorAccount] \in Nat
      BY <2>1
    <3> QED BY <1>1, <2>1, <3>1 DEF AnchorTick
  <2>2. CASE AnchorAccount # current
    BY <1>1, <2>2 DEF AnchorTick
  <2> QED BY <2>1, <2>2
<1>2. CASE AnchorApply(t)
  BY <1>2, ApplyThenWriteQuiet DEF AnchorApply
<1>3. CASE AnchorFail(t)
  BY <1>3 DEF AnchorFail
<1>4. CASE WriteDisk(t)
  BY <1>4 DEF WriteDisk
<1> QED BY <1>1, <1>2, <1>3, <1>4 DEF AnchorStep

LEMMA RequestQuiet ==
    ASSUME Inv, NEW t \in Tasks, RequestStep(t)
    PROVE  Quiet(t)
<1> USE TaskAssumption, AccountAssumption
    DEF Inv, TypeOK, NoTokenLeft, Quiet, AllCopiesLive, AtAccount, Fresh,
        server, host, env, Goto, Return, NoFile, NoToken, AuthFile
<1>1. CASE RequestStart(t)
  BY <1>1 DEF RequestStart
<1>2. CASE GetCurrentToken(t)
  BY <1>2 DEF GetCurrentToken, SyncFrom
<1>3. CASE Served(t)
  BY <1>3 DEF Served
<1>4. CASE Unauthorized(t)
  BY <1>4 DEF Unauthorized
<1>5. CASE AutoSwitch(t)
  BY <1>5 DEF AutoSwitch, SwitchTo
<1>6. CASE NoCandidate(t)
  BY <1>6 DEF NoCandidate
<1>7. CASE RequestApply(t)
  BY <1>7, ApplyThenWriteQuiet DEF RequestApply
<1>8. CASE RequestFail(t)
  BY <1>8 DEF RequestFail
<1> QED BY <1>1, <1>2, <1>3, <1>4, <1>5, <1>6, <1>7, <1>8 DEF RequestStep

(* A snapshot of auth.json taken over for its owner. *)
LEMMA SyncKeepsCopies ==
    ASSUME Inv, NEW t \in Tasks, NEW b, NEW a \in Accounts, AllCopiesLive(a),
           store' = SyncFrom(snap[t], b)
    PROVE  store'[a] = live[a]
<1>1. snap[t].owner = a => snap[t].tok = live[a]
  BY DEF AllCopiesLive
<1>2. store[a] = live[a]
  BY DEF AllCopiesLive
<1> QED BY <1>1, <1>2 DEF Inv, TypeOK, SyncFrom

LEMMA QuerySyncQuiet ==
    ASSUME Inv, NEW t \in Tasks, QuerySync(t)
    PROVE  Quiet(t)
<1>1. UNCHANGED <<live, forked, cache, lock, disk>> /\ pc[t] = "sync"
  BY DEF QuerySync, server, env
<1>2. store' = SyncFrom(snap[t], acct[t])
  BY DEF QuerySync
<1>3. \/ /\ pc' = [pc EXCEPT ![t] = "capture"]
         /\ snap' = [snap EXCEPT ![t] = NoFile]
         /\ UNCHANGED <<acct, tok>>
      \/ Return(t, "idle")
  BY DEF QuerySync, Goto
<1>4. tok[t] = NoToken
  BY <1>1 DEF Inv, NoTokenLeft
<1>5. /\ pc'[t] \in {"capture", "idle"} /\ tok'[t] = NoToken
      /\ snap'[t] = NoFile
      /\ \A u \in Tasks \ {t} :
            pc'[u] = pc[u] /\ acct'[u] = acct[u] /\ tok'[u] = tok[u] /\ snap'[u] = snap[u]
  BY <1>3, <1>4 DEF Inv, TypeOK, Return, Goto
<1>6. ASSUME NEW a \in Accounts, AllCopiesLive(a) PROVE AllCopiesLive(a)'
  <2>1. store'[a] = live'[a]
    BY <1>1, <1>2, <1>6, SyncKeepsCopies
  <2> QED BY <1>1, <1>5, <1>6, <2>1, AccountAssumption DEF AllCopiesLive, NoFile
<1>7. NoTokenLeft'
  BY <1>1, <1>5 DEF Inv, NoTokenLeft
<1> QED BY <1>1, <1>5, <1>6, <1>7 DEF Quiet

LEMMA QuotaQuiet ==
    ASSUME Inv, NEW t \in Tasks, QuotaStep(t)
    PROVE  Quiet(t)
<1> USE TaskAssumption, AccountAssumption
    DEF Inv, TypeOK, NoTokenLeft, Quiet, AllCopiesLive, AtAccount, Fresh,
        server, host, env, Goto, Return, NoFile, NoToken, AuthFile
<1>1. CASE QuotaStart(t)
  BY <1>1 DEF QuotaStart
<1>2. CASE QueryStart(t)
  BY <1>2 DEF QueryStart
<1>3. CASE QueryRead(t)
  BY <1>3 DEF QueryRead
<1>4. CASE QuerySync(t)
  BY <1>4, QuerySyncQuiet
<1>5. CASE QueryCapture(t)
  BY <1>5 DEF QueryCapture
<1>6. CASE QuotaAnswered(t)
  BY <1>6 DEF QuotaAnswered
<1>7. CASE QuotaApply(t)
  BY <1>7 DEF QuotaApply, Apply
<1>8. CASE QuotaDrop(t)
  BY <1>8 DEF QuotaDrop
<1>9. CASE RefreshHandled(t)
  BY <1>9 DEF RefreshHandled
<1>10. CASE QuotaFail(t)
  BY <1>10 DEF QuotaFail
<1> QED
  BY <1>1, <1>2, <1>3, <1>4, <1>5, <1>6, <1>7, <1>8, <1>9, <1>10
     DEF QuotaStep

LEMMA SwitchSyncQuiet ==
    ASSUME Inv, NEW t \in Tasks, SwitchSync(t)
    PROVE  Quiet(t)
<1>1. UNCHANGED <<live, forked, cache, lock, disk, acct, tok>> /\ pc[t] = "sync"
  BY DEF SwitchSync, server, env
<1>2. store' = SyncFrom(snap[t], current)
  BY DEF SwitchSync
<1>3. tok[t] = NoToken
  BY <1>1 DEF Inv, NoTokenLeft
<1>4. /\ pc'[t] = "capture" /\ snap'[t] = NoFile
      /\ \A u \in Tasks \ {t} : pc'[u] = pc[u] /\ snap'[u] = snap[u]
  BY DEF SwitchSync, Inv, TypeOK, Goto
<1>5. ASSUME NEW a \in Accounts, AllCopiesLive(a) PROVE AllCopiesLive(a)'
  <2>1. store'[a] = live'[a]
    BY <1>1, <1>2, <1>5, SyncKeepsCopies
  <2> QED BY <1>1, <1>3, <1>4, <1>5, <2>1, AccountAssumption DEF AllCopiesLive, NoFile
<1>6. NoTokenLeft'
  BY <1>1, <1>3, <1>4 DEF Inv, NoTokenLeft
<1> QED BY <1>1, <1>4, <1>5, <1>6 DEF Quiet

LEMMA SwitchCaptureQuiet ==
    ASSUME Inv, NEW t \in Tasks, SwitchCapture(t)
    PROVE  Quiet(t)
<1>1. /\ UNCHANGED <<live, forked, cache, lock, store, disk, acct, snap>>
      /\ pc[t] = "capture" /\ t \in Switches
  BY DEF SwitchCapture, server, host, env
<1>2. tok[t] = NoToken /\ acct[t] \in Accounts /\ t \notin Fresh
  BY <1>1, TaskAssumption DEF Inv, TypeOK, AtAccount, NoTokenLeft, Fresh
<1>3. /\ \/ pc'[t] = "wait" /\ tok'[t] = store[acct[t]]
         \/ pc'[t] = "switch" /\ tok'[t] = NoToken
      /\ \A u \in Tasks \ {t} : pc'[u] = pc[u] /\ tok'[u] = tok[u]
  BY <1>2 DEF SwitchCapture, Inv, TypeOK, Goto
<1>4. ASSUME NEW a \in Accounts, AllCopiesLive(a) PROVE AllCopiesLive(a)'
  <2>1. store[a] = live[a]
    BY <1>4 DEF AllCopiesLive
  <2>2. acct[t] = a =>
            /\ tok'[t] # NoToken => tok'[t] = live[a]
            /\ pc'[t] = "wait" => tok'[t] = live[a]
    BY <1>3, <2>1
  <2> QED BY <1>1, <1>3, <1>4, <2>2 DEF AllCopiesLive
<1>5. NoTokenLeft'
  BY <1>1, <1>2, <1>3 DEF Inv, NoTokenLeft
<1> QED BY <1>1, <1>3, <1>4, <1>5 DEF Quiet

LEMMA SwitchQuiet ==
    ASSUME Inv, NEW t \in Tasks, SwitchStep(t)
    PROVE  Quiet(t)
<1> USE TaskAssumption, AccountAssumption
    DEF Inv, TypeOK, NoTokenLeft, Quiet, AllCopiesLive, AtAccount, Fresh,
        server, host, env, Goto, Return, NoFile, NoToken, AuthFile
<1>1. CASE SwitchStart(t)
  BY <1>1 DEF SwitchStart
<1>2. CASE SwitchSync(t)
  BY <1>2, SwitchSyncQuiet
<1>3. CASE SwitchCapture(t)
  BY <1>3, SwitchCaptureQuiet
<1>4. CASE SwitchApply(t)
  BY <1>4 DEF SwitchApply, Apply
<1>5. CASE SwitchFail(t)
  BY <1>5 DEF SwitchFail
<1>6. CASE SwitchCommit(t)
  BY <1>6 DEF SwitchCommit, SwitchTo
<1> QED BY <1>1, <1>2, <1>3, <1>4, <1>5, <1>6 DEF SwitchStep

---------------------------------------------------------------------------
(* The steps inside the critical section, and those of the environment. *)

LEMMA AcquireChain ==
    ASSUME Inv, NEW t \in Tasks, Acquire(t)
    PROVE  LockHeld' /\ NoTokenLeft' /\ ChainInv' /\ NeverReused'
<1> USE TaskAssumption DEF Acquire, server, host, env, Goto
<1>1. acct[t] \in Accounts /\ lock[acct[t]] = Free /\ pc[t] = "wait"
  BY DEF Inv, TypeOK, AtAccount
<1>2. LockHeld'
  BY <1>1 DEF Inv, TypeOK, LockHeld
<1>3. NoTokenLeft'
  BY <1>1 DEF Inv, TypeOK, NoTokenLeft
<1>4. NeverReused'
  BY <1>1 DEF Inv, TypeOK, NeverReused
<1>5. ASSUME NEW a \in Accounts PROVE InFlight(a)' <=> InFlight(a)
  BY <1>1 DEF InFlight, Inv, TypeOK
<1>6. ASSUME NEW a \in Accounts, AllCopiesLive(a) PROVE AllCopiesLive(a)'
  BY <1>1, <1>6 DEF AllCopiesLive, Inv, TypeOK, NoTokenLeft
<1>7. ASSUME NEW u \in Tasks, pc'[u] = "reply"
      PROVE  pc[u] = "reply" /\ tok'[u] = tok[u]
  BY <1>1, <1>7 DEF Inv, TypeOK
<1>8. ChainInv'
  BY <1>5, <1>6, <1>7 DEF Inv, ChainInv
<1> QED BY <1>2, <1>3, <1>4, <1>8

(* While its task is about to send, no answer for the account is in flight. *)
LEMMA NoneInFlight ==
    ASSUME Inv, NEW t \in Tasks, pc[t] = "send"
    PROVE  /\ acct[t] \in Accounts
           /\ \A u \in Tasks : pc[u] \in {"send", "reply"} /\ acct[u] = acct[t] => u = t
           /\ ~InFlight(acct[t])
BY DEF Inv, LockHeld, InFlight

(* With its chain intact, a task about to send holds the live token, or    *)
(* the cache does.                                                         *)
LEMMA SendsLive ==
    ASSUME Inv, NEW t \in Tasks, pc[t] = "send", acct[t] \notin forked
    PROVE  \/ tok[t] = live[acct[t]]
           \/ cache[acct[t]] # NoToken /\ cache[acct[t]] = live[acct[t]]
BY NoneInFlight DEF Inv, ChainInv, AllCopiesLive

(* A send that ends in an error leaves the server and every copy alone. *)
LEMMA FailChain ==
    ASSUME Inv, NEW t \in Tasks, pc[t] = "send",
           NEW l \in {"failNet", "failReused", "failOut"}, Fail(t, l),
           UNCHANGED <<live, cache, store, disk, snap, acct>>,
           forked \subseteq forked',
           l = "failReused" => acct[t] \in forked'
    PROVE  LockHeld' /\ NoTokenLeft' /\ ChainInv' /\ NeverReused'
<1> USE DEF Fail, Goto
<1>1. /\ acct[t] \in Accounts
      /\ \A u \in Tasks \ {t} : pc[u] \in {"send", "reply"} => acct[u] # acct[t]
  BY NoneInFlight
<1>2. /\ pc'[t] = l /\ tok'[t] = NoToken
      /\ \A u \in Tasks \ {t} : pc'[u] = pc[u] /\ tok'[u] = tok[u]
  BY DEF Inv, TypeOK
<1>3. LockHeld'
  BY <1>1, <1>2 DEF Inv, TypeOK, LockHeld
<1>4. NoTokenLeft'
  BY <1>2 DEF Inv, NoTokenLeft
<1>5. NeverReused'
  BY <1>2 DEF Inv, NeverReused
<1>6. ASSUME NEW a \in Accounts PROVE InFlight(a)' <=> InFlight(a)
  BY <1>2 DEF InFlight
<1>7. ASSUME NEW a \in Accounts, AllCopiesLive(a) PROVE AllCopiesLive(a)'
  BY <1>2, <1>7 DEF AllCopiesLive, NoToken
<1>8. ChainInv'
  BY <1>2, <1>6, <1>7 DEF Inv, ChainInv
<1> QED BY <1>3, <1>4, <1>5, <1>8

(* Another send of the same token. *)
LEMMA ResendChain ==
    ASSUME Inv, NEW t \in Tasks, UNCHANGED <<cache, lock, store, disk, snap, acct, pc, tok>>,
           forked \subseteq forked',
           \A a \in Accounts \ forked' : live'[a] = live[a]
    PROVE  LockHeld' /\ NoTokenLeft' /\ ChainInv' /\ NeverReused'
<1>1. LockHeld' /\ NoTokenLeft' /\ NeverReused'
  BY DEF Inv, LockHeld, NoTokenLeft, NeverReused
<1>2. ChainInv'
  BY DEF Inv, ChainInv, InFlight, AllCopiesLive
<1> QED BY <1>1, <1>2

LEMMA RotatedChain ==
    ASSUME Inv, NEW t \in Tasks, Rotated(t)
    PROVE  LockHeld' /\ NoTokenLeft' /\ ChainInv' /\ NeverReused'
<1> DEFINE a == acct[t]
<1> USE DEF Rotated, Issue, Goto, host, env
<1>1. /\ a \in Accounts /\ pc[t] = "send"
      /\ \A u \in Tasks \ {t} : pc[u] \in {"send", "reply"} => acct[u] # a
  BY NoneInFlight
<1>2. /\ pc'[t] = "reply" /\ tok'[t] = live'[a] /\ tok'[t] # NoToken
      /\ \A u \in Tasks \ {t} : pc'[u] = pc[u] /\ tok'[u] = tok[u]
      /\ \A b \in Accounts \ {a} : live'[b] = live[b]
  BY <1>1 DEF Inv, TypeOK, NoToken
<1>3. LockHeld' /\ NoTokenLeft' /\ NeverReused'
  BY <1>1, <1>2 DEF Inv, LockHeld, NoTokenLeft, NeverReused
<1>4. InFlight(a)'
  BY <1>2 DEF InFlight
<1>5. ASSUME NEW b \in Accounts \ {a}
      PROVE  (InFlight(b)' <=> InFlight(b)) /\ (AllCopiesLive(b) => AllCopiesLive(b)')
  BY <1>2 DEF InFlight, AllCopiesLive
<1>6. ASSUME NEW b \in Accounts \ forked', NEW u \in Tasks,
             pc'[u] = "reply", acct'[u] = b, tok'[u] # NoToken
      PROVE  tok'[u] = live'[b]
  BY <1>1, <1>2, <1>6 DEF Inv, ChainInv
<1>7. ChainInv'
  BY <1>4, <1>5, <1>6 DEF Inv, ChainInv
<1> QED BY <1>3, <1>7

LEMMA KeptChain ==
    ASSUME Inv, NEW t \in Tasks, Kept(t)
    PROVE  LockHeld' /\ NoTokenLeft' /\ ChainInv' /\ NeverReused'
<1> USE DEF Kept, Goto, server, host, env
<1>1. /\ pc[t] = "send" /\ pc'[t] = "reply" /\ tok'[t] = NoToken
      /\ \A u \in Tasks \ {t} : pc'[u] = pc[u] /\ tok'[u] = tok[u]
  BY DEF Inv, TypeOK
<1>2. LockHeld' /\ NoTokenLeft' /\ NeverReused'
  BY <1>1 DEF Inv, LockHeld, NoTokenLeft, NeverReused
<1>3. ASSUME NEW a \in Accounts
      PROVE  (InFlight(a)' <=> InFlight(a)) /\ (AllCopiesLive(a) => AllCopiesLive(a)')
  BY <1>1 DEF InFlight, AllCopiesLive
<1>4. ChainInv'
  BY <1>1, <1>3 DEF Inv, ChainInv
<1> QED BY <1>2, <1>4

LEMMA ReusedChain ==
    ASSUME Inv, NEW t \in Tasks, Reused(t)
    PROVE  LockHeld' /\ NoTokenLeft' /\ ChainInv' /\ NeverReused'
<1> DEFINE a == acct[t]
<1> USE DEF Reused, server, host, env
<1>1. pc[t] = "send" /\ a \in Accounts
  BY NoneInFlight
<1>2. CASE cache[a] \in {NoToken, tok[t]}
  <2>1. Fail(t, "failReused")
    BY <1>2
  <2>2. a \in forked
    BY <1>1, <1>2, SendsLive
  <2>3. UNCHANGED <<live, cache, store, disk, snap, acct, forked>>
    OBVIOUS
  <2> QED BY <1>1, <2>1, <2>2, <2>3, FailChain
<1>3. CASE cache[a] \notin {NoToken, tok[t]}
  <2>1. /\ tok'[t] = cache[a] /\ pc' = pc /\ lock' = lock
        /\ \A u \in Tasks \ {t} : tok'[u] = tok[u]
    BY <1>3 DEF Inv, TypeOK
  <2>2. LockHeld' /\ NoTokenLeft' /\ NeverReused'
    BY <1>1, <2>1 DEF Inv, LockHeld, NoTokenLeft, NeverReused
  <2>3. ASSUME NEW b \in Accounts PROVE InFlight(b)' <=> InFlight(b)
    BY <1>1, <2>1 DEF InFlight
  <2>4. ASSUME NEW b \in Accounts \ {a}, AllCopiesLive(b) PROVE AllCopiesLive(b)'
    BY <2>1, <2>4 DEF AllCopiesLive
  <2>5. ChainInv'
    BY <1>1, <1>3, <2>1, <2>3, <2>4 DEF Inv, ChainInv
  <2> QED BY <2>2, <2>5
<1> QED BY <1>2, <1>3

LEMMA WriteBackChain ==
    ASSUME Inv, NEW t \in Tasks, WriteBack(t)
    PROVE  LockHeld' /\ NoTokenLeft' /\ ChainInv' /\ NeverReused'
<1> DEFINE a == acct[t]
<1> USE DEF WriteBack, Goto, server, env
<1>1. /\ a \in Accounts /\ pc[t] = "reply"
      /\ \A u \in Tasks \ {t} : pc[u] \in {"send", "reply"} => acct[u] # a
  BY DEF Inv, LockHeld
<1>2. /\ pc'[t] = "apply"
      /\ \A u \in Tasks \ {t} : pc'[u] = pc[u]
      /\ \A b \in Accounts \ {a} : lock'[b] = lock[b] /\ cache'[b] = cache[b]
      /\ cache'[a] = IF tok[t] = NoToken THEN cache[a] ELSE tok[t]
  BY <1>1 DEF Inv, TypeOK
<1>3. LockHeld' /\ NoTokenLeft' /\ NeverReused'
  BY <1>1, <1>2 DEF Inv, LockHeld, NoTokenLeft, NeverReused
<1>4. ~InFlight(a)'
  BY <1>1, <1>2 DEF InFlight
<1>5. /\ \A b \in Accounts \ {a} : store'[b] = store[b]
      /\ tok[t] = NoToken => store' = store
  BY <1>1 DEF Inv, TypeOK, Apply
<1>6. ASSUME NEW b \in Accounts \ {a}
      PROVE  (InFlight(b)' <=> InFlight(b)) /\ (AllCopiesLive(b) => AllCopiesLive(b)')
  BY <1>2, <1>5 DEF InFlight, AllCopiesLive
<1>7. CASE tok[t] = NoToken
  <2>1. ~InFlight(a)
    BY <1>1, <1>7 DEF InFlight
  <2>2. AllCopiesLive(a) => AllCopiesLive(a)'
    BY <1>2, <1>5, <1>7 DEF AllCopiesLive
  <2>3. ChainInv'
    BY <1>1, <1>2, <1>4, <1>6, <1>7, <2>1, <2>2 DEF Inv, ChainInv
  <2> QED BY <1>3, <2>3
<1>8. CASE tok[t] # NoToken
  <2>1. a \notin forked => cache'[a] = live[a]
    BY <1>1, <1>2, <1>8 DEF Inv, ChainInv
  <2>2. cache'[a] # NoToken
    BY <1>2, <1>8
  <2>3. ChainInv'
    BY <1>1, <1>2, <1>4, <1>6, <2>1, <2>2 DEF Inv, ChainInv
  <2> QED BY <1>3, <2>3
<1> QED BY <1>7, <1>8

LEMMA CriticalChain ==
    ASSUME Inv, NEW t \in Tasks, Critical(t)
    PROVE  LockHeld' /\ NoTokenLeft' /\ ChainInv' /\ NeverReused'
<1>1. CASE NetworkError(t)
  <2> USE <1>1 DEF NetworkError, SendError, server, host, env
  <2>1. CASE tries[t] < Attempts - 1
    BY <2>1, ResendChain
  <2>2. CASE ~(tries[t] < Attempts - 1)
    BY <2>2, FailChain
  <2> QED BY <2>1, <2>2
<1>2. CASE LostAnswer(t)
  <2> USE <1>2 DEF LostAnswer, Issue, host
  <2>1. /\ acct[t] \in Accounts
        /\ \A u \in Tasks \ {t} : pc[u] \in {"send", "reply"} => acct[u] # acct[t]
    BY NoneInFlight
  <2>2. /\ forked' = forked \cup {acct[t]}
        /\ \A b \in Accounts \ {acct[t]} : live'[b] = live[b]
    BY <2>1 DEF Inv, TypeOK
  <2>3. CASE tries[t] < Attempts - 1
    <3>1. UNCHANGED <<cache, lock, store, disk, snap, acct, pc, tok>>
      BY <2>3 DEF SendError
    <3> QED BY <2>2, <3>1, ResendChain
  <2>4. CASE ~(tries[t] < Attempts - 1)
    <3>1. Fail(t, "failNet") /\ UNCHANGED <<cache, store, disk, snap, acct>>
      BY <2>4 DEF SendError
    <3>2. LockHeld' /\ NoTokenLeft' /\ NeverReused'
      BY <2>1, <2>2, <3>1 DEF Inv, TypeOK, LockHeld, NoTokenLeft, NeverReused, Fail, Goto
    <3>3. /\ pc'[t] = "failNet" /\ tok'[t] = NoToken
          /\ \A u \in Tasks \ {t} : pc'[u] = pc[u] /\ tok'[u] = tok[u]
      BY <3>1 DEF Inv, TypeOK, Fail, Goto
    <3>4. ASSUME NEW a \in Accounts \ forked'
          PROVE  (InFlight(a)' <=> InFlight(a)) /\ (AllCopiesLive(a) => AllCopiesLive(a)')
      BY <2>2, <3>1, <3>3 DEF InFlight, AllCopiesLive, NoToken
    <3>5. ChainInv'
      BY <2>2, <3>1, <3>3, <3>4 DEF Inv, ChainInv
    <3> QED BY <3>2, <3>5
  <2> QED BY <2>3, <2>4
<1>3. CASE Refused(t)
  BY <1>3, FailChain DEF Refused, server, host, env
<1> QED BY <1>1, <1>2, <1>3, RotatedChain, KeptChain, ReusedChain, WriteBackChain DEF Critical

LEMMA EnvironmentChain ==
    ASSUME Inv,
           \/ \E a \in Accounts : ToggleKeepalive(a) \/ Revoke(a)
           \/ CodexRefresh
           \/ Restart
           \/ UNCHANGED vars
    PROVE  LockHeld' /\ NoTokenLeft' /\ ChainInv' /\ NeverReused'
<1>1. CASE UNCHANGED <<live, cache, lock, store, disk, locals, forked>>
  BY <1>1 DEF locals, Inv, LockHeld, NoTokenLeft, ChainInv, NeverReused, InFlight,
              AllCopiesLive
<1>2. ASSUME NEW a \in Accounts, ToggleKeepalive(a) \/ Revoke(a)
      PROVE  UNCHANGED <<live, cache, lock, store, disk, locals, forked>>
  BY <1>2 DEF ToggleKeepalive, Revoke, server, host, env
<1>3. CASE CodexRefresh
  <2> USE <1>3 DEF CodexRefresh, Issue, locals
  <2>1. /\ disk.owner \in Accounts
        /\ forked' = forked \cup {disk.owner}
        /\ \A b \in Accounts \ {disk.owner} : live'[b] = live[b]
        /\ disk'.owner = disk.owner
    BY DEF Inv, TypeOK, AuthFile
  <2>2. LockHeld' /\ NoTokenLeft' /\ NeverReused'
    BY <2>1 DEF Inv, LockHeld, NoTokenLeft, NeverReused
  <2>3. ASSUME NEW a \in Accounts \ forked'
        PROVE  (InFlight(a)' <=> InFlight(a)) /\ (AllCopiesLive(a) => AllCopiesLive(a)')
    BY <2>1 DEF InFlight, AllCopiesLive
  <2>4. ChainInv'
    BY <2>1, <2>3 DEF Inv, ChainInv
  <2> QED BY <2>2, <2>4
<1>4. CASE Restart
  BY <1>4, AccountAssumption
     DEF Restart, server, host, Inv, LockHeld, NoTokenLeft, ChainInv, NeverReused, InFlight,
         AllCopiesLive, NoFile, NoToken
<1> QED BY <1>1, <1>2, <1>3, <1>4 DEF vars, server, host, env

LEMMA InvInit == Init => Inv
<1> SUFFICES ASSUME Init PROVE Inv
  OBVIOUS
<1>1. TypeOK
  BY TypeInit
<1>2. LockHeld /\ NoTokenLeft /\ ChainInv /\ NeverReused
  BY AccountAssumption
     DEF Init, LockHeld, NoTokenLeft, ChainInv, NeverReused, InFlight, AllCopiesLive,
         NoFile, NoToken
<1> QED BY <1>1, <1>2 DEF Inv

LEMMA InvNext == Inv /\ [Next]_vars => Inv'
<1> SUFFICES ASSUME Inv, [Next]_vars PROVE Inv'
  OBVIOUS
<1>1. TypeOK'
  BY TypeNext DEF Inv
<1>2. LockHeld' /\ NoTokenLeft' /\ ChainInv' /\ NeverReused'
  <2>1. ASSUME NEW t \in Tasks, TaskStep(t)
        PROVE  LockHeld' /\ NoTokenLeft' /\ ChainInv' /\ NeverReused'
    BY <2>1, AcquireChain, CriticalChain, QuietStep, SchedulerQuiet, AnchorQuiet,
       RequestQuiet, QuotaQuiet, SwitchQuiet DEF TaskStep
  <2> QED BY <2>1, EnvironmentChain DEF Next
<1> QED BY <1>1, <1>2 DEF Inv

(* The inductive invariant holds in every behaviour.                      *)
THEOREM Invariance == Spec => []Inv
BY InvInit, InvNext, PTL DEF Spec

(* At most one rotation of an account is under way. *)
THEOREM OneRotationHolds == Spec => []OneRotation
<1>1. Inv => OneRotation
  BY DEF Inv, LockHeld, OneRotation
<1> QED BY <1>1, Invariance, PTL

(* No refresh of an account that only this process rotates is answered     *)
(* with refresh_token_reused in the end.                                   *)
THEOREM NeverReusedHolds == Spec => []NeverReused
<1>1. Inv => NeverReused
  BY DEF Inv
<1> QED BY <1>1, Invariance, PTL

(* The process never loses the live token of such an account. *)
THEOREM LiveTokenIsHeld == Spec => []LiveTokenHeld
<1>1. Inv => LiveTokenHeld
  <2> SUFFICES ASSUME Inv, NEW a \in Accounts, a \notin forked
               PROVE  live[a] \in {store[a], cache[a]} \/ InFlight(a)
    BY DEF LiveTokenHeld
  <2>1. ~InFlight(a) => cache[a] \in {NoToken, live[a]}
    BY DEF Inv, ChainInv
  <2>2. ~InFlight(a) /\ cache[a] = NoToken => store[a] = live[a]
    BY DEF Inv, ChainInv, AllCopiesLive
  <2> QED BY <2>1, <2>2
<1> QED BY <1>1, Invariance, PTL
---------------------------------------------------------------------------
(* The refinement of RefreshChain.  What the process holds of an account   *)
(* that is not forked is the live token, before and after every step: so a *)
(* step that leaves the server alone maps to Drift or to a stutter, and    *)
(* only an answer that rotates maps to Rotate.                             *)
held == [a \in Accounts |-> Newest(a)]

HoldsLive ==
    /\ held \in [Accounts -> Nat]
    /\ \A a \in Accounts \ forked : Newest(a) = live[a]

LEMMA AnswerHolder ==
    ASSUME Inv, NEW a \in Accounts, InFlight(a)
    PROVE  /\ lock[a] \in Tasks
           /\ pc[lock[a]] = "reply" /\ acct[lock[a]] = a /\ tok[lock[a]] # NoToken
BY DEF Inv, LockHeld, InFlight

LEMMA HoldsLiveToken == Inv => HoldsLive
<1> SUFFICES ASSUME Inv, NEW a \in Accounts
             PROVE  Newest(a) \in Nat /\ (a \notin forked => Newest(a) = live[a])
  BY DEF HoldsLive, held
<1>1. CASE InFlight(a)
  BY <1>1, AnswerHolder DEF Newest, Inv, TypeOK, ChainInv
<1>2. CASE ~InFlight(a)
  BY <1>2 DEF Newest, Inv, TypeOK, ChainInv, AllCopiesLive
<1> QED BY <1>1, <1>2

(* Who moves the chain: an answer that rotates; every other step that does *)
(* so forks the account.                                                   *)
LEMMA ChainMoves ==
    ASSUME Inv, [Next]_vars
    PROVE  \/ \E t \in Tasks : Rotated(t)
           \/ /\ forked \subseteq forked'
              /\ \A a \in Accounts \ forked' : live'[a] = live[a]
<1>1. CASE UNCHANGED <<live, forked>>
  BY <1>1
<1>2. ASSUME NEW t \in Tasks, Critical(t), ~Rotated(t), ~LostAnswer(t)
      PROVE  UNCHANGED <<live, forked>>
  BY <1>2 DEF Critical, NetworkError, Kept, Reused, Refused, WriteBack, server, env
<1>3. ASSUME NEW t \in Tasks, LostAnswer(t)
      PROVE  /\ forked \subseteq forked'
             /\ \A a \in Accounts \ forked' : live'[a] = live[a]
  BY <1>3 DEF LostAnswer, Issue, Inv, TypeOK
<1>4. ASSUME NEW t \in Tasks, TaskStep(t), ~Critical(t)
      PROVE  UNCHANGED <<live, forked>>
  <2>1. CASE Acquire(t)
    BY <2>1 DEF Acquire, server, env
  <2>2. CASE Quiet(t)
    BY <2>2 DEF Quiet
  <2> QED BY <1>4, <2>1, <2>2, SchedulerQuiet, AnchorQuiet, RequestQuiet, QuotaQuiet,
             SwitchQuiet DEF TaskStep
<1>5. ASSUME NEW a \in Accounts, ToggleKeepalive(a) \/ Revoke(a)
      PROVE  UNCHANGED <<live, forked>>
  BY <1>5 DEF ToggleKeepalive, Revoke, server, env
<1>6. CASE CodexRefresh
  BY <1>6 DEF CodexRefresh, Issue, Inv, TypeOK
<1>7. CASE Restart
  BY <1>7 DEF Restart, server
<1> QED BY <1>1, <1>2, <1>3, <1>4, <1>5, <1>6, <1>7 DEF Next, vars, server, env

(* An answer that rotates changes what the process holds of its account.   *)
LEMMA RotatedHeld ==
    ASSUME Inv, NEW t \in Tasks, Rotated(t)
    PROVE  /\ acct[t] \in Accounts
           /\ live' = [live EXCEPT ![acct[t]] = @ + 1]
           /\ forked' = forked
           /\ \A b \in Accounts \ {acct[t]} : Newest(b)' = Newest(b)
<1>1. /\ acct[t] \in Accounts
      /\ live' = [live EXCEPT ![acct[t]] = @ + 1]
      /\ UNCHANGED <<forked, cache, store, lock, acct>>
      /\ pc[t] = "send" /\ pc'[t] = "reply"
      /\ \A u \in Tasks \ {t} : pc'[u] = pc[u] /\ tok'[u] = tok[u]
  BY NoneInFlight DEF Rotated, Issue, Goto, host, env, Inv, TypeOK
<1>2. ASSUME NEW b \in Accounts \ {acct[t]} PROVE Newest(b)' = Newest(b)
  <2>1. InFlight(b)' <=> InFlight(b)
    BY <1>1 DEF InFlight
  <2>2. InFlight(b) => tok'[lock[b]] = tok[lock[b]]
    BY <1>1, AnswerHolder
  <2> QED BY <1>1, <2>1, <2>2 DEF Newest
<1> QED BY <1>1, <1>2

LEMMA RotatedStep ==
    ASSUME Inv, HoldsLive, HoldsLive', NEW t \in Tasks, Rotated(t),
           NEW a \in Accounts \ forked, acct[t] = a
    PROVE  Chain!Rotate(a)
<1>1. /\ a \in Accounts \ forked
      /\ live' = [live EXCEPT ![a] = @ + 1]
      /\ forked' = forked
      /\ \A b \in Accounts \ {a} : Newest(b)' = Newest(b)
  BY RotatedHeld
<1>2. Newest(a) = live[a] /\ Newest(a)' = live'[a]
  BY <1>1 DEF HoldsLive
<1>3. live'[a] = live[a] + 1
  BY <1>1 DEF Inv, TypeOK
<1>4. held' = [held EXCEPT ![a] = @ + 1]
  <2>1. /\ held'[a] = held[a] + 1
        /\ \A b \in Accounts \ {a} : held'[b] = held[b]
    BY <1>1, <1>2, <1>3 DEF held
  <2> QED BY <2>1 DEF HoldsLive
<1> QED BY <1>1, <1>2, <1>4 DEF Chain!Rotate, held

LEMMA DriftStep ==
    ASSUME Inv', HoldsLive, HoldsLive', forked \subseteq forked',
           \A a \in Accounts \ forked' : live'[a] = live[a]
    PROVE  Chain!Drift
<1>1. forked' \in SUBSET Accounts /\ live' \in [Accounts -> Nat]
  BY DEF Inv, TypeOK
<1>2. held' \in [Accounts -> Nat]
  BY DEF HoldsLive
<1>3. \A a \in Accounts \ forked' : held'[a] = held[a]
  BY DEF HoldsLive, held
<1> QED BY <1>1, <1>2, <1>3 DEF Chain!Drift, held

LEMMA ChainInit == Init => Chain!Init
BY DEF Init, Chain!Init, Newest, InFlight, NoToken

LEMMA ChainNext ==
    Inv /\ Inv' /\ HoldsLive /\ HoldsLive' /\ [Next]_vars => [Chain!Next]_(Chain!chainVars)
<1> SUFFICES ASSUME Inv, Inv', HoldsLive, HoldsLive', [Next]_vars PROVE Chain!Next
  OBVIOUS
<1>1. ASSUME NEW t \in Tasks, Rotated(t) PROVE Chain!Next
  <2>1. CASE acct[t] \in forked
    <3>1. \A a \in Accounts \ forked' : live'[a] = live[a]
      BY <1>1, <2>1, RotatedHeld DEF Inv, TypeOK
    <3> QED BY <1>1, <3>1, RotatedHeld, DriftStep DEF Chain!Next
  <2>2. CASE acct[t] \notin forked
    BY <1>1, <2>2, RotatedHeld, RotatedStep DEF Chain!Next
  <2> QED BY <2>1, <2>2
<1> QED BY <1>1, ChainMoves, DriftStep DEF Chain!Next

(* The locked refreshes, the cache and all their callers keep the promise  *)
(* of RefreshChain: every rotation replaces what the process holds and     *)
(* what the server accepts together, until the account is forked.          *)
THEOREM KeepsChainHolds == Spec => KeepsChain
BY ChainInit, ChainNext, HoldsLiveToken, Invariance, PTL DEF Spec, KeepsChain, Chain!Spec
---------------------------------------------------------------------------
(* Logged-out marks.  A refusal carries the account it was given for to    *)
(* the mark, and a revoked session does not come back.  A proxy request    *)
(* marks whatever account is current when the refusal arrives              *)
(* (RequestFail): without requests, every mark is right.                   *)
MarkInv ==
    /\ loggedOut \subseteq revoked
    /\ \A t \in Tasks : pc[t] = "failOut" => acct[t] \in revoked

(* What a step of a task does to the marks. *)
Marks(t) ==
    /\ revoked' = revoked
    /\ loggedOut' \subseteq loggedOut \cup (IF pc[t] = "failOut" THEN {acct[t]} ELSE {})
    /\ pc'[t] = "failOut" => pc[t] = "send" /\ acct[t] \in revoked /\ acct'[t] = acct[t]
    /\ \A u \in Tasks \ {t} : pc'[u] = pc[u] /\ acct'[u] = acct[u]

LEMMA MarksStep ==
    ASSUME MarkInv, NEW t \in Tasks, Marks(t)
    PROVE  MarkInv'
BY DEF MarkInv, Marks

LEMMA CriticalMarks ==
    ASSUME Inv, NEW t \in Tasks, Acquire(t) \/ Critical(t)
    PROVE  Marks(t)
<1> USE DEF Inv, TypeOK, Marks, Goto, Fail, server, host
<1>1. CASE Acquire(t)
  BY <1>1 DEF Acquire
<1>2. CASE NetworkError(t)
  BY <1>2 DEF NetworkError, SendError
<1>3. CASE LostAnswer(t)
  BY <1>3 DEF LostAnswer, SendError
<1>4. CASE Rotated(t)
  BY <1>4 DEF Rotated
<1>5. CASE Kept(t)
  BY <1>5 DEF Kept
<1>6. CASE Reused(t)
  BY <1>6 DEF Reused
<1>7. CASE Refused(t)
  BY <1>7 DEF Refused
<1>8. CASE WriteBack(t)
  BY <1>8 DEF WriteBack
<1> QED BY <1>1, <1>2, <1>3, <1>4, <1>5, <1>6, <1>7, <1>8 DEF Critical

LEMMA ApplyThenWriteMarks ==
    ASSUME Inv, NEW t \in Tasks, ApplyThenWrite(t)
    PROVE  Marks(t)
<1>1. UNCHANGED <<revoked, loggedOut>>
  BY DEF ApplyThenWrite, server
<1>2. \/ /\ pc' = [pc EXCEPT ![t] = "write"]
         /\ acct' = acct
      \/ /\ pc' = [pc EXCEPT ![t] = "idle"]
         /\ acct' = [acct EXCEPT ![t] = NoAccount]
  BY DEF ApplyThenWrite, Return, Goto
<1> QED BY <1>1, <1>2 DEF Marks, Inv, TypeOK

LEMMA RefresherMarks ==
    ASSUME Inv, NEW t \in Tasks, SchedulerStep(t) \/ AnchorStep(t) \/ WriteDisk(t)
    PROVE  Marks(t)
<1> USE DEF Inv, TypeOK, Marks, Goto, Return, server, host
<1>1. CASE ReadDisk(t)
  BY <1>1 DEF ReadDisk
<1>2. CASE TickSync(t)
  BY <1>2 DEF TickSync
<1>3. CASE Collect(t)
  BY <1>3 DEF Collect
<1>4. CASE NextTarget(t)
  BY <1>4 DEF NextTarget
<1>5. CASE RoundDone(t)
  BY <1>5 DEF RoundDone
<1>6. CASE KeepaliveApply(t)
  BY <1>6 DEF KeepaliveApply
<1>7. CASE KeepaliveFail(t)
  BY <1>7 DEF KeepaliveFail
<1>8. CASE AnchorTick(t)
  BY <1>8 DEF AnchorTick
<1>9. CASE AnchorApply(t)
  BY <1>9, ApplyThenWriteMarks DEF AnchorApply
<1>10. CASE AnchorFail(t)
  BY <1>10 DEF AnchorFail
<1>11. CASE WriteDisk(t)
  BY <1>11 DEF WriteDisk
<1> QED BY <1>1, <1>2, <1>3, <1>4, <1>5, <1>6, <1>7, <1>8, <1>9, <1>10, <1>11
        DEF SchedulerStep, AnchorStep

LEMMA QuotaMarks ==
    ASSUME Inv, NEW t \in Tasks, QuotaStep(t)
    PROVE  Marks(t)
<1> USE DEF Inv, TypeOK, Marks, Goto, Return, server, host
<1>1. CASE QuotaStart(t)
  BY <1>1 DEF QuotaStart
<1>2. CASE QueryStart(t)
  BY <1>2 DEF QueryStart
<1>3. CASE QueryRead(t)
  BY <1>3 DEF QueryRead
<1>4. CASE QuerySync(t)
  BY <1>4 DEF QuerySync
<1>5. CASE QueryCapture(t)
  BY <1>5 DEF QueryCapture
<1>6. CASE QuotaAnswered(t)
  BY <1>6 DEF QuotaAnswered
<1>7. CASE QuotaApply(t)
  BY <1>7 DEF QuotaApply
<1>8. CASE QuotaDrop(t)
  BY <1>8 DEF QuotaDrop
<1>9. CASE RefreshHandled(t)
  BY <1>9 DEF RefreshHandled
<1>10. CASE QuotaFail(t)
  BY <1>10 DEF QuotaFail
<1> QED BY <1>1, <1>2, <1>3, <1>4, <1>5, <1>6, <1>7, <1>8, <1>9, <1>10 DEF QuotaStep

LEMMA SwitchMarks ==
    ASSUME Inv, NEW t \in Tasks, SwitchStep(t)
    PROVE  Marks(t)
<1> USE DEF Inv, TypeOK, Marks, Goto, Return, server, host
<1>1. CASE SwitchStart(t)
  BY <1>1 DEF SwitchStart
<1>2. CASE SwitchSync(t)
  BY <1>2 DEF SwitchSync
<1>3. CASE SwitchCapture(t)
  BY <1>3 DEF SwitchCapture
<1>4. CASE SwitchApply(t)
  BY <1>4 DEF SwitchApply
<1>5. CASE SwitchFail(t)
  BY <1>5 DEF SwitchFail
<1>6. CASE SwitchCommit(t)
  BY <1>6 DEF SwitchCommit, SwitchTo
<1> QED BY <1>1, <1>2, <1>3, <1>4, <1>5, <1>6 DEF SwitchStep

LEMMA MarkNext ==
    ASSUME Inv, MarkInv, [Next]_vars, Requests = {}
    PROVE  MarkInv'
<1>1. CASE UNCHANGED <<revoked, loggedOut, pc, acct>>
  BY <1>1 DEF MarkInv
<1>2. ASSUME NEW t \in Tasks, TaskStep(t) PROVE MarkInv'
  <2>1. ~RequestStep(t)
    BY DEF RequestStep, RequestStart, GetCurrentToken, Served, Unauthorized, AutoSwitch,
           NoCandidate, RequestApply, RequestFail
  <2> QED BY <1>2, <2>1, MarksStep, CriticalMarks, RefresherMarks, QuotaMarks, SwitchMarks
          DEF TaskStep
<1>3. ASSUME NEW a \in Accounts, ToggleKeepalive(a) PROVE MarkInv'
  BY <1>1, <1>3 DEF ToggleKeepalive, server, locals
<1>4. ASSUME NEW a \in Accounts, Revoke(a) PROVE MarkInv'
  BY <1>4 DEF Revoke, MarkInv, host, locals
<1>5. CASE CodexRefresh
  BY <1>1, <1>5 DEF CodexRefresh, locals
<1>6. CASE Restart
  BY <1>6 DEF Restart, MarkInv, server, host
<1> QED BY <1>1, <1>2, <1>3, <1>4, <1>5, <1>6 DEF Next, vars, server, host, locals

(* Without proxy requests only an account whose session has ended on the   *)
(* server is marked as logged out: no lost race and no outage marks one.   *)
THEOREM OnlyRevokedMarkedHolds ==
    ASSUME Requests = {}
    PROVE  Spec => []OnlyRevokedMarked
<1>1. Init => MarkInv
  BY DEF Init, MarkInv
<1>2. Inv /\ MarkInv /\ [Next]_vars => MarkInv'
  BY MarkNext
<1>3. MarkInv => OnlyRevokedMarked
  BY DEF MarkInv, OnlyRevokedMarked
<1> QED BY <1>1, <1>2, <1>3, Invariance, PTL DEF Spec
=============================================================================
