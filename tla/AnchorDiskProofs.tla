-------------------------- MODULE AnchorDiskProofs --------------------------
(* The invariants of AnchorDisk hold for any accounts, processes, commands *)
(* and bounds.                                                             *)
EXTENDS AnchorDisk, FiniteSetTheorems, TLAPS

(* Two anchors are the same account: OneAnchor without its cardinality.    *)
AnchorsAgree == \A a, b \in anchors : a = b

(* The mutex is kept over a write only, and the pointer moves only under   *)
(* it: why the target of Commit is still in the list.                      *)
LockCoversWrite ==
    \A p \in Procs :
        /\ lock = p => pc[p] \in {"tmp", "rename", "commit"}
        /\ pc[p] = "commit" => lock = p

IInv ==
    /\ TypeOK
    /\ CurrentKnown
    /\ anchors \subseteq accounts \cap OAuth
    /\ AnchorsAgree
    /\ LockCoversWrite
    /\ SwitchKeepsAnchor

---------------------------------------------------------------------------

(* What a move of one process does to the two functions.                   *)
LEMMA GotoMoves ==
    ASSUME TypeOK, NEW p \in Procs, NEW l \in PCs, NEW a \in Ids \cup {None},
           l \notin {"idle", "align"} => a \in Ids,
           Goto(p, l, a)
    PROVE  /\ pc' \in [Procs -> PCs]
           /\ img' \in [Procs -> Ids \cup {None}]
           /\ \A q \in Procs : pc'[q] \notin {"idle", "align"} => img'[q] \in Ids
           /\ pc'[p] = l
           /\ img'[p] = a
           /\ \A q \in Procs \ {p} : pc'[q] = pc[q] /\ img'[q] = img[q]
  BY DEF TypeOK, Goto

(* A step that finds the mutex free, leaves it free and moves no process   *)
(* to "commit" keeps the two facts about the mutex.                        *)
LEMMA FreeStep ==
    ASSUME IInv, NEW p \in Procs, NEW l \in PCs \ {"commit"}, NEW a \in Ids \cup {None},
           l \notin {"idle", "align"} => a \in Ids,
           Goto(p, l, a), lock = Free, lock' = Free
    PROVE  LockCoversWrite' /\ SwitchKeepsAnchor'
  <1>1. Free \notin Procs
    BY ProcAssumption
  <1>2. /\ pc'[p] = l
        /\ \A q \in Procs \ {p} : pc'[q] = pc[q]
    BY GotoMoves DEF IInv
  <1>3. \A q \in Procs : pc'[q] # "commit"
    BY <1>1, <1>2 DEF IInv, LockCoversWrite
  <1>4. QED
    BY <1>1, <1>3 DEF LockCoversWrite, SwitchKeepsAnchor

(* The same for a step that moves no process.                              *)
LEMMA FreeCommand ==
    ASSUME IInv, UNCHANGED procs, lock = Free
    PROVE  LockCoversWrite' /\ SwitchKeepsAnchor'
  BY ProcAssumption DEF IInv, LockCoversWrite, SwitchKeepsAnchor, procs

(* An invariant step that changes neither the account list, the pointer    *)
(* nor the anchors.                                                        *)
LEMMA StoreKept ==
    ASSUME IInv, UNCHANGED store
    PROVE  CurrentKnown' /\ (anchors \subseteq accounts \cap OAuth)' /\ AnchorsAgree'
  BY DEF IInv, CurrentKnown, AnchorsAgree, store

(* A move that finds and leaves the mutex free and changes only the place  *)
(* of a process.                                                           *)
LEMMA MoveOnly ==
    ASSUME IInv, NEW p \in Procs, NEW l \in PCs \ {"commit"}, NEW a \in Ids \cup {None},
           l \notin {"idle", "align"} => a \in Ids,
           Goto(p, l, a), lock = Free, UNCHANGED <<store, files, lock, bounds>>
    PROVE  IInv'
  <1>1. TypeOK'
    BY GotoMoves DEF IInv, TypeOK, store, files, bounds
  <1>2. LockCoversWrite' /\ SwitchKeepsAnchor'
    BY FreeStep
  <1>3. QED
    BY <1>1, <1>2, StoreKept DEF IInv

LEMMA InitIInv == Init => IInv
  <1> SUFFICES ASSUME Init PROVE IInv
    OBVIOUS
  <1>1. TypeOK
    BY BoundAssumption DEF Init, TypeOK, PCs
  <1>2. LockCoversWrite /\ SwitchKeepsAnchor
    BY ProcAssumption DEF Init, LockCoversWrite, SwitchKeepsAnchor
  <1>3. QED
    BY <1>1, <1>2 DEF Init, IInv, CurrentKnown, AnchorsAgree

---------------------------------------------------------------------------
(* Writes *)

LEMMA WritesKeepIInv ==
    ASSUME IInv, NEW p \in Procs, Write(p)
    PROVE  IInv'
  <1> USE DEF IInv
  <1>f. Free \notin Procs
    BY ProcAssumption
  <1>1. CASE WriteTmp(p)
    <2>1. img[p] \in Ids /\ Goto(p, "rename", img[p])
      BY <1>1 DEF WriteTmp, TypeOK
    <2>2. /\ pc' \in [Procs -> PCs]
          /\ img' \in [Procs -> Ids \cup {None}]
          /\ \A q \in Procs : pc'[q] \notin {"idle", "align"} => img'[q] \in Ids
          /\ pc'[p] = "rename"
          /\ img'[p] = img[p]
          /\ \A q \in Procs \ {p} : pc'[q] = pc[q] /\ img'[q] = img[q]
      BY <2>1, GotoMoves DEF PCs
    <2>3. TypeOK'
      BY <1>1, <2>1, <2>2 DEF WriteTmp, TypeOK, store, bounds
    <2>4. LockCoversWrite' /\ SwitchKeepsAnchor'
      BY <1>1, <2>2 DEF WriteTmp, LockCoversWrite, SwitchKeepsAnchor, store
    <2>5. QED
      BY <1>1, <2>3, <2>4, StoreKept DEF WriteTmp
  <1>2. ASSUME Fail(p), UNCHANGED <<store, files, restarts>>,
               failures' \in 0 .. MaxFailures
        PROVE  IInv'
    <2>1. /\ pc' \in [Procs -> PCs]
          /\ img' \in [Procs -> Ids \cup {None}]
          /\ \A q \in Procs : pc'[q] \notin {"idle", "align"} => img'[q] \in Ids
          /\ pc'[p] = "idle"
          /\ \A q \in Procs \ {p} : pc'[q] = pc[q] /\ img'[q] = img[q]
      BY <1>2, GotoMoves DEF PCs, Fail, Done
    <2>2. lock' = IF lock = p THEN Free ELSE lock
      BY <1>2 DEF Fail
    <2>3. TypeOK'
      BY <1>2, <2>1, <2>2 DEF TypeOK, store, files
    <2>4. LockCoversWrite' /\ SwitchKeepsAnchor'
      BY <1>f, <1>2, <2>1, <2>2 DEF LockCoversWrite, SwitchKeepsAnchor, store
    <2>5. QED
      BY <1>2, <2>3, <2>4, StoreKept
  <1>3. CASE WriteTmpFails(p)
    <2>1. failures' \in 0 .. MaxFailures
      BY <1>3, BoundAssumption DEF WriteTmpFails, TypeOK
    <2>2. QED
      BY <1>2, <1>3, <2>1 DEF WriteTmpFails
  <1>4. CASE RenameFails(p)
    BY <1>2, <1>4 DEF RenameFails, bounds, TypeOK
  <1>5. CASE Rename(p)
    <2> DEFINE l == IF lock = p THEN "commit" ELSE "idle"
               a == IF lock = p THEN img[p] ELSE None
    <2>1. Goto(p, l, a)
      BY <1>5 DEF Rename, Done
    <2>2. /\ l \in PCs
          /\ a \in Ids \cup {None}
          /\ l \notin {"idle", "align"} => a \in Ids
      BY <1>5 DEF Rename, TypeOK, PCs
    <2> HIDE DEF l, a
    <2>3. /\ pc' \in [Procs -> PCs]
          /\ img' \in [Procs -> Ids \cup {None}]
          /\ \A q \in Procs : pc'[q] \notin {"idle", "align"} => img'[q] \in Ids
          /\ pc'[p] = l
          /\ img'[p] = a
          /\ \A q \in Procs \ {p} : pc'[q] = pc[q] /\ img'[q] = img[q]
      BY <2>1, <2>2, GotoMoves
    <2>4. TypeOK'
      BY <1>5, <2>3 DEF Rename, TypeOK, store, bounds
    <2>5. LockCoversWrite' /\ SwitchKeepsAnchor'
      BY <1>5, <2>3 DEF Rename, LockCoversWrite, SwitchKeepsAnchor, store, l, a
    <2>6. QED
      BY <1>5, <2>4, <2>5, StoreKept DEF Rename
  <1>6. CASE Commit(p)
    <2>1. lock = p /\ img[p] \in accounts
      BY <1>6 DEF Commit, LockCoversWrite, SwitchKeepsAnchor
    <2>2. /\ pc' \in [Procs -> PCs]
          /\ img' \in [Procs -> Ids \cup {None}]
          /\ \A q \in Procs : pc'[q] \notin {"idle", "align"} => img'[q] \in Ids
          /\ pc'[p] = "idle"
          /\ \A q \in Procs \ {p} : pc'[q] = pc[q] /\ img'[q] = img[q]
      BY <1>6, GotoMoves DEF PCs, Commit, Done
    <2>3. TypeOK'
      BY <1>6, <2>1, <2>2 DEF Commit, TypeOK, files, bounds
    <2>4. LockCoversWrite' /\ SwitchKeepsAnchor'
      BY <1>f, <1>6, <2>1, <2>2 DEF Commit, LockCoversWrite, SwitchKeepsAnchor
    <2>5. CurrentKnown' /\ (anchors \subseteq accounts \cap OAuth)' /\ AnchorsAgree'
      BY <1>6, <2>1 DEF Commit, CurrentKnown, AnchorsAgree
    <2>6. QED
      BY <2>3, <2>4, <2>5
  <1>7. QED
    BY <1>1, <1>3, <1>4, <1>5, <1>6 DEF Write

---------------------------------------------------------------------------
(* The switch *)

(* switch_to, entered with the mutex free.                                 *)
LEMMA SwitchToKeepsIInv ==
    ASSUME IInv, NEW p \in Procs, NEW b \in Ids, SwitchTo(p, b), lock = Free,
           UNCHANGED <<accounts, anchors, files, bounds>>
    PROVE  IInv'
  <1> USE DEF IInv
  <1>1. CASE b \notin accounts
    BY <1>1, MoveOnly DEF SwitchTo, Done, PCs, store
  <1>2. CASE b \in accounts /\ ~MayWriteDisk(b)
    <2>1. Goto(p, "idle", None) /\ current' = b /\ UNCHANGED lock
      BY <1>2 DEF SwitchTo, Done
    <2>2. TypeOK'
      BY <2>1, GotoMoves DEF TypeOK, PCs, files, bounds
    <2>3. LockCoversWrite' /\ SwitchKeepsAnchor'
      BY <2>1, FreeStep DEF PCs
    <2>4. QED
      BY <1>2, <2>1, <2>2, <2>3 DEF CurrentKnown, AnchorsAgree
  <1>3. CASE b \in accounts /\ MayWriteDisk(b)
    <2>1. Goto(p, "tmp", b) /\ lock' = p /\ UNCHANGED current
      BY <1>3 DEF SwitchTo
    <2>2. /\ pc' \in [Procs -> PCs]
          /\ img' \in [Procs -> Ids \cup {None}]
          /\ \A q \in Procs : pc'[q] \notin {"idle", "align"} => img'[q] \in Ids
          /\ pc'[p] = "tmp"
          /\ img'[p] = b
          /\ \A q \in Procs \ {p} : pc'[q] = pc[q] /\ img'[q] = img[q]
      BY <2>1, GotoMoves DEF PCs
    <2>3. TypeOK'
      BY <2>1, <2>2 DEF TypeOK, files, bounds
    <2>4. \A q \in Procs : pc'[q] # "commit"
      BY <2>2, ProcAssumption DEF LockCoversWrite
    <2>5. LockCoversWrite' /\ SwitchKeepsAnchor'
      BY <1>3, <2>1, <2>2, <2>4
      DEF LockCoversWrite, SwitchKeepsAnchor, MayWriteDisk
    <2>6. QED
      BY <2>1, <2>3, <2>5, StoreKept DEF store
  <1>4. QED
    BY <1>1, <1>2, <1>3

LEMMA SwitchesKeepIInv ==
    ASSUME IInv, NEW p \in Procs, ChooseTarget(p) \/ SwitchTarget(p) \/ SwitchNow(p)
    PROVE  IInv'
  <1>t. TypeOK
    BY DEF IInv
  <1>1. CASE ChooseTarget(p)
    <2>1. PICK b \in accounts : Goto(p, "target", b)
      BY <1>1 DEF ChooseTarget
    <2>2. b \in Ids
      BY <1>t DEF TypeOK
    <2>3. QED
      BY <1>1, <2>1, <2>2, MoveOnly DEF ChooseTarget, Command, Locked, PCs
  <1>2. CASE SwitchTarget(p)
    <2>1. img[p] \in Ids
      BY <1>2, <1>t DEF SwitchTarget, Locked, TypeOK
    <2>2. QED
      BY <1>2, <2>1, SwitchToKeepsIInv DEF SwitchTarget, Locked
  <1>3. CASE SwitchNow(p)
    <2>1. PICK b \in accounts : SwitchTo(p, b)
      BY <1>3 DEF SwitchNow
    <2>2. b \in Ids
      BY <1>t DEF TypeOK
    <2>3. QED
      BY <1>3, <2>1, <2>2, SwitchToKeepsIInv DEF SwitchNow, Locked
  <1>4. QED
    BY <1>1, <1>2, <1>3

---------------------------------------------------------------------------
(* The commands on the account list: the mutex is free, no process moves   *)

LEMMA ListKeepsIInv ==
    ASSUME IInv, NEW u \in Procs,
           \/ AddAccount(u) \/ DeleteAccount(u) \/ RemoveAccount(u)
           \/ ImportAccounts(u) \/ ArchiveCurrent(u)
    PROVE  IInv'
  <1> USE DEF IInv
  <1>1. lock = Free /\ UNCHANGED <<files, procs, bounds>>
    BY DEF AddAccount, DeleteAccount, RemoveAccount, ImportAccounts,
           ArchiveCurrent, Command, Locked
  <1>2. LockCoversWrite' /\ SwitchKeepsAnchor'
    BY <1>1, FreeCommand
  <1>3. SUFFICES /\ accounts' \in SUBSET Ids
                 /\ current' \in accounts' \cup {None}
                 /\ anchors' \subseteq accounts' \cap OAuth
                 /\ \A a, b \in anchors' : a = b
    <2>1. TypeOK'
      BY <1>1, <1>3 DEF TypeOK, files, procs, bounds
    <2>2. QED
      BY <1>2, <1>3, <2>1 DEF CurrentKnown, AnchorsAgree
  <1>4. CASE AddAccount(u)
    BY <1>4 DEF AddAccount, TypeOK, CurrentKnown, AnchorsAgree
  <1>5. CASE DeleteAccount(u)
    BY <1>5 DEF DeleteAccount, TypeOK, CurrentKnown, AnchorsAgree
  <1>6. CASE RemoveAccount(u)
    BY <1>6 DEF RemoveAccount, TypeOK, CurrentKnown, AnchorsAgree
  <1>7. CASE ImportAccounts(u)
    BY <1>7 DEF ImportAccounts
  <1>8. CASE ArchiveCurrent(u)
    BY <1>8 DEF ArchiveCurrent, TypeOK, AnchorsAgree
  <1>9. QED
    BY <1>4, <1>5, <1>6, <1>7, <1>8

---------------------------------------------------------------------------
(* The anchor commands, which write after the mutex was released *)

(* The new anchors are anchors of the list that agree.                     *)
LEMMA AnchorCommand ==
    ASSUME IInv, NEW u \in Procs, NEW l \in {"tmp", "idle"}, NEW a \in Ids \cup {None},
           l = "tmp" => a \in Ids,
           Goto(u, l, a), lock = Free,
           anchors' \subseteq accounts \cap OAuth, \A x, y \in anchors' : x = y,
           UNCHANGED <<accounts, current, files, lock, bounds>>
    PROVE  IInv'
  <1>1. TypeOK'
    BY GotoMoves DEF IInv, TypeOK, PCs, files, bounds
  <1>2. LockCoversWrite' /\ SwitchKeepsAnchor'
    BY FreeStep DEF PCs
  <1>3. QED
    BY <1>1, <1>2 DEF IInv, CurrentKnown, AnchorsAgree

LEMMA AnchorCommandsKeepIInv ==
    ASSUME IInv, NEW u \in Procs, SetAnchor(u) \/ ClearAnchor(u)
    PROVE  IInv'
  <1> USE DEF IInv
  <1>1. CASE SetAnchor(u)
    <2>1. PICK a \in accounts \cap OAuth : anchors' = {a} /\ Goto(u, "tmp", a)
      BY <1>1 DEF SetAnchor
    <2>2. a \in Ids
      BY IdAssumption
    <2>3. QED
      BY <1>1, <2>1, <2>2, AnchorCommand DEF SetAnchor, Command, Locked
  <1>2. CASE ClearAnchor(u)
    <2>1. anchors' \subseteq anchors
      BY <1>2 DEF ClearAnchor
    <2>2. anchors' \subseteq accounts \cap OAuth /\ \A x, y \in anchors' : x = y
      BY <2>1 DEF AnchorsAgree
    <2>3. CASE current \in accounts
      <3>1. current \in Ids /\ Goto(u, "tmp", current)
        BY <1>2, <2>3 DEF ClearAnchor, TypeOK
      <3>2. QED
        BY <1>2, <2>2, <3>1, AnchorCommand DEF ClearAnchor, Command, Locked
    <2>4. CASE current \notin accounts
      BY <1>2, <2>2, <2>4, AnchorCommand DEF ClearAnchor, Command, Locked, Done
    <2>5. QED
      BY <2>3, <2>4
  <1>3. QED
    BY <1>1, <1>2

---------------------------------------------------------------------------
(* The steps that only move their process *)

LEMMA MovesKeepIInv ==
    ASSUME IInv, NEW p \in Procs,
           \/ ForceOverwrite(p) \/ ReadDisk(p) \/ RefreshCurrent(p)
           \/ Refreshed(p) \/ CheckAnchor(p) \/ LoopStep(p)
    PROVE  IInv'
  <1> DEFINE Moves == \E l \in PCs \ {"commit"}, a \in Ids \cup {None} :
                        (l \notin {"idle", "align"} => a \in Ids) /\ Goto(p, l, a)
  <1>t. TypeOK
    BY DEF IInv
  <1>1. lock = Free /\ UNCHANGED <<store, files, lock, bounds>>
    BY DEF ForceOverwrite, ReadDisk, RefreshCurrent, Refreshed, CheckAnchor,
           LoopStep, Tick, Restamp, AnchorRotated, Command, Locked
  <1>2. SUFFICES Moves
    BY <1>1, MoveOnly
  <1>3. CASE ForceOverwrite(p)
    BY <1>3, <1>t DEF ForceOverwrite, TypeOK, PCs
  <1>4. CASE ReadDisk(p)
    BY <1>4, <1>t DEF ReadDisk, TypeOK, PCs
  <1>5. CASE RefreshCurrent(p)
    BY <1>5, <1>t DEF RefreshCurrent, TypeOK, PCs
  <1>6. CASE Refreshed(p)
    <2>1. img[p] \in Ids
      BY <1>6, <1>t DEF Refreshed, Locked, TypeOK
    <2>2. QED
      BY <1>6, <2>1 DEF Refreshed, Done, PCs
  <1>7. CASE CheckAnchor(p)
    <2>1. img[p] \in Ids
      BY <1>7, <1>t DEF CheckAnchor, Locked, TypeOK
    <2>2. QED
      BY <1>7, <2>1 DEF CheckAnchor, Done, PCs
  <1>8. CASE Tick(p)
    BY <1>8, <1>t DEF Tick, TypeOK, PCs
  <1>9. CASE Restamp(p)
    <2>1. img[p] \in Ids
      BY <1>9, <1>t DEF Restamp, Locked, TypeOK
    <2>2. QED
      BY <1>9, <2>1 DEF Restamp, Done, PCs
  <1>10. CASE AnchorRotated(p)
    <2>1. img[p] \in Ids
      BY <1>10, <1>t DEF AnchorRotated, Locked, TypeOK
    <2>2. QED
      BY <1>10, <2>1 DEF AnchorRotated, Done, PCs
  <1>11. QED
    BY <1>3, <1>4, <1>5, <1>6, <1>7, <1>8, <1>9, <1>10 DEF LoopStep

LEMMA AlignKeepsIInv ==
    ASSUME IInv, NEW u \in Procs, AlignWithDisk(u)
    PROVE  IInv'
  <1>1. Goto(u, "idle", None) /\ lock = Free /\ UNCHANGED <<accounts, anchors, files, lock, bounds>>
    BY DEF AlignWithDisk, Locked, Done
  <1>2. current' \in accounts \cup {None}
    BY DEF AlignWithDisk, IInv, CurrentKnown
  <1>3. TypeOK'
    BY <1>1, <1>2, GotoMoves DEF IInv, TypeOK, PCs, files, bounds
  <1>4. LockCoversWrite' /\ SwitchKeepsAnchor'
    BY <1>1, FreeStep DEF PCs
  <1>5. QED
    BY <1>1, <1>2, <1>3, <1>4 DEF IInv, CurrentKnown, AnchorsAgree

(* A rotation is given up whether or not another process keeps the mutex.  *)
LEMMA RotationFailsKeepsIInv ==
    ASSUME IInv, NEW p \in Procs, RotationFails(p)
    PROVE  IInv'
  <1> USE DEF IInv
  <1>1. /\ pc' \in [Procs -> PCs]
        /\ img' \in [Procs -> Ids \cup {None}]
        /\ \A q \in Procs : pc'[q] \notin {"idle", "align"} => img'[q] \in Ids
        /\ pc'[p] = "idle"
        /\ \A q \in Procs \ {p} : pc'[q] = pc[q] /\ img'[q] = img[q]
    BY GotoMoves DEF RotationFails, Done, PCs
  <1>2. TypeOK'
    BY <1>1 DEF RotationFails, TypeOK, store, files, bounds
  <1>3. lock # p
    BY DEF RotationFails, LockCoversWrite
  <1>4. LockCoversWrite' /\ SwitchKeepsAnchor'
    BY <1>1, <1>3 DEF RotationFails, LockCoversWrite, SwitchKeepsAnchor, store
  <1>5. QED
    BY <1>2, <1>4, StoreKept DEF RotationFails

LEMMA EnvironmentKeepsIInv ==
    ASSUME IInv, CodexLogin \/ Restart
    PROVE  IInv'
  <1> USE DEF IInv
  <1>1. CASE CodexLogin
    <2>1. TypeOK'
      BY <1>1 DEF CodexLogin, TypeOK, store, procs, bounds
    <2>2. LockCoversWrite' /\ SwitchKeepsAnchor'
      BY <1>1 DEF CodexLogin, LockCoversWrite, SwitchKeepsAnchor, store, procs
    <2>3. QED
      BY <1>1, <2>1, <2>2, StoreKept DEF CodexLogin
  <1>2. CASE Restart
    <2>1. disk' \in Ids \cup {None} /\ tmp' \in Ids \cup {None}
      BY <1>2 DEF Restart, files, TypeOK
    <2>2. TypeOK'
      BY <1>2, <2>1, BoundAssumption DEF Restart, TypeOK, store, PCs
    <2>3. LockCoversWrite' /\ SwitchKeepsAnchor'
      BY <1>2, ProcAssumption DEF Restart, LockCoversWrite, SwitchKeepsAnchor
    <2>4. QED
      BY <1>2, <2>2, <2>3, StoreKept DEF Restart
  <1>3. QED
    BY <1>1, <1>2

---------------------------------------------------------------------------

LEMMA NextKeepsIInv == IInv /\ [Next]_vars => IInv'
  <1> SUFFICES ASSUME IInv, [Next]_vars PROVE IInv'
    OBVIOUS
  <1>1. ASSUME NEW p \in Procs, Step(p) PROVE IInv'
    <2>1. CASE Write(p)
      BY <2>1, WritesKeepIInv
    <2>2. CASE ChooseTarget(p) \/ SwitchTarget(p) \/ SwitchNow(p)
      BY <2>2, SwitchesKeepIInv
    <2>3. CASE RotationFails(p)
      BY <2>3, RotationFailsKeepsIInv
    <2>4. CASE UserStep(p)
      BY <2>4, ListKeepsIInv, AnchorCommandsKeepIInv, MovesKeepIInv, AlignKeepsIInv
      DEF UserStep
    <2>5. CASE RequestStep(p)
      BY <2>5, SwitchesKeepIInv, MovesKeepIInv DEF RequestStep
    <2>6. CASE LoopStep(p)
      BY <2>6, MovesKeepIInv
    <2>7. QED
      BY <1>1, <2>1, <2>2, <2>3, <2>4, <2>5, <2>6 DEF Step
  <1>2. CASE UNCHANGED vars
    <2>1. TypeOK'
      BY <1>2 DEF IInv, TypeOK, vars, store, files, procs, bounds
    <2>2. LockCoversWrite' /\ SwitchKeepsAnchor'
      BY <1>2 DEF IInv, LockCoversWrite, SwitchKeepsAnchor, vars, store, procs
    <2>3. QED
      BY <1>2, <2>1, <2>2, StoreKept DEF IInv, vars
  <1>3. QED
    BY <1>1, <1>2, EnvironmentKeepsIInv DEF Next

(* Every reachable state satisfies the inductive invariant.                *)
THEOREM Invariance == Spec => []IInv
  BY InitIInv, NextKeepsIInv, PTL DEF Spec

(* The types of AnchorDisk hold for all parameters.                        *)
THEOREM TypeCorrect == Spec => []TypeOK
  <1>1. IInv => TypeOK
    BY DEF IInv
  <1>2. QED
    BY <1>1, Invariance, PTL

(* No order of commands, late switches, deletions, failed writes and       *)
(* restarts leaves a current account that is not in the list.              *)
THEOREM CurrentIsKnown == Spec => []CurrentKnown
  <1>1. IInv => CurrentKnown
    BY DEF IInv
  <1>2. QED
    BY <1>1, Invariance, PTL

(* On a host that exchanges no account records there is never a second     *)
(* anchor, and the anchor is a subscription of the list.                   *)
THEOREM OneAnchorHolds == Spec => []OneAnchor
  <1>1. ASSUME IInv PROVE OneAnchor
    <2>1. anchors = {} => Cardinality(anchors) = 0
      BY FS_EmptySet
    <2>2. ASSUME NEW a \in anchors PROVE Cardinality(anchors) = 1
      <3>1. anchors = {a}
        BY <1>1 DEF IInv, AnchorsAgree
      <3>2. QED
        BY <3>1, FS_Singleton
    <2>3. Cardinality(anchors) <= 1
      BY <2>1, <2>2, FS_EmptySet
    <2>4. QED
      BY <1>1, <2>3 DEF IInv, OneAnchor
  <1>2. QED
    BY <1>1, Invariance, PTL

(* While a switch keeps the mutex over its write, its target stays in the  *)
(* list and no other account becomes the anchor.                           *)
THEOREM SwitchKeepsTheAnchor == Spec => []SwitchKeepsAnchor
  <1>1. IInv => SwitchKeepsAnchor
    BY DEF IInv
  <1>2. QED
    BY <1>1, Invariance, PTL
=============================================================================
