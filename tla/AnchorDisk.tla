----------------------------- MODULE AnchorDisk -----------------------------
(***************************************************************************)
(* Who owns ~/.codex/auth.json: the account list, the current account, the *)
(* phone anchor and the file, on a host that decides by itself             *)
(* (remote_mode "off" and "server").  Account records that other hosts     *)
(* push or pull are not part of it.                                        *)
(*                                                                         *)
(* Every access to the AccountStore is one step under its mutex, except    *)
(* that switch_to keeps the mutex while it writes the file; the other      *)
(* writers of the file decide under the mutex and write after they         *)
(* released it.  A write is the two steps of write_codex_auth: fill the    *)
(* temporary file, whose name all writers share, then rename it.  The file *)
(* is abstracted to the account whose tokens it holds (TokenRotation says  *)
(* which generation of them).                                              *)
(***************************************************************************)
EXTENDS Naturals, FiniteSets

CONSTANTS
    Ids,            \* account ids
    OAuth,          \* those that are ChatGPT subscriptions, the others relays
    None,           \* no account, no file
    Free,           \* nobody holds the store's mutex
    Users,          \* threads that run commands of the UI and of the clients
    Requests,       \* proxy requests
    Loops,          \* instances of start_anchor_refresh (one in the program)
    Commands,       \* the commands the users give
    MaxFailures,    \* bound: failed writes of the temporary file
    MaxRestarts,    \* bound: restarts of the process
    CanLogin        \* whether "codex login" replaces auth.json

Procs == Users \cup Requests \cup Loops

AllCommands == {"add", "delete", "remove", "switch", "archive", "anchor",
                "clear", "force", "align", "import"}

ASSUME IdAssumption ==
    /\ OAuth \subseteq Ids
    /\ None \notin Ids
ASSUME ProcAssumption ==
    /\ Users \cap Requests = {}
    /\ Users \cap Loops = {}
    /\ Requests \cap Loops = {}
    /\ Free \notin Procs
    /\ Commands \subseteq AllCommands
ASSUME BoundAssumption ==
    /\ MaxFailures \in Nat
    /\ MaxRestarts \in Nat
    /\ CanLogin \in BOOLEAN

PCs == {"idle", "target", "align", "refresh", "check", "tick", "rotate",
        "tmp", "rename", "commit"}

VARIABLES
    accounts,   \* AccountStore.accounts
    current,    \* AccountStore.current
    anchors,    \* accounts with is_session_anchor
    disk,       \* whose tokens auth.json holds
    tmp,        \* whose tokens auth.tmp holds
    lock,       \* the process that keeps the store's mutex over a write
    pc,         \* where each process is
    img,        \* the account a process works on, whose image it writes
    failures,   \* failed writes so far
    restarts    \* restarts so far

store == <<accounts, current, anchors>>
files == <<disk, tmp>>
procs == <<lock, pc, img>>
bounds == <<failures, restarts>>
vars == <<store, files, procs, bounds>>

TypeOK ==
    /\ accounts \in SUBSET Ids
    /\ current \in Ids \cup {None}
    /\ anchors \in SUBSET Ids
    /\ disk \in Ids \cup {None}
    /\ tmp \in Ids \cup {None}
    /\ lock \in Procs \cup {Free}
    /\ pc \in [Procs -> PCs]
    /\ img \in [Procs -> Ids \cup {None}]
    /\ \A p \in Procs : pc[p] \notin {"idle", "align"} => img[p] \in Ids
    /\ failures \in 0 .. MaxFailures
    /\ restarts \in 0 .. MaxRestarts

Init ==
    /\ accounts = {}
    /\ current = None
    /\ anchors = {}
    /\ disk \in Ids \cup {None}
    /\ tmp = None
    /\ lock = Free
    /\ pc = [p \in Procs |-> "idle"]
    /\ img = [p \in Procs |-> None]
    /\ failures = 0
    /\ restarts = 0

---------------------------------------------------------------------------
(* Helpers *)

(* should_write_disk_for *)
MayWriteDisk(a) == anchors \subseteq {a}

(* A process goes to l, working on a. *)
Goto(p, l, a) ==
    /\ pc' = [pc EXCEPT ![p] = l]
    /\ img' = [img EXCEPT ![p] = a]

Done(p) == Goto(p, "idle", None)

(* A step of p that takes the store's mutex and gives it back. *)
Locked(p, l) == pc[p] = l /\ lock = Free

(* A command a user gives. *)
Command(u, c) ==
    /\ u \in Users
    /\ c \in Commands
    /\ Locked(u, "idle")

---------------------------------------------------------------------------
(* write_codex_auth *)

WriteTmp(p) ==
    /\ pc[p] = "tmp"
    /\ tmp' = img[p]
    /\ Goto(p, "rename", img[p])
    /\ UNCHANGED <<store, disk, lock, bounds>>

(* The error of a write returns through all its callers. *)
Fail(p) ==
    /\ lock' = IF lock = p THEN Free ELSE lock
    /\ Done(p)

WriteTmpFails(p) ==
    /\ pc[p] = "tmp"
    /\ failures < MaxFailures
    /\ failures' = failures + 1
    /\ Fail(p)
    /\ UNCHANGED <<store, files, restarts>>

(* What is published is what the temporary file holds now. *)
Rename(p) ==
    /\ pc[p] = "rename"
    /\ tmp # None
    /\ disk' = tmp
    /\ tmp' = None
    /\ IF lock = p THEN Goto(p, "commit", img[p]) ELSE Done(p)
    /\ UNCHANGED <<store, lock, bounds>>

(* Another writer renamed the file away. *)
RenameFails(p) ==
    /\ pc[p] = "rename"
    /\ tmp = None
    /\ Fail(p)
    /\ UNCHANGED <<store, files, bounds>>

---------------------------------------------------------------------------
(* switch_to: under the mutex to its end *)

(* Mutant: the target may have been deleted in the meantime. *)
SwitchToUnchecked(p, b) ==
    IF ~MayWriteDisk(b)
    THEN Done(p) /\ current' = b /\ UNCHANGED lock
    ELSE Goto(p, "tmp", b) /\ lock' = p /\ UNCHANGED current

SwitchTo(p, b) ==
    IF b \notin accounts
    THEN Done(p) /\ UNCHANGED <<current, lock>>
    ELSE IF ~MayWriteDisk(b)
    THEN Done(p) /\ current' = b /\ UNCHANGED lock
    ELSE Goto(p, "tmp", b) /\ lock' = p /\ UNCHANGED current

(* The file was written: the pointer follows, accounts.json is saved. *)
Commit(p) ==
    /\ pc[p] = "commit"
    /\ current' = img[p]
    /\ lock' = Free
    /\ Done(p)
    /\ UNCHANGED <<accounts, anchors, files, bounds>>

(* The target is chosen before the mutex is taken again: switch_account    *)
(* checks it and queries its quota first, try_switch_and_retry takes it    *)
(* from pick_next_account.                                                 *)
ChooseTarget(p) ==
    /\ Command(p, "switch") \/ (p \in Requests /\ Locked(p, "idle"))
    /\ \E b \in accounts : Goto(p, "target", b) /\ (p \in Requests => b # current)
    /\ UNCHANGED <<store, files, lock, bounds>>

SwitchTarget(p) ==
    /\ Locked(p, "target")
    /\ SwitchTo(p, img[p])
    /\ UNCHANGED <<accounts, anchors, files, bounds>>

(* The target is chosen under the same mutex: handle_switch of the server, *)
(* restore_current_if_flagged, switch_to_ready_plus_if_needed.             *)
SwitchNow(p) ==
    /\ p \in Requests
    /\ Locked(p, "idle")
    /\ \E b \in accounts \ {current} : SwitchTo(p, b)
    /\ UNCHANGED <<accounts, anchors, files, bounds>>

---------------------------------------------------------------------------
(* The account list *)

(* add_account: the first account becomes current; the file stays. *)
AddAccount(u) ==
    /\ Command(u, "add")
    /\ \E a \in Ids \ accounts :
          /\ accounts' = accounts \cup {a}
          /\ current' = IF current = None THEN a ELSE current
    /\ UNCHANGED <<anchors, files, procs, bounds>>

(* The delete_account command leaves no account current. *)
DeleteAccount(u) ==
    /\ Command(u, "delete")
    /\ \E a \in accounts :
          /\ accounts' = accounts \ {a}
          /\ anchors' = anchors \ {a}
          /\ current' = IF current = a THEN None ELSE current
    /\ UNCHANGED <<files, procs, bounds>>

(* handle_delete of the server goes to AccountStore::delete_account, which *)
(* makes any other account current.                                        *)
RemoveAccount(u) ==
    /\ Command(u, "remove")
    /\ \E a \in accounts :
          /\ accounts' = accounts \ {a}
          /\ anchors' = anchors \ {a}
          /\ IF current # a THEN current' = current
             ELSE IF accounts' = {} THEN current' = None
             ELSE current' \in accounts'
    /\ UNCHANGED <<files, procs, bounds>>

(* import_accounts replaces the whole store by an exported one. *)
ImportAccounts(u) ==
    /\ Command(u, "import")
    /\ accounts' \in SUBSET Ids
    /\ current' \in accounts' \cup {None}
    /\ anchors' \in {{}} \cup {{a} : a \in accounts' \cap OAuth}
    /\ UNCHANGED <<files, procs, bounds>>

(* handle_solo_current with apply_to_disk = false: only the pointer *)
ArchiveCurrent(u) ==
    /\ Command(u, "archive")
    /\ current' \in accounts
    /\ UNCHANGED <<accounts, anchors, files, procs, bounds>>

---------------------------------------------------------------------------
(* set_session_anchor: decided under the mutex, written after it *)

SetAnchor(u) ==
    /\ Command(u, "anchor")
    /\ \E a \in accounts \cap OAuth :
          /\ anchors' = {a}
          /\ Goto(u, "tmp", a)
    /\ UNCHANGED <<accounts, current, files, lock, bounds>>

(* Mutant: a store without a current account is not considered. *)
ClearAnchorBlind(u) ==
    /\ Command(u, "clear")
    /\ \E a \in accounts : anchors' = anchors \ {a}
    /\ Goto(u, "tmp", current)
    /\ UNCHANGED <<accounts, current, files, lock, bounds>>

(* The current account is written, whatever the account was and whether    *)
(* or not another one is the anchor.                                       *)
ClearAnchor(u) ==
    /\ Command(u, "clear")
    /\ \E a \in accounts : anchors' = anchors \ {a}
    /\ IF current \in accounts THEN Goto(u, "tmp", current) ELSE Done(u)
    /\ UNCHANGED <<accounts, current, files, lock, bounds>>

(* force_overwrite_disk_with_current: asks for no anchor *)
ForceOverwrite(u) ==
    /\ Command(u, "force")
    /\ current \in accounts
    /\ Goto(u, "tmp", current)
    /\ UNCHANGED <<store, files, lock, bounds>>

(* sync_active_with_disk reads the file before it takes the mutex; it is   *)
(* refused while the anchor is not the current account.                    *)
ReadDisk(u) ==
    /\ Command(u, "align")
    /\ disk # None
    /\ Goto(u, "align", disk)
    /\ UNCHANGED <<store, files, lock, bounds>>

AlignWithDisk(u) ==
    /\ Locked(u, "align")
    /\ current' = IF anchors \subseteq {current} /\ img[u] \in accounts
                  THEN img[u] ELSE current
    /\ Done(u)
    /\ UNCHANGED <<accounts, anchors, files, lock, bounds>>

---------------------------------------------------------------------------
(* A proxy request that refreshes the current account and mirrors it to    *)
(* the file: silent_refresh_current, write_codex_auth_respecting_anchor    *)

RefreshCurrent(r) ==
    /\ r \in Requests
    /\ Locked(r, "idle")
    /\ current \in accounts \cap OAuth
    /\ Goto(r, "refresh", current)
    /\ UNCHANGED <<store, files, lock, bounds>>

(* The answer is applied if the account is still there. *)
Refreshed(r) ==
    /\ r \in Requests
    /\ Locked(r, "refresh")
    /\ IF img[r] \in accounts THEN Goto(r, "check", img[r]) ELSE Done(r)
    /\ UNCHANGED <<store, files, lock, bounds>>

(* The permission is asked for under the mutex, and used after it. *)
CheckAnchor(r) ==
    /\ r \in Requests
    /\ Locked(r, "check")
    /\ IF MayWriteDisk(img[r]) THEN Goto(r, "tmp", img[r]) ELSE Done(r)
    /\ UNCHANGED <<store, files, lock, bounds>>

---------------------------------------------------------------------------
(* start_anchor_refresh *)

Tick(n) ==
    /\ n \in Loops
    /\ Locked(n, "idle")
    /\ \E a \in anchors : Goto(n, "tick", a)
    /\ UNCHANGED <<store, files, lock, bounds>>

(* Mutant: an anchor that is current is left to the other writers. *)
RestampSkips(n) ==
    /\ n \in Loops
    /\ Locked(n, "tick")
    /\ IF current = img[n] THEN Done(n) ELSE Goto(n, "rotate", img[n])
    /\ UNCHANGED <<store, files, lock, bounds>>

(* An anchor that is current is only written again, any other is rotated. *)
Restamp(n) ==
    /\ n \in Loops
    /\ Locked(n, "tick")
    /\ IF current = img[n] /\ img[n] \in anchors
       THEN Goto(n, "tmp", img[n])
       ELSE Goto(n, "rotate", img[n])
    /\ UNCHANGED <<store, files, lock, bounds>>

AnchorRotated(n) ==
    /\ n \in Loops
    /\ Locked(n, "rotate")
    /\ IF img[n] \in anchors THEN Goto(n, "tmp", img[n]) ELSE Done(n)
    /\ UNCHANGED <<store, files, lock, bounds>>

RotationFails(p) ==
    /\ pc[p] \in {"rotate", "refresh"}
    /\ Done(p)
    /\ UNCHANGED <<store, files, lock, bounds>>

---------------------------------------------------------------------------
(* The environment *)

(* "codex login" writes the file of any account. *)
CodexLogin ==
    /\ CanLogin
    /\ disk' \in Ids
    /\ UNCHANGED <<store, tmp, procs, bounds>>

(* The process ends, at an exit with the anchor's file written once more   *)
(* (restore_anchor_disk_on_exit), in a crash at any point, and starts with *)
(* what accounts.json holds.                                               *)
Restart ==
    /\ restarts < MaxRestarts
    /\ restarts' = restarts + 1
    /\ \/ UNCHANGED files
       \/ lock = Free /\ disk' \in anchors /\ tmp' = None
    /\ lock' = Free
    /\ pc' = [p \in Procs |-> "idle"]
    /\ img' = [p \in Procs |-> None]
    /\ UNCHANGED <<store, failures>>

---------------------------------------------------------------------------

Write(p) == WriteTmp(p) \/ WriteTmpFails(p) \/ Rename(p) \/ RenameFails(p) \/ Commit(p)

UserStep(u) ==
    \/ AddAccount(u) \/ DeleteAccount(u) \/ RemoveAccount(u) \/ ImportAccounts(u)
    \/ ArchiveCurrent(u) \/ SetAnchor(u) \/ ClearAnchor(u) \/ ForceOverwrite(u)
    \/ ReadDisk(u) \/ AlignWithDisk(u)

RequestStep(r) == SwitchNow(r) \/ RefreshCurrent(r) \/ Refreshed(r) \/ CheckAnchor(r)

LoopStep(n) == Tick(n) \/ Restamp(n) \/ AnchorRotated(n)

Step(p) ==
    \/ Write(p) \/ ChooseTarget(p) \/ SwitchTarget(p) \/ RotationFails(p)
    \/ UserStep(p) \/ RequestStep(p) \/ LoopStep(p)

Next == (\E p \in Procs : Step(p)) \/ CodexLogin \/ Restart

Spec == Init /\ [][Next]_vars

(* A write that was begun goes on, whoever holds the mutex gives it back,  *)
(* and the loop wakes up every four minutes; nothing makes a user act.     *)
FairSpec ==
    /\ Spec
    /\ \A p \in Procs : WF_vars(Write(p))
    /\ \A n \in Loops : SF_vars(Tick(n)) /\ SF_vars(Restamp(n) \/ AnchorRotated(n))

---------------------------------------------------------------------------
(* Properties *)

(* The current account is in the list, or there is none: no command that   *)
(* finishes late leaves a pointer to an account deleted in the meantime.   *)
CurrentKnown == current \in accounts \cup {None}

(* At most one account is the anchor, a subscription of the list           *)
(* (account.rs:433, set_session_anchor).                                   *)
OneAnchor ==
    /\ anchors \subseteq accounts \cap OAuth
    /\ Cardinality(anchors) <= 1

(* What switch_to decided holds until it has finished: its target is in    *)
(* the list, and no other account has become the anchor under its write.   *)
SwitchKeepsAnchor ==
    \A p \in Procs : lock = p => img[p] \in accounts /\ anchors \subseteq {img[p]}

(* An anchor that is the current account gets its file back, whatever took *)
(* it away: a late write, a forced one or "codex login".                   *)
AnchorHeals ==
    \A a \in Ids : <>[](anchors = {a} /\ current = a) => []<>(disk = a)

=============================================================================
