----------------------------- MODULE AccountSync -----------------------------
(***************************************************************************)
(* The account lists of several hosts and of the server they follow        *)
(* (remote_mode "client", with client_owns_current): accounts are added,    *)
(* renamed and deleted on any of them, whole records are pushed and pulled, *)
(* and the quota loop of every host pushes what the server lacks and then   *)
(* prunes what it still lacks.                                              *)
(*                                                                         *)
(* Their fast loop fetches the token of the account that is current and     *)
(* makes it current again, for a host that owns its pointer does not ask    *)
(* which one is current on the server.                                     *)
(*                                                                         *)
(* A handler of the server runs under the mutex of its store and is one     *)
(* step.  On a host a step runs between two awaits; each host runs its two  *)
(* loops and one command of its user at a time.  A request may fail before  *)
(* it reaches the server or after the server obeyed it.                     *)
(*                                                                         *)
(* A record is the id it was created under, which stands for its created_at.*)
(* Two ids with the same Login have the same e-mail and the same identity   *)
(* in their tokens.                                                         *)
(***************************************************************************)
EXTENDS Naturals

CONSTANTS
    Hosts, Server,
    Accounts, NoAccount,
    Login,          \* [Accounts -> logins]: e-mail and identity of each id
    Absent,         \* no record under this id
    MaxFaults,      \* bound: requests that fail
    MaxCommands     \* bound: commands of the users other than logins, and
                    \* rounds of the fast loops

ASSUME SyncAssumption ==
    /\ Server \notin Hosts
    /\ NoAccount \notin Accounts
    /\ Absent \notin Accounts
    /\ MaxFaults \in Nat
    /\ MaxCommands \in Nat

VARIABLES
    rec,       \* AccountStore.accounts of each node
    age,       \* "unborn", "young" (created less than ten minutes ago), "old"
    current,   \* AccountStore.current of each host
    sync,      \* the quota loop of each host
    fast,      \* the fast loop of each host: whose token it asked the server for
    user,      \* the command of each host's user
    faults,
    commands,
    deleted,   \* ghost: logins some user deleted
    unlucky,   \* ghost: logins pruned in a round in which their push failed
    revived    \* ghost: ids each fast loop made current when they had left the list

vars == <<rec, age, current, sync, user, faults, commands, deleted, unlucky,
          fast, revived>>

Nodes == Hosts \cup {Server}
Copies == [Accounts -> Accounts \cup {Absent}]

Ids(n) == {x \in Accounts : rec[n][x] # Absent}
Nothing == [x \in Accounts |-> Absent]
Young(r) == age[r] = "young"

Idle == [op |-> "idle", acct |-> NoAccount, into |-> NoAccount, snap |-> Nothing]
Sleeping == [acct |-> NoAccount, answered |-> FALSE]
Waiting == [pc |-> "idle", ids |-> {}, cands |-> Nothing, failed |-> {}]

\* Type invariant.  The current account of a host is in its list, for deletion,
\* prune and the rename after a merge take the pointer along (lib.rs:521, 2594,
\* 5740, 1139), or its fast loop put it back there after it had left (lib.rs:1881).
TypeOK ==
    /\ rec \in [Nodes -> Copies]
    /\ age \in [Accounts -> {"unborn", "young", "old"}]
    /\ current \in [Hosts -> Accounts \cup {NoAccount}]
    /\ fast \in [Hosts -> [acct : Accounts \cup {NoAccount}, answered : BOOLEAN]]
    /\ \A h \in Hosts : fast[h].answered => fast[h].acct # NoAccount
    /\ revived \in [Hosts -> SUBSET Accounts]
    /\ \A h \in Hosts : current[h] \in Ids(h) \cup revived[h] \cup {NoAccount}
    /\ sync \in [Hosts -> [pc : {"idle", "got", "push"}, ids : SUBSET Accounts,
                           cands : Copies, failed : SUBSET Accounts]]
    /\ user \in [Hosts -> [op : {"idle", "push", "sending", "rename", "remove",
                                 "list", "insert"},
                           acct : Accounts \cup {NoAccount},
                           into : Accounts \cup {NoAccount}, snap : Copies]]
    /\ faults \in 0..MaxFaults
    /\ commands \in 0..MaxCommands
    /\ deleted \subseteq {Login[x] : x \in Accounts}
    /\ unlucky \subseteq {Login[x] : x \in Accounts}

Init ==
    /\ rec = [n \in Nodes |-> Nothing]
    /\ age = [x \in Accounts |-> "unborn"]
    /\ current = [h \in Hosts |-> NoAccount]
    /\ sync = [h \in Hosts |-> Waiting]
    /\ user = [h \in Hosts |-> Idle]
    /\ fast = [h \in Hosts |-> Sleeping]
    /\ faults = 0
    /\ commands = 0
    /\ deleted = {}
    /\ unlucky = {}
    /\ revived = [h \in Hosts |-> {}]

(***************************************************************************)
(* The server's handlers.                                                  *)
(***************************************************************************)
SameLogin(x) == {y \in Ids(Server) : Login[y] = Login[x]}

\* Mutant: an unknown id is always a new account.
FinalIdsNoMerge(x) == {x}

\* handle_upsert: the ids a pushed record may be stored under.
FinalIds(x) ==
    IF x \in Ids(Server) \/ SameLogin(x) = {} THEN {x} ELSE SameLogin(x)

\* A record merged into another id keeps the creation date found there.
Written(x, r, f) == IF f = x THEN r ELSE rec[Server][f]

Upsert(x, r, f) == rec' = [rec EXCEPT ![Server][f] = Written(x, r, f)]

Fault == faults < MaxFaults /\ faults' = faults + 1
Command == commands < MaxCommands /\ commands' = commands + 1

(***************************************************************************)
(* Commands of a user.                                                     *)
(***************************************************************************)
Start(h, task) == user[h].op = "idle" /\ user' = [user EXCEPT ![h] = task]
Finish(h) == user' = [user EXCEPT ![h] = Idle]

\* The first account of a host becomes its current one.
AddAccount(h, x) ==
    /\ rec' = [rec EXCEPT ![h][x] = x]
    /\ current' = [current EXCEPT ![h] = IF @ = NoAccount THEN x ELSE @]

\* save_token_as_account: stored and saved here, then pushed.
LogIn(h, x) ==
    /\ age[x] = "unborn"
    /\ age' = [age EXCEPT ![x] = "young"]
    /\ AddAccount(h, x)
    /\ Start(h, [Idle EXCEPT !.op = "push", !.acct = x])
    /\ UNCHANGED <<sync, faults, deleted, unlucky, commands, fast, revived>>

\* The snapshot that is pushed; the account may have been deleted meanwhile.
Snapshot(h) ==
    LET x == user[h].acct IN
    /\ user[h].op = "push"
    /\ IF x \in Ids(h)
       THEN user' = [user EXCEPT ![h].op = "sending",
                                 ![h].snap = [Nothing EXCEPT ![x] = rec[h][x]]]
       ELSE Finish(h)
    /\ UNCHANGED <<rec, age, current, sync, faults, deleted, unlucky, commands, fast, revived>>

\* remote_push_account.
PushAccount(h, x) ==
    /\ Command
    /\ x \in Ids(h)
    /\ Start(h, [Idle EXCEPT !.op = "sending", !.acct = x,
                             !.snap = [Nothing EXCEPT ![x] = rec[h][x]]])
    /\ UNCHANGED <<rec, age, current, sync, faults, deleted, unlucky, fast, revived>>

Pushed(h) ==
    LET x == user[h].acct IN
    /\ user[h].op = "sending"
    /\ \E f \in FinalIds(x) :
          /\ Upsert(x, user[h].snap[x], f)
          /\ IF f = x
             THEN Finish(h)
             ELSE user' = [user EXCEPT ![h] = [Idle EXCEPT !.op = "rename",
                                                 !.acct = x, !.into = f]]
    /\ UNCHANGED <<age, current, sync, faults, deleted, unlucky, commands, fast, revived>>

\* The server obeyed and its answer was lost.
PushAnswerLost(h) ==
    LET x == user[h].acct IN
    /\ user[h].op = "sending"
    /\ Fault
    /\ \E f \in FinalIds(x) : Upsert(x, user[h].snap[x], f)
    /\ Finish(h)
    /\ UNCHANGED <<age, current, sync, deleted, unlucky, commands, fast, revived>>

\* A request that did not reach the server: push, delete or list.
RequestFails(h) ==
    /\ user[h].op \in {"sending", "remove", "list"}
    /\ Fault
    /\ Finish(h)
    /\ UNCHANGED <<rec, age, current, sync, deleted, unlucky, commands, fast, revived>>

\* Mutant: the renamed account stays current under the id it had.
RenameKeepsPointer(h) ==
    LET x == user[h].acct
        f == user[h].into
    IN  /\ user[h].op = "rename"
        /\ rec' = IF x \in Ids(h)
                  THEN [rec EXCEPT ![h][x] = Absent, ![h][f] = rec[h][x]]
                  ELSE rec
        /\ Finish(h)
        /\ UNCHANGED <<age, current, sync, faults, deleted, unlucky, commands, fast, revived>>

\* The server merged the account into another id: the host renames its own.
Rename(h) ==
    LET x == user[h].acct
        f == user[h].into
    IN  /\ user[h].op = "rename"
        /\ IF x \in Ids(h)
           THEN /\ rec' = [rec EXCEPT ![h][x] = Absent, ![h][f] = rec[h][x]]
                /\ current' = [current EXCEPT ![h] = IF @ = x THEN f ELSE @]
           ELSE UNCHANGED <<rec, current>>
        /\ Finish(h)
        /\ UNCHANGED <<age, sync, faults, deleted, unlucky, commands, fast, revived>>

\* Mutant: the command forgets that the account may be current.
DeleteAccountKeepsPointer(h, x) ==
    /\ Command
    /\ x \in Ids(h)
    /\ rec' = [rec EXCEPT ![h][x] = Absent]
    /\ deleted' = deleted \cup {Login[x]}
    /\ Start(h, [Idle EXCEPT !.op = "remove", !.acct = x])
    /\ UNCHANGED <<age, current, sync, faults, unlucky, fast, revived>>

\* delete_account: here first, then on the server.
DeleteAccount(h, x) ==
    /\ Command
    /\ x \in Ids(h)
    /\ rec' = [rec EXCEPT ![h][x] = Absent]
    /\ current' = [current EXCEPT ![h] = IF @ = x THEN NoAccount ELSE @]
    /\ deleted' = deleted \cup {Login[x]}
    /\ Start(h, [Idle EXCEPT !.op = "remove", !.acct = x])
    /\ UNCHANGED <<age, sync, faults, unlucky, fast, revived>>

\* handle_delete; an id the server does not have is an error and nothing more.
RemoteDelete(h) ==
    /\ user[h].op = "remove"
    /\ rec' = [rec EXCEPT ![Server][user[h].acct] = Absent]
    /\ Finish(h)
    /\ UNCHANGED <<age, current, sync, faults, deleted, unlucky, commands, fast, revived>>

\* The server's own user, or remote_delete_account_cmd of a host.
ServerDelete(x) ==
    /\ Command
    /\ x \in Ids(Server)
    /\ rec' = [rec EXCEPT ![Server][x] = Absent]
    /\ deleted' = deleted \cup {Login[x]}
    /\ UNCHANGED <<age, current, sync, user, faults, unlucky, fast, revived>>

\* remote_pull_all; remote_refresh_account_quota after a refusal, for x alone.
AskList(h, x) ==
    /\ Command
    /\ Start(h, [Idle EXCEPT !.op = "list", !.acct = x])
    /\ UNCHANGED <<rec, age, current, sync, faults, deleted, unlucky, fast, revived>>

Listed(h) ==
    LET x == user[h].acct IN
    /\ user[h].op = "list"
    /\ user' = [user EXCEPT ![h].op = "insert",
                            ![h].snap = [y \in Accounts |->
                               IF x \in {NoAccount, y} THEN rec[Server][y] ELSE Absent]]
    /\ UNCHANGED <<rec, age, current, sync, faults, deleted, unlucky, commands, fast, revived>>

Insert(h) ==
    /\ user[h].op = "insert"
    /\ rec' = [rec EXCEPT ![h] = [y \in Accounts |->
                 IF user[h].snap[y] = Absent THEN @[y] ELSE user[h].snap[y]]]
    /\ Finish(h)
    /\ UNCHANGED <<age, current, sync, faults, deleted, unlucky, commands, fast, revived>>

\* switch_account and the Plus watch, as far as the list is concerned.
SwitchTo(h, x) ==
    /\ Command
    /\ x \in Ids(h)
    /\ current' = [current EXCEPT ![h] = x]
    /\ UNCHANGED <<rec, age, sync, user, faults, deleted, unlucky, fast, revived>>

(***************************************************************************)
(* The quota loop of a host.                                               *)
(***************************************************************************)
\* GET /quotas: the ids the server has.
Fetch(h) ==
    /\ sync[h].pc = "idle"
    /\ sync' = [sync EXCEPT ![h] = [Waiting EXCEPT !.pc = "got", !.ids = Ids(Server)]]
    /\ UNCHANGED <<rec, age, current, user, faults, deleted, unlucky, commands, fast, revived>>

\* Mutant: nothing is pushed before the prune.
CandidatesNone(h) ==
    /\ sync[h].pc = "got"
    /\ sync' = [sync EXCEPT ![h].pc = "push"]
    /\ UNCHANGED <<rec, age, current, user, faults, deleted, unlucky, commands, fast, revived>>

\* push_candidates: copies of the records the server lacks.
Candidates(h) ==
    /\ sync[h].pc = "got"
    /\ sync' = [sync EXCEPT ![h].pc = "push",
                            ![h].cands = [x \in Accounts |->
                               IF x \in sync[h].ids THEN Absent ELSE rec[h][x]]]
    /\ UNCHANGED <<rec, age, current, user, faults, deleted, unlucky, commands, fast, revived>>

ToPush(h) == {x \in Accounts : sync[h].cands[x] # Absent}

PushNext(h) ==
    /\ sync[h].pc = "push"
    /\ \E x \in ToPush(h) : \E f \in FinalIds(x) :
          /\ Upsert(x, sync[h].cands[x], f)
          /\ sync' = [sync EXCEPT ![h].cands[x] = Absent, ![h].ids = @ \cup {x, f}]
    /\ UNCHANGED <<age, current, user, faults, deleted, unlucky, commands, fast, revived>>

\* The loop goes on after a push that failed, obeyed or not.
PushFails(h) ==
    /\ sync[h].pc = "push"
    /\ Fault
    /\ \E x \in ToPush(h) :
          /\ \/ \E f \in FinalIds(x) : Upsert(x, sync[h].cands[x], f)
             \/ rec' = rec
          /\ sync' = [sync EXCEPT ![h].cands[x] = Absent, ![h].failed = @ \cup {x}]
    /\ UNCHANGED <<age, current, user, deleted, unlucky, commands, fast, revived>>

\* Records the server lacks, unless they are younger than ten minutes.
Prunable(h) == {x \in Ids(h) \ sync[h].ids : ~Young(rec[h][x])}

Prune(h) ==
    LET gone == Prunable(h) IN
    /\ sync[h].pc = "push"
    /\ ToPush(h) = {}
    /\ rec' = [rec EXCEPT ![h] = [x \in Accounts |-> IF x \in gone THEN Absent ELSE @[x]]]
    /\ current' = [current EXCEPT ![h] = IF @ \in gone THEN NoAccount ELSE @]
    /\ unlucky' = unlucky \cup {Login[x] : x \in gone \cap sync[h].failed}
    /\ sync' = [sync EXCEPT ![h] = Waiting]
    /\ UNCHANGED <<age, user, faults, deleted, commands, fast, revived>>

(***************************************************************************)
(* The fast loop of a host: the token of its current account, every 30 s.  *)
(***************************************************************************)
FastAsks(h) ==
    /\ fast[h] = Sleeping
    /\ current[h] # NoAccount
    /\ Command
    /\ fast' = [fast EXCEPT ![h].acct = current[h]]
    /\ UNCHANGED <<rec, age, current, sync, user, faults, deleted, unlucky, revived>>

\* GET /token: the server has the account.
FastAnswered(h) ==
    /\ fast[h].acct \in Ids(Server)
    /\ ~fast[h].answered
    /\ fast' = [fast EXCEPT ![h].answered = TRUE]
    /\ UNCHANGED <<rec, age, current, sync, user, faults, deleted, unlucky, commands, revived>>

\* No connection, no such account, or an answer that is lost: the round is over.
FastFails(h) ==
    /\ fast[h] # Sleeping
    /\ fast' = [fast EXCEPT ![h] = Sleeping]
    /\ UNCHANGED <<rec, age, current, sync, user, faults, deleted, unlucky, commands, revived>>

\* The account whose token came is current again, in the list or not.
FastApplies(h) ==
    LET x == fast[h].acct IN
    /\ fast[h].answered
    /\ current' = [current EXCEPT ![h] = x]
    /\ revived' = [revived EXCEPT ![h] = @ \cup ({x} \ Ids(h))]
    /\ fast' = [fast EXCEPT ![h] = Sleeping]
    /\ UNCHANGED <<rec, age, sync, user, faults, deleted, unlucky, commands>>

Fast(h) == FastAsks(h) \/ FastAnswered(h) \/ FastFails(h) \/ FastApplies(h)

\* A round of the loop takes less than ten minutes: nothing ages inside one.
TenMinutes(x) ==
    /\ age[x] = "young"
    /\ \A h \in Hosts : sync[h].pc = "idle"
    /\ age' = [age EXCEPT ![x] = "old"]
    /\ UNCHANGED <<rec, current, sync, user, faults, deleted, unlucky, commands, fast, revived>>

Loop(h) == Fetch(h) \/ Candidates(h) \/ PushNext(h) \/ PushFails(h) \/ Prune(h)

Answer(h) ==
    \/ Snapshot(h) \/ Pushed(h) \/ PushAnswerLost(h) \/ RequestFails(h)
    \/ Rename(h) \/ RemoteDelete(h) \/ Listed(h) \/ Insert(h)

Next ==
    \/ \E h \in Hosts : Loop(h) \/ Fast(h) \/ Answer(h) \/ AskList(h, NoAccount)
    \/ \E h \in Hosts, x \in Accounts :
          LogIn(h, x) \/ PushAccount(h, x) \/ DeleteAccount(h, x)
          \/ AskList(h, x) \/ SwitchTo(h, x)
    \/ \E x \in Accounts : ServerDelete(x) \/ TenMinutes(x)

Spec == Init /\ [][Next]_vars

(***************************************************************************)
(* Properties.                                                             *)
(***************************************************************************)
Somewhere(l) == \E n \in Nodes : \E x \in Ids(n) : Login[x] = l

\* The hosts cannot make the server hold one login under two ids, whatever ids
\* they push it under, and in whatever order pushes, retries and deletions
\* arrive (handle_upsert, remote_server.rs:735-760).
UniqueLogin ==
    \A x, y \in Ids(Server) : Login[x] = Login[y] => x = y

\* A login is on some machine until a user deletes it, or until it was pruned in
\* a round in which the server could not be given it: neither the prune nor a
\* merge into another id loses it by itself (lib.rs:2473-2600).
NoLoginLost ==
    \A x \in Accounts : age[x] # "unborn" =>
        \/ Somewhere(Login[x])
        \/ Login[x] \in deleted \cup unlucky

==============================================================================
