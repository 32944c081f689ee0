-------------------------- MODULE AccountSyncProofs --------------------------
(* No login is doubled or lost, for any number of hosts, ids and logins,   *)
(* any failures and any number of commands.                                *)
EXTENDS AccountSync, TLAPS

(* What a host's user and its loop may be at: the types of user and sync.  *)
Tasks == [op : {"idle", "push", "sending", "rename", "remove", "list", "insert"},
          acct : Accounts \cup {NoAccount}, into : Accounts \cup {NoAccount}, snap : Copies]

Rounds == [pc : {"idle", "got", "push"}, ids : SUBSET Accounts,
           cands : Copies, failed : SUBSET Accounts]

(* The server has the login, or some user deleted it.                      *)
Settled(l) == l \in deleted \/ \E y \in Ids(Server) : Login[y] = l

(* What the command of a host may rely on: it has a record where it is     *)
(* about to push one, what it deletes was deleted by a user, and what it   *)
(* is about to write came from the server.                                 *)
Commanding(h) ==
    /\ user[h].op \in {"push", "sending", "rename", "remove"} => user[h].acct \in Accounts
    /\ user[h].op = "sending" => user[h].snap[user[h].acct] # Absent
    /\ user[h].op = "rename" =>
         /\ user[h].into \in Accounts
         /\ Login[user[h].into] = Login[user[h].acct]
         /\ Settled(Login[user[h].acct])
    /\ user[h].op = "remove" => Login[user[h].acct] \in deleted
    /\ user[h].op = "insert" =>
         \A y \in Accounts : user[h].snap[y] # Absent => Settled(Login[y])

(* What the prune may rely on: a record that the fetched ids lack is still *)
(* to be pushed, could not be pushed, is young, or came from the server    *)
(* after the ids did.                                                      *)
Round(h) ==
    sync[h].pc = "push" =>
        \A x \in Ids(h) \ sync[h].ids :
            \/ sync[h].cands[x] # Absent
            \/ x \in sync[h].failed
            \/ Young(rec[h][x])
            \/ Settled(Login[x])

IInv ==
    /\ TypeOK
    /\ \A h \in Hosts : Commanding(h) /\ Round(h)
    /\ UniqueLogin
    /\ NoLoginLost

---------------------------------------------------------------------------
(* What steps have in common *)

(* The server loses an id only when a user has deleted its login.          *)
ServerKeeps ==
    /\ deleted \subseteq deleted'
    /\ \A y \in Ids(Server) : y \in Ids(Server)' \/ Login[y] \in deleted'

LEMMA SettledStays ==
    ASSUME ServerKeeps, NEW l, Settled(l)
    PROVE  Settled(l)'
  BY DEF ServerKeeps, Settled

LEMMA CommandStays ==
    ASSUME ServerKeeps, NEW h \in Hosts, Commanding(h), user'[h] = user[h]
    PROVE  Commanding(h)'
  BY SettledStays DEF Commanding, ServerKeeps

(* A round stays sound if the host gets no record but what is settled.     *)
LEMMA RoundStays ==
    ASSUME ServerKeeps, NEW h \in Hosts, Round(h), sync'[h] = sync[h],
           \A r \in Accounts : age[r] = "young" => age'[r] = "young",
           \A x \in Ids(h)' : \/ x \in Ids(h) /\ rec'[h][x] = rec[h][x]
                              \/ Settled(Login[x])'
                              \/ Young(rec[h][x])',
           TypeOK
    PROVE  Round(h)'
  <1> SUFFICES ASSUME sync[h].pc = "push", NEW x \in Ids(h)', x \notin sync[h].ids
               PROVE  \/ sync[h].cands[x] # Absent
                      \/ x \in sync[h].failed
                      \/ Young(rec[h][x])'
                      \/ Settled(Login[x])'
    BY DEF Round
  <1>1. CASE x \in Ids(h) /\ rec'[h][x] = rec[h][x]
    <2>1. rec[h][x] \in Accounts
      BY <1>1 DEF TypeOK, Nodes, Copies, Ids
    <2>2. Young(rec[h][x]) => Young(rec[h][x])'
      BY <1>1, <2>1 DEF Young
    <2>3. QED
      BY <1>1, <2>2, SettledStays DEF Round
  <1>2. QED
    BY <1>1

(* Every login that leaves a machine is on another one, deleted or pruned  *)
(* with bad luck.                                                          *)
LEMMA NothingLost ==
    ASSUME NoLoginLost, age' = age, deleted \subseteq deleted', unlucky \subseteq unlucky',
           \A n \in Nodes : \A x \in Ids(n) :
               Somewhere(Login[x])' \/ Login[x] \in deleted' \cup unlucky'
    PROVE  NoLoginLost'
  BY DEF NoLoginLost, Somewhere

LEMMA NoDoubles ==
    ASSUME UniqueLogin, Ids(Server)' \subseteq Ids(Server)
    PROVE  UniqueLogin'
  BY DEF UniqueLogin

(* handle_upsert: the server gets at most one id, and only for a login     *)
(* that it did not have.                                                   *)
LEMMA Upserts ==
    ASSUME TypeOK, UniqueLogin, NEW x \in Accounts, NEW r \in Accounts,
           NEW f \in FinalIds(x), Upsert(x, r, f)
    PROVE  /\ rec' \in [Nodes -> Copies]
           /\ \A h \in Hosts : rec'[h] = rec[h]
           /\ f \in Accounts /\ Login[f] = Login[x]
           /\ Ids(Server)' = Ids(Server) \cup {f}
           /\ UniqueLogin'
  <1>1. f \in Accounts /\ Login[f] = Login[x]
    BY DEF FinalIds, SameLogin, Ids
  <1>2. Written(x, r, f) \in Accounts
    <2>1. CASE f = x
      BY <2>1 DEF Written
    <2>2. CASE f # x
      <3>1. f \in Ids(Server)
        BY <2>2 DEF FinalIds, SameLogin
      <3>2. QED
        BY <2>2, <3>1 DEF Written, TypeOK, Nodes, Copies, Ids
    <2>3. QED
      BY <2>1, <2>2
  <1>3. Server \in Nodes /\ rec \in [Nodes -> Copies]
    BY DEF TypeOK, Nodes
  <1>4. /\ rec' \in [Nodes -> Copies]
        /\ \A n \in Nodes \ {Server} : rec'[n] = rec[n]
        /\ rec'[Server] = [rec[Server] EXCEPT ![f] = Written(x, r, f)]
    BY <1>1, <1>2, <1>3 DEF Upsert, Copies
  <1>5. \A h \in Hosts : rec'[h] = rec[h]
    BY <1>4, SyncAssumption DEF Nodes
  <1>6. Ids(Server)' = Ids(Server) \cup {f}
    BY <1>1, <1>2, <1>3, <1>4, SyncAssumption DEF Ids, Copies
  <1>7. UniqueLogin'
    <2> SUFFICES ASSUME NEW y \in Ids(Server)', NEW z \in Ids(Server)', Login[y] = Login[z]
                 PROVE  y = z
      BY DEF UniqueLogin
    <2>1. f \in Ids(Server) \/ \A y2 \in Ids(Server) : Login[y2] # Login[x]
      BY DEF FinalIds, SameLogin
    <2>2. QED
      BY <1>1, <1>6, <2>1 DEF UniqueLogin
  <1>8. QED
    BY <1>1, <1>4, <1>5, <1>6, <1>7

LEMMA InitIInv == Init => IInv
  <1> SUFFICES ASSUME Init PROVE IInv
    OBVIOUS
  <1>1. Nothing \in Copies /\ \A n \in Nodes : rec[n] = Nothing /\ Ids(n) = {}
    BY DEF Init, Nothing, Copies, Ids
  <1>2. TypeOK
    BY <1>1, SyncAssumption DEF Init, TypeOK, Waiting, Idle, Sleeping
  <1>3. \A h \in Hosts : Commanding(h) /\ Round(h)
    BY DEF Init, Commanding, Round, Waiting, Idle
  <1>4. UniqueLogin /\ NoLoginLost
    BY <1>1 DEF Init, UniqueLogin, NoLoginLost, Nodes
  <1>5. QED
    BY <1>2, <1>3, <1>4 DEF IInv
---------------------------------------------------------------------------
(* Steps that touch no record *)

LEMMA RecordsKept ==
    ASSUME IInv, UNCHANGED <<rec, age, deleted, unlucky>>
    PROVE  ServerKeeps /\ UniqueLogin' /\ NoLoginLost'
  <1>1. ServerKeeps
    BY DEF ServerKeeps, Ids
  <1>2. UniqueLogin'
    BY DEF IInv, UniqueLogin, Ids
  <1>3. NoLoginLost'
    BY DEF IInv, NoLoginLost, Somewhere, Ids
  <1>4. QED
    BY <1>1, <1>2, <1>3

LEMMA RoundsKept ==
    ASSUME IInv, UNCHANGED <<rec, age, deleted, unlucky>>, NEW h \in Hosts, sync'[h] = sync[h]
    PROVE  Round(h)'
  BY RecordsKept, RoundStays DEF IInv, Ids

(* A step of a host's command that touches no record.                      *)
LEMMA CommandStep ==
    ASSUME IInv, NEW h \in Hosts, UNCHANGED <<rec, age, deleted, unlucky, sync>>,
           TypeOK', Commanding(h)', \A g \in Hosts \ {h} : user'[g] = user[g]
    PROVE  IInv'
  <1>1. \A g \in Hosts : Round(g)'
    BY RoundsKept
  <1>2. \A g \in Hosts : Commanding(g)'
    <2> TAKE g \in Hosts
    <2>1. CASE g = h
      BY <2>1
    <2>2. CASE g # h
      BY <2>2, RecordsKept, CommandStays DEF IInv
    <2>3. QED
      BY <2>1, <2>2
  <1>3. QED
    BY <1>1, <1>2, RecordsKept DEF IInv

LEMMA IdleTask == Idle \in Tasks /\ Idle.into = NoAccount /\ Idle.snap = Nothing
  BY DEF Idle, Tasks, Nothing, Copies

(* A step of a command that moves nothing but the command.                  *)
LEMMA TypesOfCommand ==
    ASSUME TypeOK, user' \in [Hosts -> Tasks],
           UNCHANGED <<rec, age, current, sync, faults, deleted, unlucky, commands, fast, revived>>
    PROVE  TypeOK'
  BY DEF TypeOK, Tasks, Ids

LEMMA SnapshotKeeps == ASSUME IInv, NEW h \in Hosts, Snapshot(h) PROVE IInv'
  <1> DEFINE x == user[h].acct
  <1>1. x \in Accounts
    BY DEF IInv, Commanding, Snapshot
  <1>2. CASE x \in Ids(h)
    <2> DEFINE snap == [Nothing EXCEPT ![x] = rec[h][x]]
    <2>1. snap \in Copies /\ snap[x] # Absent
      BY <1>1, <1>2 DEF IInv, TypeOK, Nothing, Copies, Ids, Nodes
    <2>2. user' = [user EXCEPT ![h].op = "sending", ![h].snap = snap]
      BY <1>2 DEF Snapshot
    <2> HIDE DEF snap
    <2>3. TypeOK'
      <3>1. user \in [Hosts -> Tasks]
        BY DEF IInv, TypeOK, Tasks
      <3>2. user' \in [Hosts -> Tasks]
        BY <2>1, <2>2, <3>1 DEF Tasks
      <3>3. UNCHANGED <<rec, age, current, sync, faults, deleted, unlucky, commands, fast, revived>>
        BY DEF Snapshot
      <3>4. QED
        BY <3>2, <3>3, TypesOfCommand DEF IInv
    <2>4. /\ user'[h].op = "sending" /\ user'[h].acct = x /\ user'[h].snap = snap
          /\ \A g \in Hosts \ {h} : user'[g] = user[g]
      BY <2>2 DEF IInv, TypeOK
    <2>5. Commanding(h)'
      BY <1>1, <2>1, <2>4 DEF Commanding
    <2>6. QED
      BY <2>3, <2>4, <2>5, CommandStep DEF Snapshot
  <1>3. CASE x \notin Ids(h)
    <2>1. user' = [user EXCEPT ![h] = Idle]
      BY <1>3 DEF Snapshot, Finish
    <2>2. TypeOK'
      BY <2>1 DEF IInv, TypeOK, Snapshot, Idle, Nothing, Copies, Ids
    <2>3. Commanding(h)' /\ \A g \in Hosts \ {h} : user'[g] = user[g]
      BY <2>1 DEF IInv, TypeOK, Commanding, Idle
    <2>4. QED
      BY <2>2, <2>3, CommandStep DEF Snapshot
  <1>4. QED
    BY <1>2, <1>3

LEMMA PushAccountKeeps ==
    ASSUME IInv, NEW h \in Hosts, NEW x \in Accounts, PushAccount(h, x)
    PROVE  IInv'
  <1> DEFINE snap == [Nothing EXCEPT ![x] = rec[h][x]]
             task == [Idle EXCEPT !.op = "sending", !.acct = x, !.snap = snap]
  <1>1. snap \in Copies /\ snap[x] # Absent
    BY DEF IInv, TypeOK, PushAccount, Nothing, Copies, Ids, Nodes
  <1>2. user' = [user EXCEPT ![h] = task]
    BY DEF PushAccount, Start
  <1> HIDE DEF snap
  <1>t. task \in Tasks /\ task.op = "sending" /\ task.acct = x /\ task.snap = snap
    BY <1>1, IdleTask DEF Tasks
  <1> HIDE DEF task
  <1>3. TypeOK'
    BY <1>1, <1>2, <1>t, SyncAssumption DEF IInv, TypeOK, PushAccount, Command, Ids, Tasks
  <1>4. user'[h] = task /\ \A g \in Hosts \ {h} : user'[g] = user[g]
    BY <1>2 DEF IInv, TypeOK
  <1>5. Commanding(h)'
    BY <1>1, <1>4, <1>t DEF Commanding
  <1>6. QED
    BY <1>3, <1>4, <1>5, CommandStep DEF PushAccount

(* A command ends without a change here.                                   *)
LEMMA RequestFailsKeeps == ASSUME IInv, NEW h \in Hosts, RequestFails(h) PROVE IInv'
  <1>1. TypeOK'
    BY SyncAssumption DEF IInv, TypeOK, RequestFails, Fault, Finish, Idle, Nothing, Copies, Ids
  <1>2. Commanding(h)' /\ \A g \in Hosts \ {h} : user'[g] = user[g]
    BY DEF IInv, TypeOK, RequestFails, Finish, Commanding, Idle
  <1>3. QED
    BY <1>1, <1>2, CommandStep DEF RequestFails

LEMMA AskListKeeps ==
    ASSUME IInv, NEW h \in Hosts, NEW x \in Accounts \cup {NoAccount}, AskList(h, x)
    PROVE  IInv'
  <1> DEFINE task == [Idle EXCEPT !.op = "list", !.acct = x]
  <1>1. user' = [user EXCEPT ![h] = task]
    BY DEF AskList, Start
  <1>t. task \in Tasks /\ task.op = "list"
    BY IdleTask DEF Tasks
  <1> HIDE DEF task
  <1>2. TypeOK'
    BY <1>1, <1>t, SyncAssumption DEF IInv, TypeOK, AskList, Command, Ids, Tasks
  <1>3. Commanding(h)' /\ \A g \in Hosts \ {h} : user'[g] = user[g]
    BY <1>1, <1>t DEF IInv, TypeOK, Commanding
  <1>4. QED
    BY <1>2, <1>3, CommandStep DEF AskList

(* What the server lists it has.                                           *)
LEMMA ListedKeeps == ASSUME IInv, NEW h \in Hosts, Listed(h) PROVE IInv'
  <1> DEFINE x == user[h].acct
             snap == [y \in Accounts |->
                        IF x \in {NoAccount, y} THEN rec[Server][y] ELSE Absent]
  <1>1. snap \in Copies
    BY DEF IInv, TypeOK, Copies, Nodes
  <1>2. \A y \in Accounts : snap[y] # Absent => Settled(Login[y])
    BY DEF Settled, Ids
  <1>3. user' = [user EXCEPT ![h].op = "insert", ![h].snap = snap]
    BY DEF Listed
  <1> HIDE DEF snap
  <1>4. TypeOK'
    <2>1. UNCHANGED <<rec, age, current, sync, faults, deleted, unlucky, commands, fast, revived>>
      BY DEF Listed
    <2>2. user \in [Hosts -> Tasks]
      BY DEF IInv, TypeOK, Tasks
    <2>3. user' \in [Hosts -> Tasks]
      BY <1>1, <1>3, <2>2 DEF Tasks
    <2>4. QED
      BY <2>1, <2>3, TypesOfCommand DEF IInv
  <1>5. /\ user'[h].op = "insert" /\ user'[h].snap = snap
        /\ \A g \in Hosts \ {h} : user'[g] = user[g]
    BY <1>3 DEF IInv, TypeOK
  <1>6. \A l : Settled(l) => Settled(l)'
    BY RecordsKept, SettledStays DEF Listed
  <1>7. Commanding(h)'
    BY <1>2, <1>5, <1>6 DEF Commanding
  <1>8. QED
    BY <1>4, <1>5, <1>7, CommandStep DEF Listed

LEMMA SwitchToKeeps ==
    ASSUME IInv, NEW h \in Hosts, NEW x \in Accounts, SwitchTo(h, x)
    PROVE  IInv'
  <1>1. TypeOK'
    BY SyncAssumption DEF IInv, TypeOK, SwitchTo, Command, Ids
  <1>2. Commanding(h)'
    BY RecordsKept, CommandStays DEF IInv, SwitchTo
  <1>3. QED
    BY <1>1, <1>2, CommandStep DEF SwitchTo

(* A step of a host's quota loop that touches no record.                   *)
LEMMA LoopStep ==
    ASSUME IInv, NEW h \in Hosts, UNCHANGED <<rec, age, deleted, unlucky, user>>,
           TypeOK', Round(h)', \A g \in Hosts \ {h} : sync'[g] = sync[g]
    PROVE  IInv'
  <1>1. \A g \in Hosts : Commanding(g)'
    BY RecordsKept, CommandStays DEF IInv
  <1>2. \A g \in Hosts : Round(g)'
    <2> TAKE g \in Hosts
    <2>1. CASE g = h
      BY <2>1
    <2>2. CASE g # h
      BY <2>2, RoundsKept
    <2>3. QED
      BY <2>1, <2>2
  <1>3. QED
    BY <1>1, <1>2, RecordsKept DEF IInv

LEMMA FetchKeeps == ASSUME IInv, NEW h \in Hosts, Fetch(h) PROVE IInv'
  <1>1. TypeOK'
    BY DEF IInv, TypeOK, Fetch, Waiting, Nothing, Copies, Ids
  <1>2. Round(h)' /\ \A g \in Hosts \ {h} : sync'[g] = sync[g]
    BY DEF IInv, TypeOK, Fetch, Round, Waiting
  <1>3. QED
    BY <1>1, <1>2, LoopStep DEF Fetch

(* Every record the fetched ids lack becomes a candidate.                  *)
LEMMA CandidatesKeeps == ASSUME IInv, NEW h \in Hosts, Candidates(h) PROVE IInv'
  <1> DEFINE cands == [x \in Accounts |->
                         IF x \in sync[h].ids THEN Absent ELSE rec[h][x]]
  <1>1. cands \in Copies
    BY DEF IInv, TypeOK, Copies, Nodes
  <1>2. \A x \in Ids(h) \ sync[h].ids : cands[x] # Absent
    BY DEF Ids
  <1>3. sync' = [sync EXCEPT ![h].pc = "push", ![h].cands = cands]
    BY DEF Candidates
  <1> HIDE DEF cands
  <1>4. TypeOK'
    <2>1. UNCHANGED <<rec, age, current, user, faults, deleted, unlucky, commands, fast, revived>>
      BY DEF Candidates
    <2>2. sync \in [Hosts -> Rounds]
      BY DEF IInv, TypeOK, Rounds
    <2>3. sync' \in [Hosts -> Rounds]
      BY <1>1, <1>3, <2>2 DEF Rounds
    <2>4. QED
      BY <2>1, <2>3 DEF IInv, TypeOK, Ids, Rounds
  <1>5. /\ sync'[h].ids = sync[h].ids /\ sync'[h].cands = cands
        /\ \A g \in Hosts \ {h} : sync'[g] = sync[g]
    BY <1>3 DEF IInv, TypeOK
  <1>6. Ids(h)' = Ids(h)
    BY DEF Candidates, Ids
  <1>7. Round(h)'
    BY <1>2, <1>5, <1>6 DEF Round
  <1>8. QED
    BY <1>4, <1>5, <1>7, LoopStep DEF Candidates
---------------------------------------------------------------------------
(* Steps that change a list *)

(* Steps of the hosts that leave the server alone: what is left to show is *)
(* that the logins which leave the host are kept, and that the host gets   *)
(* only what is settled or young.                                          *)
LEMMA HostStep ==
    ASSUME IInv, TypeOK', NEW h \in Hosts,
           deleted \subseteq deleted', unlucky \subseteq unlucky', age' = age,
           \A n \in Nodes \ {h} : rec'[n] = rec[n],
           \A g \in Hosts \ {h} : user'[g] = user[g] /\ sync'[g] = sync[g],
           Commanding(h)', Round(h)',
           \A x \in Ids(h) : \/ \E y \in Ids(h)' : Login[y] = Login[x]
                             \/ Settled(Login[x])
                             \/ Login[x] \in deleted' \cup unlucky'
    PROVE  IInv'
  <1>1. Server \in Nodes \ {h} /\ Hosts \subseteq Nodes
    BY SyncAssumption DEF Nodes
  <1>2. \A n \in Nodes \ {h} : Ids(n)' = Ids(n)
    BY DEF Ids
  <1>3. ServerKeeps
    BY <1>1, <1>2 DEF ServerKeeps
  <1>4. \A g \in Hosts : Commanding(g)' /\ Round(g)'
    <2> TAKE g \in Hosts
    <2>1. CASE g = h
      BY <2>1
    <2>2. CASE g # h
      <3>1. Commanding(g)'
        BY <1>3, <2>2, CommandStays DEF IInv
      <3>2. rec'[g] = rec[g] /\ Ids(g)' = Ids(g) /\ sync'[g] = sync[g]
        BY <1>1, <1>2, <2>2
      <3>3. Round(g)'
        BY <1>3, <3>2, RoundStays DEF IInv
      <3>4. QED
        BY <3>1, <3>3
    <2>3. QED
      BY <2>1, <2>2
  <1>5. UniqueLogin'
    BY <1>1, <1>2, NoDoubles DEF IInv
  <1>6. NoLoginLost'
    <2>1. ASSUME NEW n \in Nodes, NEW x \in Ids(n)
          PROVE  Somewhere(Login[x])' \/ Login[x] \in deleted' \cup unlucky'
      <3>1. CASE n # h
        <4>1. x \in Ids(n)'
          BY <1>2, <3>1
        <4>2. QED
          BY <4>1 DEF Somewhere, Nodes
      <3>2. CASE n = h
        <4>1. CASE \E y \in Ids(h)' : Login[y] = Login[x]
          BY <1>1, <4>1 DEF Somewhere, Nodes
        <4>2. CASE Settled(Login[x])
          <5>1. Login[x] \in deleted' \/ \E y \in Ids(Server)' : Login[y] = Login[x]
            BY <1>1, <1>2, <4>2 DEF Settled
          <5>2. QED
            BY <1>1, <5>1 DEF Somewhere, Nodes
        <4>3. QED
          BY <3>2, <4>1, <4>2
      <3>3. QED
        BY <3>1, <3>2
    <2>2. QED
      BY <2>1, NothingLost DEF IInv
  <1>7. QED
    BY <1>4, <1>5, <1>6 DEF IInv

LEMMA RenameKeeps == ASSUME IInv, NEW h \in Hosts, Rename(h) PROVE IInv'
  <1>1. PICK x \in Accounts, f \in Accounts :
            /\ x = user[h].acct /\ f = user[h].into
            /\ Login[f] = Login[x] /\ Settled(Login[x])
    BY DEF IInv, Commanding, Rename
  <1>2. UNCHANGED <<age, sync, faults, deleted, unlucky, commands, fast, revived>>
    BY DEF Rename
  <1>3. user' = [user EXCEPT ![h] = Idle]
    BY DEF Rename, Finish
  <1>4. user' \in [Hosts -> Tasks] /\ user'[h].op = "idle"
        /\ \A g \in Hosts \ {h} : user'[g] = user[g]
    <2>1. user \in [Hosts -> Tasks] /\ Idle.op = "idle"
      BY DEF IInv, TypeOK, Tasks, Idle
    <2>2. QED
      BY <1>3, <2>1, IdleTask
  <1>5. Commanding(h)'
    BY <1>4 DEF Commanding
  <1>6. CASE x \notin Ids(h)
    <2>1. UNCHANGED <<rec, current>>
      BY <1>1, <1>6 DEF Rename
    <2>2. TypeOK'
      BY <1>2, <1>4, <2>1 DEF IInv, TypeOK, Tasks, Ids
    <2>3. QED
      BY <1>2, <1>4, <1>5, <2>1, <2>2, CommandStep
  <1>7. CASE x \in Ids(h)
    <2>1. /\ rec' = [rec EXCEPT ![h][x] = Absent, ![h][f] = rec[h][x]]
          /\ current' = [current EXCEPT ![h] = IF @ = x THEN f ELSE @]
      BY <1>1, <1>7 DEF Rename
    <2>2. h \in Nodes /\ rec \in [Nodes -> Copies] /\ rec[h][x] \in Accounts
      BY <1>7 DEF IInv, TypeOK, Nodes, Copies, Ids
    <2>3. /\ rec' \in [Nodes -> Copies]
          /\ \A n \in Nodes \ {h} : rec'[n] = rec[n]
          /\ rec'[h][f] = rec[h][x]
          /\ \A y \in Accounts \ {x, f} : rec'[h][y] = rec[h][y]
      BY <1>1, <2>1, <2>2 DEF Copies
    <2>4. f \in Ids(h)' /\ \A y \in Ids(h) \ {x} : y \in Ids(h)'
      BY <1>1, <2>2, <2>3, SyncAssumption DEF Ids
    <2>5. \A g \in Hosts : current'[g] \in Ids(g)' \cup revived[g] \cup {NoAccount}
      <3> TAKE g \in Hosts
      <3>1. CASE g = h
        BY <2>1, <2>4, <3>1 DEF IInv, TypeOK
      <3>2. CASE g # h
        BY <2>1, <2>3, <3>2 DEF IInv, TypeOK, Ids, Nodes
      <3>3. QED
        BY <3>1, <3>2
    <2>c. current' \in [Hosts -> Accounts \cup {NoAccount}]
      BY <1>1, <2>1 DEF IInv, TypeOK
    <2>6. TypeOK'
      BY <1>2, <1>4, <2>3, <2>5, <2>c DEF IInv, TypeOK, Tasks
    <2>7. \A y \in Ids(h)' \ {f} : y \in Ids(h) /\ rec'[h][y] = rec[h][y]
      <3> TAKE y \in Ids(h)' \ {f}
      <3>1. y \in Accounts /\ rec'[h][y] # Absent
        BY DEF Ids
      <3>2. f # x => rec'[h][x] = Absent
        BY <1>1, <2>1, <2>2 DEF Copies
      <3>3. QED
        BY <2>3, <3>1, <3>2 DEF Ids
    <2>8. ServerKeeps
      BY <1>2, <2>3, SyncAssumption DEF ServerKeeps, Ids, Nodes
    <2>9. Settled(Login[f])'
      BY <1>1, <2>8, SettledStays
    <2>10. \A y \in Ids(h)' : \/ y \in Ids(h) /\ rec'[h][y] = rec[h][y]
                              \/ Settled(Login[y])'
      BY <2>7, <2>9
    <2>11. Round(h)'
      BY <1>2, <2>8, <2>10, RoundStays DEF IInv
    <2>12. \A y \in Ids(h) : \E z \in Ids(h)' : Login[z] = Login[y]
      BY <1>1, <2>4
    <2>13. QED
      BY <1>2, <1>4, <1>5, <2>3, <2>6, <2>11, <2>12, HostStep
  <1>8. QED
    BY <1>6, <1>7

LEMMA LogInKeeps ==
    ASSUME IInv, NEW h \in Hosts, NEW x \in Accounts, LogIn(h, x)
    PROVE  IInv'
  <1> DEFINE task == [Idle EXCEPT !.op = "push", !.acct = x]
  <1>1. /\ UNCHANGED <<sync, faults, deleted, unlucky, commands, fast, revived>>
        /\ age' = [age EXCEPT ![x] = "young"]
        /\ rec' = [rec EXCEPT ![h][x] = x]
        /\ current' = [current EXCEPT ![h] = IF @ = NoAccount THEN x ELSE @]
        /\ user' = [user EXCEPT ![h] = task]
    BY DEF LogIn, AddAccount, Start
  <1>2. task \in Tasks /\ task.op = "push" /\ task.acct = x
    BY IdleTask DEF Tasks
  <1> HIDE DEF task
  <1>3. /\ user' \in [Hosts -> Tasks] /\ user'[h] = task
        /\ \A g \in Hosts \ {h} : user'[g] = user[g]
    <2>1. user \in [Hosts -> Tasks]
      BY DEF IInv, TypeOK, Tasks
    <2>2. QED
      BY <1>1, <1>2, <2>1
  <1>4. h \in Nodes /\ Hosts \subseteq Nodes /\ Server \in Nodes \ {h}
    BY SyncAssumption DEF Nodes
  <1>5. /\ rec' \in [Nodes -> Copies]
        /\ \A n \in Nodes \ {h} : rec'[n] = rec[n]
        /\ rec'[h][x] = x
        /\ \A y \in Accounts \ {x} : rec'[h][y] = rec[h][y]
    BY <1>1, <1>4 DEF IInv, TypeOK, Copies
  <1>6. /\ Ids(h)' = Ids(h) \cup {x}
        /\ \A n \in Nodes \ {h} : Ids(n)' = Ids(n)
    BY <1>5, SyncAssumption DEF Ids
  <1>7. /\ age' \in [Accounts -> {"unborn", "young", "old"}] /\ age'[x] = "young"
        /\ \A y \in Accounts \ {x} : age'[y] = age[y]
    BY <1>1 DEF IInv, TypeOK
  <1>8. \A g \in Hosts : current'[g] \in Ids(g)' \cup revived[g] \cup {NoAccount}
    BY <1>1, <1>4, <1>6 DEF IInv, TypeOK
  <1>9. TypeOK'
    BY <1>1, <1>3, <1>5, <1>7, <1>8 DEF IInv, TypeOK, Tasks
  <1>10. ServerKeeps
    BY <1>1, <1>4, <1>6 DEF ServerKeeps
  <1>11. \A g \in Hosts : Commanding(g)'
    <2> TAKE g \in Hosts
    <2>1. CASE g = h
      BY <1>2, <1>3, <2>1 DEF Commanding
    <2>2. CASE g # h
      BY <1>3, <1>10, <2>2, CommandStays DEF IInv
    <2>3. QED
      BY <2>1, <2>2
  <1>12. \A g \in Hosts : Round(g)'
    <2> TAKE g \in Hosts
    <2>1. ASSUME NEW y \in Ids(g)'
          PROVE  (y \in Ids(g) /\ rec'[g][y] = rec[g][y]) \/ Young(rec[g][y])'
      <3>1. CASE g = h /\ y = x
        BY <1>5, <1>7, <3>1 DEF Young
      <3>2. CASE ~(g = h /\ y = x)
        BY <1>4, <1>5, <1>6, <3>2 DEF Ids
      <3>3. QED
        BY <3>1, <3>2
    <2>2. \A r \in Accounts : age[r] = "young" => age'[r] = "young"
      BY <1>7
    <2>3. QED
      BY <1>1, <1>10, <2>1, <2>2, RoundStays DEF IInv
  <1>13. UniqueLogin'
    BY <1>4, <1>6, NoDoubles DEF IInv
  <1>14. NoLoginLost'
    <2> SUFFICES ASSUME NEW y \in Accounts, age'[y] # "unborn"
                 PROVE  Somewhere(Login[y])' \/ Login[y] \in deleted' \cup unlucky'
      BY DEF NoLoginLost
    <2>1. CASE y = x
      BY <1>4, <1>6, <2>1 DEF Somewhere, Nodes
    <2>2. CASE y # x
      <3>1. Somewhere(Login[y]) \/ Login[y] \in deleted \cup unlucky
        BY <1>7, <2>2 DEF IInv, NoLoginLost
      <3>2. \A n \in Nodes : Ids(n) \subseteq Ids(n)'
        BY <1>6
      <3>3. QED
        BY <1>1, <3>1, <3>2 DEF Somewhere, Nodes
    <2>3. QED
      BY <2>1, <2>2
  <1>15. QED
    BY <1>9, <1>11, <1>12, <1>13, <1>14 DEF IInv
LEMMA DeleteAccountKeeps ==
    ASSUME IInv, NEW h \in Hosts, NEW x \in Accounts, DeleteAccount(h, x)
    PROVE  IInv'
  <1> DEFINE task == [Idle EXCEPT !.op = "remove", !.acct = x]
  <1>1. /\ UNCHANGED <<age, sync, faults, unlucky, fast, revived>>
        /\ rec' = [rec EXCEPT ![h][x] = Absent]
        /\ current' = [current EXCEPT ![h] = IF @ = x THEN NoAccount ELSE @]
        /\ deleted' = deleted \cup {Login[x]}
        /\ user' = [user EXCEPT ![h] = task]
        /\ commands' \in 0 .. MaxCommands
    BY SyncAssumption DEF DeleteAccount, Start, Command, IInv, TypeOK
  <1>2. task \in Tasks /\ task.op = "remove" /\ task.acct = x
    BY IdleTask DEF Tasks
  <1> HIDE DEF task
  <1>3. /\ user' \in [Hosts -> Tasks] /\ user'[h] = task
        /\ \A g \in Hosts \ {h} : user'[g] = user[g]
    <2>1. user \in [Hosts -> Tasks]
      BY DEF IInv, TypeOK, Tasks
    <2>2. QED
      BY <1>1, <1>2, <2>1
  <1>4. h \in Nodes /\ Hosts \subseteq Nodes
    BY DEF Nodes
  <1>5. /\ rec' \in [Nodes -> Copies]
        /\ \A n \in Nodes \ {h} : rec'[n] = rec[n]
        /\ rec'[h][x] = Absent
        /\ \A y \in Accounts \ {x} : rec'[h][y] = rec[h][y]
    BY <1>1, <1>4 DEF IInv, TypeOK, Copies
  <1>6. Ids(h)' = Ids(h) \ {x} /\ \A n \in Nodes \ {h} : Ids(n)' = Ids(n)
    BY <1>5, SyncAssumption DEF Ids
  <1>7. \A g \in Hosts : current'[g] \in Ids(g)' \cup revived[g] \cup {NoAccount}
    BY <1>1, <1>4, <1>6 DEF IInv, TypeOK
  <1>8. /\ current' \in [Hosts -> Accounts \cup {NoAccount}]
        /\ deleted' \subseteq {Login[y] : y \in Accounts}
    BY <1>1 DEF IInv, TypeOK
  <1>9. TypeOK'
    BY <1>1, <1>3, <1>5, <1>7, <1>8 DEF IInv, TypeOK, Tasks
  <1>10. Commanding(h)'
    BY <1>1, <1>2, <1>3 DEF Commanding
  <1>11. ServerKeeps
    BY <1>1, <1>4, <1>6, SyncAssumption DEF ServerKeeps, Nodes
  <1>12. Round(h)'
    <2>1. \A y \in Ids(h)' : y \in Ids(h) /\ rec'[h][y] = rec[h][y]
      BY <1>5, <1>6 DEF Ids
    <2>2. QED
      BY <1>1, <1>11, <2>1, RoundStays DEF IInv
  <1>13. \A y \in Ids(h) : y \in Ids(h)' \/ Login[y] \in deleted'
    BY <1>1, <1>6
  <1>14. QED
    BY <1>1, <1>3, <1>5, <1>9, <1>10, <1>12, <1>13, HostStep

(* remote_pull_all: what is written here the server has, or somebody has   *)
(* deleted it meanwhile.                                                   *)
LEMMA InsertKeeps == ASSUME IInv, NEW h \in Hosts, Insert(h) PROVE IInv'
  <1>1. PICK snap \in Copies : snap = user[h].snap
    BY DEF IInv, TypeOK
  <1>2. /\ UNCHANGED <<age, current, sync, faults, deleted, unlucky, commands, fast, revived>>
        /\ rec' = [rec EXCEPT ![h] = [y \in Accounts |->
                     IF snap[y] = Absent THEN rec[h][y] ELSE snap[y]]]
        /\ user' = [user EXCEPT ![h] = Idle]
    BY <1>1 DEF Insert, Finish, IInv, TypeOK, Nodes
  <1>3. \A y \in Accounts : snap[y] # Absent => Settled(Login[y])
    BY <1>1 DEF IInv, Commanding, Insert
  <1>4. user' \in [Hosts -> Tasks] /\ user'[h].op = "idle"
        /\ \A g \in Hosts \ {h} : user'[g] = user[g]
    <2>1. user \in [Hosts -> Tasks] /\ Idle.op = "idle"
      BY DEF IInv, TypeOK, Tasks, Idle
    <2>2. QED
      BY <1>2, <2>1, IdleTask
  <1>5. h \in Nodes /\ Hosts \subseteq Nodes
    BY DEF Nodes
  <1>6. /\ rec' \in [Nodes -> Copies]
        /\ \A n \in Nodes \ {h} : rec'[n] = rec[n]
        /\ \A y \in Accounts : rec'[h][y] = IF snap[y] = Absent THEN rec[h][y] ELSE snap[y]
    BY <1>1, <1>2, <1>5 DEF IInv, TypeOK, Copies
  <1>7. /\ \A n \in Nodes : Ids(n) \subseteq Ids(n)'
        /\ \A n \in Nodes \ {h} : Ids(n)' = Ids(n)
    BY <1>6 DEF Ids
  <1>8. \A g \in Hosts : current'[g] \in Ids(g)' \cup revived[g] \cup {NoAccount}
    BY <1>2, <1>5, <1>7 DEF IInv, TypeOK
  <1>9. TypeOK'
    BY <1>2, <1>4, <1>6, <1>8 DEF IInv, TypeOK, Tasks
  <1>10. Commanding(h)'
    BY <1>4 DEF Commanding
  <1>11. ServerKeeps
    BY <1>2, <1>7 DEF ServerKeeps, Nodes
  <1>12. Round(h)'
    <2>1. ASSUME NEW y \in Ids(h)'
          PROVE  (y \in Ids(h) /\ rec'[h][y] = rec[h][y]) \/ Settled(Login[y])'
      <3>1. y \in Accounts
        BY DEF Ids
      <3>2. CASE snap[y] = Absent
        BY <1>6, <3>1, <3>2 DEF Ids
      <3>3. CASE snap[y] # Absent
        BY <1>3, <1>11, <3>1, <3>3, SettledStays
      <3>4. QED
        BY <3>2, <3>3
    <2>2. QED
      BY <1>2, <1>11, <2>1, RoundStays DEF IInv
  <1>13. QED
    BY <1>2, <1>4, <1>5, <1>6, <1>7, <1>9, <1>10, <1>12, HostStep

(* The prune: what goes is with the server, deleted, or could not be       *)
(* pushed.                                                                 *)
LEMMA PruneKeeps == ASSUME IInv, NEW h \in Hosts, Prune(h) PROVE IInv'
  <1>1. PICK G \in SUBSET Accounts, F \in SUBSET Accounts :
            G = Prunable(h) /\ F = sync[h].failed
    BY DEF Prunable, Ids, IInv, TypeOK
  <1>2. /\ UNCHANGED <<age, user, faults, deleted, commands, fast, revived>>
        /\ sync[h].pc = "push"
        /\ rec' = [rec EXCEPT ![h] = [y \in Accounts |-> IF y \in G THEN Absent ELSE rec[h][y]]]
        /\ current' = [current EXCEPT ![h] = IF @ \in G THEN NoAccount ELSE @]
        /\ unlucky' = unlucky \cup {Login[y] : y \in G \cap F}
        /\ sync' = [sync EXCEPT ![h] = Waiting]
    BY <1>1 DEF Prune, IInv, TypeOK, Nodes
  <1>3. /\ sync' \in [Hosts -> Rounds] /\ sync'[h].pc = "idle"
        /\ \A g \in Hosts \ {h} : sync'[g] = sync[g]
    <2>1. sync \in [Hosts -> Rounds] /\ Waiting \in Rounds /\ Waiting.pc = "idle"
      BY DEF IInv, TypeOK, Rounds, Waiting, Nothing, Copies
    <2>2. QED
      BY <1>2, <2>1
  <1>4. h \in Nodes /\ Hosts \subseteq Nodes
    BY DEF Nodes
  <1>5. /\ rec' \in [Nodes -> Copies]
        /\ \A n \in Nodes \ {h} : rec'[n] = rec[n]
        /\ \A y \in Accounts : rec'[h][y] = IF y \in G THEN Absent ELSE rec[h][y]
    BY <1>2, <1>4 DEF IInv, TypeOK, Copies
  <1>6. Ids(h)' = Ids(h) \ G /\ \A n \in Nodes \ {h} : Ids(n)' = Ids(n)
    BY <1>5 DEF Ids
  <1>7. \A g \in Hosts : current'[g] \in Ids(g)' \cup revived[g] \cup {NoAccount}
    BY <1>2, <1>4, <1>6 DEF IInv, TypeOK
  <1>8. /\ current' \in [Hosts -> Accounts \cup {NoAccount}]
        /\ unlucky' \subseteq {Login[y] : y \in Accounts}
    BY <1>2 DEF IInv, TypeOK
  <1>9. TypeOK'
    BY <1>2, <1>3, <1>5, <1>7, <1>8 DEF IInv, TypeOK, Rounds
  <1>10. ServerKeeps
    BY <1>2, <1>4, <1>6, SyncAssumption DEF ServerKeeps, Nodes
  <1>11. Commanding(h)'
    BY <1>2, <1>10, CommandStays DEF IInv
  <1>12. Round(h)'
    BY <1>3 DEF Round
  <1>13. ASSUME NEW y \in Ids(h)
         PROVE  \/ y \in Ids(h)' \/ Settled(Login[y]) \/ Login[y] \in unlucky'
    <2>1. CASE y \notin G
      BY <1>6, <2>1
    <2>2. CASE y \in G
      <3>1. y \notin sync[h].ids /\ ~Young(rec[h][y])
        BY <1>1, <2>2 DEF Prunable
      <3>2. sync[h].cands[y] = Absent
        BY <2>2 DEF Prune, ToPush
      <3>3. y \in F \/ Settled(Login[y])
        BY <1>1, <1>2, <3>1, <3>2 DEF IInv, Round
      <3>4. QED
        BY <1>2, <2>2, <3>3
    <2>3. QED
      BY <2>1, <2>2
  <1>14. QED
    BY <1>2, <1>3, <1>5, <1>9, <1>11, <1>12, <1>13, HostStep
---------------------------------------------------------------------------
(* The server's handlers *)

(* Steps that change only the server's list and what one host is at.       *)
LEMMA ServerStep ==
    ASSUME IInv, TypeOK', ServerKeeps, UniqueLogin', unlucky' = unlucky, age' = age,
           \A n \in Hosts : rec'[n] = rec[n],
           \A g \in Hosts : \/ user'[g] = user[g]
                            \/ Commanding(g)',
           \A g \in Hosts : \/ sync'[g] = sync[g]
                            \/ Round(g)'
    PROVE  IInv'
  <1>1. \A n \in Hosts : Ids(n)' = Ids(n)
    BY DEF Ids
  <1>2. \A g \in Hosts : Commanding(g)'
    BY CommandStays DEF IInv
  <1>3. \A g \in Hosts : Round(g)'
    BY <1>1, RoundStays DEF IInv
  <1>4. NoLoginLost'
    <2>1. ASSUME NEW n \in Nodes, NEW x \in Ids(n)
          PROVE  Somewhere(Login[x])' \/ Login[x] \in deleted' \cup unlucky'
      <3>1. x \in Ids(n)' \/ Login[x] \in deleted'
        BY <1>1 DEF ServerKeeps, Nodes
      <3>2. QED
        BY <3>1 DEF Somewhere, Nodes
    <2>2. QED
      BY <2>1, NothingLost DEF IInv, ServerKeeps
  <1>5. QED
    BY <1>2, <1>3, <1>4 DEF IInv

(* An upsert of one record, whoever sent it.                               *)
LEMMA UpsertKeeps ==
    ASSUME IInv, NEW x \in Accounts, NEW r \in Accounts, NEW f \in FinalIds(x),
           Upsert(x, r, f), deleted' = deleted
    PROVE  /\ rec' \in [Nodes -> Copies]
           /\ \A n \in Hosts : rec'[n] = rec[n] /\ Ids(n)' = Ids(n)
           /\ f \in Accounts /\ Login[f] = Login[x]
           /\ ServerKeeps
           /\ UniqueLogin'
           /\ Settled(Login[x])'
  <1>1. /\ rec' \in [Nodes -> Copies]
        /\ \A n \in Hosts : rec'[n] = rec[n]
        /\ f \in Accounts /\ Login[f] = Login[x]
        /\ Ids(Server)' = Ids(Server) \cup {f}
        /\ UniqueLogin'
    BY Upserts DEF IInv
  <1>2. \A n \in Hosts : Ids(n)' = Ids(n)
    BY <1>1 DEF Ids
  <1>3. ServerKeeps
    BY <1>1 DEF ServerKeeps
  <1>4. Settled(Login[x])'
    BY <1>1 DEF Settled
  <1>5. QED
    BY <1>1, <1>2, <1>3, <1>4

(* A host whose command ends is idle.                                      *)
LEMMA Finishes ==
    ASSUME IInv, NEW h \in Hosts, Finish(h)
    PROVE  /\ user' \in [Hosts -> Tasks]
           /\ Commanding(h)'
           /\ \A g \in Hosts \ {h} : user'[g] = user[g]
  <1>1. user \in [Hosts -> Tasks] /\ Idle.op = "idle"
    BY DEF IInv, TypeOK, Tasks, Idle
  <1>2. /\ user' \in [Hosts -> Tasks] /\ user'[h].op = "idle"
        /\ \A g \in Hosts \ {h} : user'[g] = user[g]
    BY <1>1, IdleTask DEF Finish
  <1>3. QED
    BY <1>2 DEF Commanding

(* The answer to a push: the end, or the renaming of the account.          *)
LEMMA PushedKeeps == ASSUME IInv, NEW h \in Hosts, Pushed(h) PROVE IInv'
  <1>1. PICK x \in Accounts, r \in Accounts :
            /\ x = user[h].acct /\ r = user[h].snap[x]
    BY DEF IInv, TypeOK, Commanding, Pushed, Copies
  <1>2. PICK f \in FinalIds(x) :
            /\ Upsert(x, r, f)
            /\ IF f = x
               THEN Finish(h)
               ELSE user' = [user EXCEPT ![h] = [Idle EXCEPT !.op = "rename",
                                                   !.acct = x, !.into = f]]
    BY <1>1 DEF Pushed
  <1>3. UNCHANGED <<age, current, sync, faults, deleted, unlucky, commands, fast, revived>>
    BY DEF Pushed
  <1>4. /\ rec' \in [Nodes -> Copies]
        /\ \A n \in Hosts : rec'[n] = rec[n] /\ Ids(n)' = Ids(n)
        /\ f \in Accounts /\ Login[f] = Login[x]
        /\ ServerKeeps /\ UniqueLogin' /\ Settled(Login[x])'
    BY <1>2, <1>3, UpsertKeeps
  <1>5. /\ user' \in [Hosts -> Tasks]
        /\ Commanding(h)'
        /\ \A g \in Hosts \ {h} : user'[g] = user[g]
    <2>1. CASE f = x
      BY <1>2, <2>1, Finishes
    <2>2. CASE f # x
      <3> DEFINE task == [Idle EXCEPT !.op = "rename", !.acct = x, !.into = f]
      <3>1. user' = [user EXCEPT ![h] = task]
        BY <1>2, <2>2
      <3>2. task \in Tasks /\ task.op = "rename" /\ task.acct = x /\ task.into = f
        BY <1>4, IdleTask DEF Tasks
      <3> HIDE DEF task
      <3>3. user \in [Hosts -> Tasks]
        BY DEF IInv, TypeOK, Tasks
      <3>4. user'[h] = task /\ user' \in [Hosts -> Tasks]
            /\ \A g \in Hosts \ {h} : user'[g] = user[g]
        BY <3>1, <3>2, <3>3
      <3>5. Commanding(h)'
        BY <1>4, <3>2, <3>4 DEF Commanding
      <3>6. QED
        BY <3>4, <3>5
    <2>3. QED
      BY <2>1, <2>2
  <1>6. TypeOK'
    BY <1>3, <1>4, <1>5 DEF IInv, TypeOK, Tasks
  <1>7. QED
    BY <1>3, <1>4, <1>5, <1>6, ServerStep

LEMMA PushAnswerLostKeeps == ASSUME IInv, NEW h \in Hosts, PushAnswerLost(h) PROVE IInv'
  <1>1. PICK x \in Accounts, r \in Accounts :
            /\ x = user[h].acct /\ r = user[h].snap[x]
    BY DEF IInv, TypeOK, Commanding, PushAnswerLost, Copies
  <1>2. PICK f \in FinalIds(x) : Upsert(x, r, f)
    BY <1>1 DEF PushAnswerLost
  <1>3. /\ UNCHANGED <<age, current, sync, deleted, unlucky, commands, fast, revived>>
        /\ faults' \in 0 .. MaxFaults
        /\ Finish(h)
    BY SyncAssumption DEF PushAnswerLost, Fault, IInv, TypeOK
  <1>4. /\ rec' \in [Nodes -> Copies]
        /\ \A n \in Hosts : rec'[n] = rec[n] /\ Ids(n)' = Ids(n)
        /\ ServerKeeps /\ UniqueLogin'
    BY <1>2, <1>3, UpsertKeeps
  <1>5. /\ user' \in [Hosts -> Tasks]
        /\ Commanding(h)'
        /\ \A g \in Hosts \ {h} : user'[g] = user[g]
    BY <1>3, Finishes
  <1>6. TypeOK'
    BY <1>3, <1>4, <1>5 DEF IInv, TypeOK, Tasks
  <1>7. QED
    BY <1>3, <1>4, <1>5, <1>6, ServerStep

(* An id leaves the server, whose login a user has deleted.                *)
LEMMA ServerForgets ==
    ASSUME IInv, NEW x \in Accounts, rec' = [rec EXCEPT ![Server][x] = Absent],
           deleted \subseteq deleted', Login[x] \in deleted'
    PROVE  /\ rec' \in [Nodes -> Copies]
           /\ \A n \in Hosts : rec'[n] = rec[n] /\ Ids(n)' = Ids(n)
           /\ ServerKeeps
           /\ UniqueLogin'
  <1>1. Server \in Nodes /\ \A n \in Hosts : n \in Nodes \ {Server}
    BY SyncAssumption DEF Nodes
  <1>2. /\ rec' \in [Nodes -> Copies]
        /\ \A n \in Nodes \ {Server} : rec'[n] = rec[n]
        /\ rec'[Server][x] = Absent
        /\ \A y \in Accounts \ {x} : rec'[Server][y] = rec[Server][y]
    BY <1>1 DEF IInv, TypeOK, Copies
  <1>3. Ids(Server)' = Ids(Server) \ {x} /\ \A n \in Hosts : Ids(n)' = Ids(n)
    BY <1>1, <1>2 DEF Ids
  <1>4. ServerKeeps
    BY <1>3 DEF ServerKeeps
  <1>5. UniqueLogin'
    BY <1>3, NoDoubles DEF IInv
  <1>6. QED
    BY <1>1, <1>2, <1>3, <1>4, <1>5

LEMMA RemoteDeleteKeeps == ASSUME IInv, NEW h \in Hosts, RemoteDelete(h) PROVE IInv'
  <1>1. PICK x \in Accounts : x = user[h].acct /\ Login[x] \in deleted
    BY DEF IInv, Commanding, RemoteDelete
  <1>2. /\ UNCHANGED <<age, current, sync, faults, deleted, unlucky, commands, fast, revived>>
        /\ rec' = [rec EXCEPT ![Server][x] = Absent]
        /\ Finish(h)
    BY <1>1 DEF RemoteDelete
  <1>3. /\ rec' \in [Nodes -> Copies]
        /\ \A n \in Hosts : rec'[n] = rec[n] /\ Ids(n)' = Ids(n)
        /\ ServerKeeps /\ UniqueLogin'
    BY <1>1, <1>2, ServerForgets
  <1>4. /\ user' \in [Hosts -> Tasks]
        /\ Commanding(h)'
        /\ \A g \in Hosts \ {h} : user'[g] = user[g]
    BY <1>2, Finishes
  <1>5. TypeOK'
    BY <1>2, <1>3, <1>4 DEF IInv, TypeOK, Tasks
  <1>6. QED
    BY <1>2, <1>3, <1>4, <1>5, ServerStep

LEMMA ServerDeleteKeeps ==
    ASSUME IInv, NEW x \in Accounts, ServerDelete(x)
    PROVE  IInv'
  <1>1. /\ UNCHANGED <<age, current, sync, user, faults, unlucky, fast, revived>>
        /\ rec' = [rec EXCEPT ![Server][x] = Absent]
        /\ deleted' = deleted \cup {Login[x]}
        /\ commands' \in 0 .. MaxCommands
    BY SyncAssumption DEF ServerDelete, Command, IInv, TypeOK
  <1>2. /\ rec' \in [Nodes -> Copies]
        /\ \A n \in Hosts : rec'[n] = rec[n] /\ Ids(n)' = Ids(n)
        /\ ServerKeeps /\ UniqueLogin'
    BY <1>1, ServerForgets
  <1>3. deleted' \subseteq {Login[y] : y \in Accounts}
    BY <1>1 DEF IInv, TypeOK
  <1>4. TypeOK'
    BY <1>1, <1>2, <1>3 DEF IInv, TypeOK
  <1>5. QED
    BY <1>1, <1>2, <1>4, ServerStep

(* A push of the quota loop that was answered.                             *)
LEMMA PushNextKeeps == ASSUME IInv, NEW h \in Hosts, PushNext(h) PROVE IInv'
  <1>1. PICK x \in ToPush(h), f \in Accounts :
            /\ f \in FinalIds(x)
            /\ Upsert(x, sync[h].cands[x], f)
            /\ sync' = [sync EXCEPT ![h].cands[x] = Absent, ![h].ids = @ \cup {x, f}]
    BY DEF PushNext, FinalIds, SameLogin, ToPush, Ids
  <1>2. x \in Accounts /\ sync[h].cands[x] \in Accounts
    BY DEF ToPush, IInv, TypeOK, Copies
  <1>3. UNCHANGED <<age, current, user, faults, deleted, unlucky, commands, fast, revived>>
    BY DEF PushNext
  <1>4. /\ rec' \in [Nodes -> Copies]
        /\ \A n \in Hosts : rec'[n] = rec[n] /\ Ids(n)' = Ids(n)
        /\ f \in Accounts /\ ServerKeeps /\ UniqueLogin'
    BY <1>1, <1>2, <1>3, UpsertKeeps
  <1>5. sync \in [Hosts -> Rounds]
    BY DEF IInv, TypeOK, Rounds
  <1>6. /\ sync' \in [Hosts -> Rounds]
        /\ sync'[h].pc = sync[h].pc /\ sync'[h].failed = sync[h].failed
        /\ sync'[h].ids = sync[h].ids \cup {x, f}
        /\ \A y \in Accounts \ {x} : sync'[h].cands[y] = sync[h].cands[y]
        /\ \A g \in Hosts \ {h} : sync'[g] = sync[g]
    BY <1>1, <1>2, <1>4, <1>5 DEF Rounds, Copies
  <1>7. Round(h)'
    <2> SUFFICES ASSUME sync[h].pc = "push", NEW y \in Ids(h), y \notin sync'[h].ids
                 PROVE  \/ sync'[h].cands[y] # Absent
                        \/ y \in sync'[h].failed
                        \/ Young(rec[h][y])'
                        \/ Settled(Login[y])'
      BY <1>4, <1>6 DEF Round
    <2>1. y \in Accounts \ {x} /\ y \notin sync[h].ids
      BY <1>6 DEF Ids
    <2>2. \/ sync[h].cands[y] # Absent
          \/ y \in sync[h].failed
          \/ Young(rec[h][y])
          \/ Settled(Login[y])
      BY <2>1 DEF IInv, Round
    <2>3. QED
      BY <1>3, <1>4, <1>6, <2>1, <2>2, SettledStays DEF Young
  <1>8. TypeOK'
    BY <1>3, <1>4, <1>6 DEF IInv, TypeOK, Rounds
  <1>9. QED
    BY <1>3, <1>4, <1>6, <1>7, <1>8, ServerStep

(* One that failed, whether or not the server obeyed.                      *)
LEMMA PushFailsKeeps == ASSUME IInv, NEW h \in Hosts, PushFails(h) PROVE IInv'
  <1>1. PICK x \in ToPush(h) :
            /\ \/ \E f \in FinalIds(x) : Upsert(x, sync[h].cands[x], f)
               \/ rec' = rec
            /\ sync' = [sync EXCEPT ![h].cands[x] = Absent, ![h].failed = @ \cup {x}]
    BY DEF PushFails
  <1>2. x \in Accounts /\ sync[h].cands[x] \in Accounts
    BY DEF ToPush, IInv, TypeOK, Copies
  <1>3. /\ UNCHANGED <<age, current, user, deleted, unlucky, commands, fast, revived>>
        /\ faults' \in 0 .. MaxFaults
    BY SyncAssumption DEF PushFails, Fault, IInv, TypeOK
  <1>4. /\ rec' \in [Nodes -> Copies]
        /\ \A n \in Hosts : rec'[n] = rec[n] /\ Ids(n)' = Ids(n)
        /\ ServerKeeps /\ UniqueLogin'
    <2>1. CASE \E f \in FinalIds(x) : Upsert(x, sync[h].cands[x], f)
      BY <1>2, <1>3, <2>1, UpsertKeeps
    <2>2. CASE rec' = rec
      BY <1>3, <2>2 DEF IInv, TypeOK, ServerKeeps, UniqueLogin, Ids, Nodes
    <2>3. QED
      BY <1>1, <2>1, <2>2
  <1>5. sync \in [Hosts -> Rounds]
    BY DEF IInv, TypeOK, Rounds
  <1>6. /\ sync' \in [Hosts -> Rounds]
        /\ sync'[h].pc = sync[h].pc /\ sync'[h].ids = sync[h].ids
        /\ sync'[h].failed = sync[h].failed \cup {x}
        /\ \A y \in Accounts \ {x} : sync'[h].cands[y] = sync[h].cands[y]
        /\ \A g \in Hosts \ {h} : sync'[g] = sync[g]
    BY <1>1, <1>2, <1>5 DEF Rounds, Copies
  <1>7. Round(h)'
    <2> SUFFICES ASSUME sync[h].pc = "push", NEW y \in Ids(h), y \notin sync[h].ids
                 PROVE  \/ sync'[h].cands[y] # Absent
                        \/ y \in sync'[h].failed
                        \/ Young(rec[h][y])'
                        \/ Settled(Login[y])'
      BY <1>4, <1>6 DEF Round
    <2>1. y \in Accounts
      BY DEF Ids
    <2>2. \/ sync[h].cands[y] # Absent
          \/ y \in sync[h].failed
          \/ Young(rec[h][y])
          \/ Settled(Login[y])
      BY DEF IInv, Round
    <2>3. QED
      BY <1>3, <1>4, <1>6, <2>1, <2>2, SettledStays DEF Young
  <1>8. TypeOK'
    BY <1>3, <1>4, <1>6 DEF IInv, TypeOK, Rounds
  <1>9. QED
    BY <1>3, <1>4, <1>6, <1>7, <1>8, ServerStep

(* The grace period ends between rounds only.                              *)
LEMMA TenMinutesKeeps == ASSUME IInv, NEW x \in Accounts, TenMinutes(x) PROVE IInv'
  <1>1. /\ age[x] = "young" /\ age' = [age EXCEPT ![x] = "old"]
        /\ \A h \in Hosts : sync[h].pc = "idle"
        /\ UNCHANGED <<rec, current, sync, user, faults, deleted, unlucky, commands, fast, revived>>
    BY DEF TenMinutes
  <1>2. TypeOK'
    BY <1>1 DEF IInv, TypeOK, Ids
  <1>3. ServerKeeps
    BY <1>1 DEF ServerKeeps, Ids
  <1>4. \A h \in Hosts : Commanding(h)' /\ Round(h)'
    BY <1>1, <1>3, CommandStays DEF IInv, Round
  <1>5. UniqueLogin'
    BY <1>1 DEF IInv, UniqueLogin, Ids
  <1>6. NoLoginLost'
    <2>1. \A y \in Accounts : age'[y] # "unborn" => age[y] # "unborn"
      BY <1>1 DEF IInv, TypeOK
    <2>2. QED
      BY <1>1, <2>1 DEF IInv, NoLoginLost, Somewhere, Ids
  <1>7. QED
    BY <1>2, <1>4, <1>5, <1>6 DEF IInv

---------------------------------------------------------------------------
(* The fast loop *)

(* It moves a host's pointer, and the ghost that says where to.            *)
LEMMA FastKeeps == ASSUME IInv, NEW h \in Hosts, Fast(h) PROVE IInv'
  <1>1. UNCHANGED <<rec, age, deleted, unlucky, user, sync>>
    BY DEF Fast, FastAsks, FastAnswered, FastFails, FastApplies
  <1>2. TypeOK'
    <2> DEFINE Asking == [acct : Accounts \cup {NoAccount}, answered : BOOLEAN]
    <2>k. ASSUME UNCHANGED <<current, faults, revived>>, commands' \in 0..MaxCommands,
                 NEW t \in Asking, t.answered => t.acct # NoAccount,
                 fast' = [fast EXCEPT ![h] = t]
          PROVE  TypeOK'
      <3>1. /\ fast' \in [Hosts -> Asking]
            /\ \A g \in Hosts : fast'[g].answered => fast'[g].acct # NoAccount
        BY <2>k DEF IInv, TypeOK
      <3>2. QED
        BY <1>1, <2>k, <3>1 DEF IInv, TypeOK, Ids
    <2>1. CASE FastAsks(h)
      <3> DEFINE t == [Sleeping EXCEPT !.acct = current[h]]
      <3>1. t \in Asking /\ ~t.answered
        BY DEF Sleeping, IInv, TypeOK
      <3>2. fast' = [fast EXCEPT ![h] = t]
        BY <2>1 DEF FastAsks, IInv, TypeOK
      <3>3. commands' \in 0..MaxCommands
        BY <2>1, SyncAssumption DEF FastAsks, Command, IInv, TypeOK
      <3> HIDE DEF t
      <3>4. QED
        BY <2>1, <2>k, <3>1, <3>2, <3>3 DEF FastAsks
    <2>2. CASE FastAnswered(h)
      <3> DEFINE t == [fast[h] EXCEPT !.answered = TRUE]
      <3>1. t \in Asking /\ t.acct # NoAccount
        <4>1. fast[h] \in Asking
          BY DEF IInv, TypeOK
        <4>2. fast[h].acct \in Accounts
          BY <2>2 DEF FastAnswered, Ids
        <4>3. QED
          BY <4>1, <4>2, SyncAssumption
      <3>2. /\ UNCHANGED <<current, faults, revived, commands>>
            /\ fast' = [fast EXCEPT ![h] = t]
        BY <2>2 DEF FastAnswered, IInv, TypeOK
      <3>3. commands' \in 0..MaxCommands
        BY <3>2 DEF IInv, TypeOK
      <3> HIDE DEF t
      <3>4. QED
        BY <2>k, <3>1, <3>2, <3>3
    <2>3. CASE FastFails(h)
      <3>1. Sleeping \in Asking /\ ~Sleeping.answered
        BY DEF Sleeping
      <3>2. /\ UNCHANGED <<current, faults, revived, commands>>
            /\ fast' = [fast EXCEPT ![h] = Sleeping]
        BY <2>3 DEF FastFails
      <3>3. commands' \in 0..MaxCommands
        BY <3>2 DEF IInv, TypeOK
      <3>4. QED
        BY <2>k, <3>1, <3>2, <3>3
    <2>4. CASE FastApplies(h)
      <3> DEFINE x == fast[h].acct
      <3>1. x \in Accounts
        BY <2>4 DEF FastApplies, IInv, TypeOK
      <3>2. /\ current' = [current EXCEPT ![h] = x]
            /\ revived' = [revived EXCEPT ![h] = @ \cup ({x} \ Ids(h))]
            /\ fast' = [fast EXCEPT ![h] = Sleeping]
            /\ UNCHANGED <<faults, commands>>
        BY <2>4 DEF FastApplies
      <3> HIDE DEF x
      <3>3. \A g \in Hosts : Ids(g)' = Ids(g)
        BY <1>1 DEF Ids
      <3>4. \A g \in Hosts : current'[g] \in Ids(g)' \cup revived'[g] \cup {NoAccount}
        BY <3>2, <3>3 DEF IInv, TypeOK
      <3>5. /\ current' \in [Hosts -> Accounts \cup {NoAccount}]
            /\ revived' \in [Hosts -> SUBSET Accounts]
        BY <3>1, <3>2 DEF IInv, TypeOK
      <3>6. /\ fast' \in [Hosts -> [acct : Accounts \cup {NoAccount}, answered : BOOLEAN]]
            /\ \A g \in Hosts : fast'[g].answered => fast'[g].acct # NoAccount
        BY <3>2 DEF IInv, TypeOK, Sleeping
      <3>7. QED
        BY <1>1, <3>2, <3>4, <3>5, <3>6 DEF IInv, TypeOK
    <2>5. QED
      BY <2>1, <2>2, <2>3, <2>4 DEF Fast
  <1>3. QED
    BY <1>1, <1>2, RecordsKept, ServerStep

---------------------------------------------------------------------------

LEMMA NextKeepsIInv == IInv /\ [Next]_vars => IInv'
  <1> SUFFICES ASSUME IInv, [Next]_vars PROVE IInv'
    OBVIOUS
  <1>1. ASSUME NEW h \in Hosts, Loop(h) PROVE IInv'
    BY <1>1, FetchKeeps, CandidatesKeeps, PushNextKeeps, PushFailsKeeps, PruneKeeps DEF Loop
  <1>2. ASSUME NEW h \in Hosts, Answer(h) PROVE IInv'
    BY <1>2, SnapshotKeeps, PushedKeeps, PushAnswerLostKeeps, RequestFailsKeeps,
       RenameKeeps, RemoteDeleteKeeps, ListedKeeps, InsertKeeps DEF Answer
  <1>3. ASSUME NEW h \in Hosts, NEW x \in Accounts \cup {NoAccount}, AskList(h, x)
        PROVE  IInv'
    BY <1>3, AskListKeeps
  <1>4. ASSUME NEW h \in Hosts, NEW x \in Accounts,
               LogIn(h, x) \/ PushAccount(h, x) \/ DeleteAccount(h, x) \/ SwitchTo(h, x)
        PROVE  IInv'
    BY <1>4, LogInKeeps, PushAccountKeeps, DeleteAccountKeeps, SwitchToKeeps
  <1>5. ASSUME NEW x \in Accounts, ServerDelete(x) \/ TenMinutes(x)
        PROVE  IInv'
    BY <1>5, ServerDeleteKeeps, TenMinutesKeeps
  <1>6. ASSUME NEW h \in Hosts, Fast(h) PROVE IInv'
    BY <1>6, FastKeeps
  <1>7. ASSUME UNCHANGED vars PROVE IInv'
    <2>1. UNCHANGED <<rec, age, current, sync, user, faults, commands, deleted, unlucky, fast, revived>>
      BY <1>7 DEF vars
    <2>2. TypeOK'
      BY <2>1 DEF IInv, TypeOK, Ids
    <2>3. QED
      BY <2>1, <2>2, RecordsKept, ServerStep
  <1>8. QED
    BY <1>1, <1>2, <1>3, <1>4, <1>5, <1>6, <1>7 DEF Next

THEOREM Invariance == Spec => []IInv
  BY InitIInv, NextKeepsIInv, PTL DEF Spec

(* No rename, deletion or prune leaves a host with a current account that  *)
(* is not in its list; only its fast loop puts one back that has left it.  *)
THEOREM TypeCorrect == Spec => []TypeOK
  <1>1. IInv => TypeOK
    BY DEF IInv
  <1>2. QED
    BY <1>1, Invariance, PTL

(* However many hosts push a login, under whatever ids and in whatever     *)
(* order: the server has it once.                                          *)
THEOREM UniqueLoginHolds == Spec => []UniqueLogin
  <1>1. IInv => UniqueLogin
    BY DEF IInv
  <1>2. QED
    BY <1>1, Invariance, PTL

(* A login is somewhere until a user deletes it, or until it is pruned in  *)
(* a round that could not push it.                                         *)
THEOREM NoLoginLostHolds == Spec => []NoLoginLost
  <1>1. IInv => NoLoginLost
    BY DEF IInv
  <1>2. QED
    BY <1>1, Invariance, PTL
=============================================================================
