---------------------------- MODULE WsBridgeProofs ----------------------------
(* The safety properties of WsBridge hold for any number of connections,   *)
(* accounts, attempts, retries, turns and refusals.                        *)
EXTENDS WsBridge, TLAPS

Flags == [completed : BOOLEAN, tool : BOOLEAN, many : BOOLEAN,
          spark : BOOLEAN, luna : BOOLEAN]
Turns == [no : 0..MaxTurns, at : {"none", "asked", "answering"},
          tool : Forms \cup {"none"}]

(* A loop over candidates has not used up its attempts.                    *)
Tried == {n \in 0..(Attempts + Retries) : n < Attempts}

(* The account list and the ghosts that count.                             *)
StoreOK ==
    /\ current \in Accounts /\ depleted \subseteq Accounts \ Relays
    /\ banned \subseteq Accounts /\ reserve \subseteq Accounts
    /\ refusals \in Nat /\ marks \in Nat
    /\ ProbeFaults \/ OneMarkPerRefusal

(* The connections: types; a token and a target where the code counts on   *)
(* them; a turn on open sockets only; what the bridge remembers of a       *)
(* call to a tool, in a form it looks for, covers what the client was      *)
(* told; and a loop over candidates is entered and repeated with an        *)
(* attempt left.                                                           *)
TasksOK ==
    /\ pc \in [Conns -> PCs]
    /\ acct \in [Conns -> Accounts \cup {NoAccount}]
    /\ target \in [Conns -> Accounts \cup {NoAccount}]
    /\ tries \in [Conns -> 0..(Attempts + Retries)]
    /\ model \in [Conns -> Models \cup {"plain"}]
    /\ flags \in [Conns -> Flags]
    /\ turn \in [Conns -> Turns]
    /\ cut = {}
    /\ \A c \in Conns :
         /\ pc[c] \in {"precheck", "pick", "probe", "take", "dial", "redial", "backoff",
                       "repick", "retake", "relimit", "upgrading",
                       "sniff", "bridged", "relay", "relaying"} => acct[c] # NoAccount
         /\ pc[c] \in {"probe", "take", "retake", "mtake"} => target[c] # NoAccount
         /\ turn[c].at # "none" => pc[c] \in Open \cup {"mpick", "mtake"}
         /\ turn[c].tool \in Detected => flags[c].tool
         /\ pc[c] \in {"idle", "arrive", "token", "precheck", "pick", "probe", "take",
                       "repick", "retake", "relimit"} => tries[c] \in Tried

IInv == StoreOK /\ TasksOK

---------------------------------------------------------------------------
(* What steps have in common *)

LEMMA Untried == 0 \in Tried
  BY ConnAssumption DEF Tried

LEMMA StoreStays ==
    ASSUME StoreOK, UNCHANGED store, NoRefusal
    PROVE  StoreOK'
  BY DEF StoreOK, store, NoRefusal, counts, OneMarkPerRefusal

(* do_switch moves the pointer and marks nobody.                           *)
LEMMA StoreMoves ==
    ASSUME StoreOK, current' \in Accounts, UNCHANGED <<depleted, banned, reserve>>, NoRefusal
    PROVE  StoreOK'
  BY DEF StoreOK, NoRefusal, counts, OneMarkPerRefusal

(* One account is marked at most, and a refusal pays for it.               *)
LEMMA StoreMarks ==
    ASSUME StoreOK, NEW a \in Accounts,
           depleted' = depleted \cup ({a} \ Relays),
           marks' = marks + IF a \in depleted \cup Relays THEN 0 ELSE 1,
           current' = current, banned' = banned, reserve' \subseteq reserve,
           Refuse \/ (ProbeFaults /\ UNCHANGED refusals)
    PROVE  StoreOK'
  <1>1. marks \in Nat /\ refusals \in Nat
    BY DEF StoreOK
  <1>2. marks' \in {marks, marks + 1}
    BY <1>1
  <1>3. refusals' \in {refusals, refusals + 1}
    BY DEF Refuse
  <1>4. Refuse => refusals' = refusals + 1
    BY DEF Refuse
  <1>5. (refusals' = refusals + 1 /\ marks <= refusals) => marks' <= refusals'
    BY <1>1, <1>2
  <1>6. ProbeFaults \/ marks' <= refusals'
    BY <1>4, <1>5 DEF StoreOK, OneMarkPerRefusal
  <1>7. marks' \in Nat /\ refusals' \in Nat
    BY <1>1, <1>2, <1>3
  <1>8. QED
    BY <1>6, <1>7 DEF StoreOK, OneMarkPerRefusal

LEMMA DropKeeps ==
    ASSUME TasksOK, NEW c \in Conns, Drop(c)
    PROVE  TasksOK'
  BY ConnAssumption, Untried DEF TasksOK, Drop, Close, Go, PCs, NoFlags, NoTurn, Flags, Turns, Detected

(* A connection that only goes on.                                         *)
LEMMA StillKeeps ==
    ASSUME TasksOK, NEW c \in Conns, NEW l \in PCs, Still(c, l),
           pc[c] \in Handshake \/ l \in Open \cup {"mpick"},
           l \in Open \cup {"mpick", "dial"} \/ tries[c] \in Tried,
           acct[c] # NoAccount, l \in {"probe", "take", "retake", "mtake"} => target[c] # NoAccount
    PROVE  TasksOK'
  BY DEF TasksOK, Still, Go, client, Open, Handshake

(* pick_next_account returns an account, or what follows without one       *)
(* keeps the invariant.                                                    *)
LEMMA PickKeeps ==
    ASSUME IInv, NEW c \in Conns, NEW at \in PCs \ Open, NEW then \in {"probe", "retake", "mtake"},
           NEW without, Pick(c, at, then, without), without => TasksOK',
           then = "mtake" \/ (at \in {"pick", "repick"})
    PROVE  IInv'
  <1>1. StoreOK'
    BY StoreStays DEF Pick, IInv
  <1>2. TasksOK'
    <2>1. CASE without
      BY <2>1
    <2>2. CASE ~without
      <3>1. PICK a \in Candidates :
                /\ target' = [target EXCEPT ![c] = a]
                /\ Go(c, then)
                /\ UNCHANGED <<acct, tries, model, flags, client>>
        BY <2>2 DEF Pick
      <3>2. a \in Accounts /\ a # NoAccount /\ pc[c] = at
        BY ConnAssumption DEF Candidates, Pick
      <3>3. QED
        BY <3>1, <3>2 DEF IInv, TasksOK, Go, client, Open, PCs, Handshake
    <2>3. QED
      BY <2>1, <2>2
  <1>3. QED
    BY <1>1, <1>2 DEF IInv

LEMMA SwitchKeeps ==
    ASSUME IInv, NEW c \in Conns, NEW at \in {"take", "retake"}, NEW then \in {"dial", "relimit"},
           Switch(c, at, then)
    PROVE  IInv'
  <1>1. target[c] \in Accounts
    BY DEF IInv, TasksOK, Switch
  <1>2. StoreOK'
    BY <1>1, StoreMoves DEF Switch, IInv
  <1>3. TasksOK'
    BY <1>1, ConnAssumption DEF IInv, TasksOK, Switch, Go, client, Open, PCs, Handshake
  <1>4. QED
    BY <1>2, <1>3 DEF IInv

LEMMA RequestTurns ==
    ASSUME TasksOK, NEW c \in Conns, Request(c)
    PROVE  /\ turn' \in [Conns -> Turns] /\ cut' = {}
           /\ turn'[c].tool \notin Detected
           /\ \A d \in Conns \ {c} : turn'[d] = turn[d]
  BY ConnAssumption DEF TasksOK, Request, Turns, Detected

LEMMA TurnEnded ==
    ASSUME TasksOK, NEW c \in Conns, TurnEnds(c)
    PROVE  /\ turn' \in [Conns -> Turns] /\ cut' = {}
           /\ turn'[c].at = "none" /\ turn'[c].tool \notin Detected
           /\ \A d \in Conns \ {c} : turn'[d] = turn[d]
  BY DEF TasksOK, TurnEnds, Turns, Detected

LEMMA FlagsRise ==
    ASSUME TasksOK, NEW c \in Conns, NEW m, Flagged(c, m)
    PROVE  /\ flags' \in [Conns -> Flags]
           /\ flags'[c].tool = flags[c].tool
           /\ \A d \in Conns \ {c} : flags'[d] = flags[d]
  <1>1. flags \in [Conns -> Flags]
    BY DEF TasksOK
  <1>2. PICK sp \in BOOLEAN, lu \in BOOLEAN :
            flags' = [flags EXCEPT ![c] = [[@ EXCEPT !.spark = sp] EXCEPT !.luna = lu]]
    BY <1>1 DEF Flagged, Flags
  <1>3. QED
    BY <1>1, <1>2 DEF Flags

LEMMA InitIInv == Init => IInv
  <1> SUFFICES ASSUME Init PROVE IInv
    OBVIOUS
  <1>1. StoreOK
    BY ConnAssumption DEF Init, StoreOK, OneMarkPerRefusal
  <1>2. TasksOK
    BY ConnAssumption, Untried DEF Init, TasksOK, PCs, NoFlags, NoTurn, Flags, Turns, Detected
  <1>3. QED
    BY <1>1, <1>2 DEF IInv

---------------------------------------------------------------------------
(* The handshake *)

LEMMA ConnectKeeps == ASSUME IInv, NEW c \in Conns, Connect(c) PROVE IInv'
  <1>1. StoreOK'
    BY StoreStays DEF IInv, Connect
  <1>2. TasksOK'
    BY ConnAssumption, Untried
       DEF IInv, TasksOK, Connect, Go, client, Open, PCs, Handshake
  <1>3. QED
    BY <1>1, <1>2 DEF IInv

LEMMA RouteModelKeeps == ASSUME IInv, NEW c \in Conns, RouteModel(c) PROVE IInv'
  <1>1. StoreOK'
    BY StoreStays DEF IInv, RouteModel
  <1>2. TasksOK'
    BY ConnAssumption, Untried
       DEF IInv, TasksOK, RouteModel, Go, client, Open, PCs, Handshake
  <1>3. QED
    BY <1>1, <1>2 DEF IInv

LEMMA RouteRelayKeeps == ASSUME IInv, NEW c \in Conns, RouteRelay(c) PROVE IInv'
  <1>1. StoreOK'
    BY StoreStays DEF IInv, RouteRelay
  <1>2. TasksOK'
    BY ConnAssumption, Untried
       DEF IInv, TasksOK, RouteRelay, Go, client, Open, PCs, Handshake
  <1>3. QED
    BY <1>1, <1>2 DEF IInv

LEMMA RouteUpgradeKeeps == ASSUME IInv, NEW c \in Conns, RouteUpgrade(c) PROVE IInv'
  <1>1. StoreOK'
    BY StoreStays DEF IInv, RouteUpgrade
  <1>2. TasksOK'
    BY ConnAssumption, Untried
       DEF IInv, TasksOK, RouteUpgrade, Go, client, Open, PCs, Handshake
  <1>3. QED
    BY <1>1, <1>2 DEF IInv

LEMMA TakeTokenKeeps == ASSUME IInv, NEW c \in Conns, TakeToken(c) PROVE IInv'
  <1>1. StoreOK'
    BY StoreStays DEF IInv, TakeToken
  <1>2. TasksOK'
    BY ConnAssumption, Untried
       DEF IInv, TasksOK, TakeToken, Go, client, Open, PCs, Handshake, StoreOK
  <1>3. QED
    BY <1>1, <1>2 DEF IInv

LEMMA PrecheckKeeps == ASSUME IInv, NEW c \in Conns, Precheck(c) PROVE IInv'
  <1>1. StoreOK'
    BY StoreStays DEF IInv, Precheck
  <1>2. TasksOK'
    BY ConnAssumption, Untried
       DEF IInv, TasksOK, Precheck, Go, client, Open, PCs, Handshake
  <1>3. QED
    BY <1>1, <1>2 DEF IInv

LEMMA PickCandidateKeeps == ASSUME IInv, NEW c \in Conns, PickCandidate(c) PROVE IInv'
  <1>1. Still(c, "dial") /\ pc[c] = "pick" => TasksOK'
    BY StillKeeps DEF IInv, TasksOK, PCs, Handshake
  <1>2. QED
    BY <1>1, PickKeeps DEF PickCandidate, Pick, PCs, Handshake, Open

LEMMA ProbeFindsKeeps == ASSUME IInv, NEW c \in Conns, ProbeFinds(c) PROVE IInv'
  <1>1. StoreOK'
    BY StoreStays DEF IInv, ProbeFinds
  <1>2. TasksOK'
    BY StillKeeps DEF IInv, TasksOK, ProbeFinds, PCs, Handshake
  <1>3. QED
    BY <1>1, <1>2 DEF IInv

LEMMA TakeCandidateKeeps == ASSUME IInv, NEW c \in Conns, TakeCandidate(c) PROVE IInv'
  BY SwitchKeeps DEF TakeCandidate

LEMMA ProbeFailsKeeps == ASSUME IInv, NEW c \in Conns, ProbeFails(c) PROVE IInv'
  <1>1. target[c] \in Accounts
    BY DEF IInv, TasksOK, ProbeFails
  <1>2. StoreOK'
    BY <1>1, StoreMarks DEF IInv, ProbeFails, MarkDepleted
  <1>3. TasksOK'
    <2>1. tries[c] \in Tried
      BY DEF IInv, TasksOK, ProbeFails
    <2>2. tries[c] + 1 = Attempts \/ tries[c] + 1 \in Tried
      BY <2>1, ConnAssumption DEF Tried
    <2>3. PICK n \in Tried, l \in {"dial", "pick"} :
              tries' = [tries EXCEPT ![c] = n] /\ Go(c, l)
      BY <2>2, Untried DEF ProbeFails
    <2>4. n \in 0..(Attempts + Retries)
      BY DEF Tried
    <2>5. QED
      BY <2>3, <2>4, ConnAssumption DEF IInv, TasksOK, ProbeFails, Go, client, Open, PCs, Handshake
  <1>4. QED
    BY <1>2, <1>3 DEF IInv

LEMMA DialledKeeps == ASSUME IInv, NEW c \in Conns, Dialled(c) PROVE IInv'
  <1>1. StoreOK'
    BY StoreStays DEF IInv, Dialled
  <1>2. TasksOK'
    BY ConnAssumption, Untried
       DEF IInv, TasksOK, Dialled, Go, client, Open, PCs, Handshake
  <1>3. QED
    BY <1>1, <1>2 DEF IInv

LEMMA DialCapacityKeeps == ASSUME IInv, NEW c \in Conns, DialCapacity(c) PROVE IInv'
  <1>1. StoreOK'
    BY StoreStays DEF IInv, DialCapacity
  <1>2. TasksOK'
    BY ConnAssumption, Untried
       DEF IInv, TasksOK, DialCapacity, Go, client, Open, PCs, Handshake
  <1>3. QED
    BY <1>1, <1>2 DEF IInv

LEMMA BackoffKeeps == ASSUME IInv, NEW c \in Conns, Backoff(c) PROVE IInv'
  <1>1. StoreOK'
    BY StoreStays DEF IInv, Backoff
  <1>2. TasksOK'
    <2>1. CASE Drop(c)
      BY <2>1, DropKeeps DEF IInv
    <2>2. CASE ~Drop(c)
      <3>1. PICK n \in 0..(Attempts + Retries), l \in {"upgrading", "backoff"} :
                /\ tries' = [tries EXCEPT ![c] = n]
                /\ Go(c, l)
        BY <2>2, ConnAssumption DEF IInv, TasksOK, Backoff
      <3>2. current \in Accounts /\ acct' = [acct EXCEPT ![c] = current]
            /\ UNCHANGED <<target, model, flags, client>> /\ pc[c] = "backoff"
        BY <2>2 DEF IInv, StoreOK, Backoff
      <3>3. QED
        BY <3>1, <3>2, ConnAssumption DEF IInv, TasksOK, Go, client, Open, PCs, Handshake
    <2>3. QED
      BY <2>1, <2>2
  <1>3. QED
    BY <1>1, <1>2 DEF IInv

LEMMA DialUnauthorizedKeeps == ASSUME IInv, NEW c \in Conns, DialUnauthorized(c) PROVE IInv'
  <1>1. StoreOK'
    BY StoreStays DEF IInv, DialUnauthorized
  <1>2. TasksOK'
    <2>1. CASE Drop(c)
      BY <2>1, DropKeeps DEF IInv
    <2>2. CASE ~Drop(c)
      BY <2>2, ConnAssumption
         DEF IInv, StoreOK, TasksOK, DialUnauthorized, Go, client, Open, PCs, Handshake
    <2>3. QED
      BY <2>1, <2>2
  <1>3. QED
    BY <1>1, <1>2 DEF IInv

LEMMA DialFailsKeeps == ASSUME IInv, NEW c \in Conns, DialFails(c) PROVE IInv'
  <1>1. StoreOK'
    BY StoreStays DEF IInv, DialFails
  <1>2. TasksOK'
    BY DropKeeps DEF IInv, DialFails
  <1>3. QED
    BY <1>1, <1>2 DEF IInv

LEMMA DialLimitedKeeps == ASSUME IInv, NEW c \in Conns, DialLimited(c) PROVE IInv'
  <1>1. StoreOK'
    BY StoreMarks DEF IInv, DialLimited, StoreOK, MarkDepleted
  <1>2. TasksOK'
    BY ConnAssumption, Untried
       DEF IInv, TasksOK, DialLimited, Go, client, Open, PCs, Handshake
  <1>3. QED
    BY <1>1, <1>2 DEF IInv

LEMMA RepickKeeps == ASSUME IInv, NEW c \in Conns, Repick(c) PROVE IInv'
  BY DropKeeps, PickKeeps DEF IInv, Repick, PCs, Handshake, Open

LEMMA TakeNextKeeps == ASSUME IInv, NEW c \in Conns, TakeNext(c) PROVE IInv'
  BY SwitchKeeps DEF TakeNext

LEMMA RedialLimitedKeeps == ASSUME IInv, NEW c \in Conns, RedialLimited(c) PROVE IInv'
  <1>1. StoreOK'
    BY StoreMarks DEF IInv, StoreOK, RedialLimited, MarkDepleted
  <1>2. TasksOK'
    <2>1. CASE Drop(c)
      BY <2>1, DropKeeps DEF IInv
    <2>2. CASE ~Drop(c)
      <3>1. tries[c] \in Tried
        BY DEF IInv, TasksOK, RedialLimited
      <3>2. tries[c] + 1 = Attempts \/ tries[c] + 1 \in Tried
        BY <3>1, ConnAssumption DEF Tried
      <3>3. PICK n \in Tried : tries' = [tries EXCEPT ![c] = n]
        BY <2>2, <3>2 DEF RedialLimited
      <3>4. n \in 0..(Attempts + Retries)
        BY DEF Tried
      <3>5. QED
        BY <2>2, <3>3, <3>4, ConnAssumption
           DEF IInv, TasksOK, RedialLimited, Go, client, Open, PCs, Handshake
    <2>3. QED
      BY <2>1, <2>2
  <1>3. QED
    BY <1>1, <1>2 DEF IInv

LEMMA UpgradeKeeps == ASSUME IInv, NEW c \in Conns, Upgrade(c) PROVE IInv'
  <1>1. StoreOK'
    BY StoreStays DEF IInv, Upgrade
  <1>2. TasksOK'
    BY StillKeeps DEF IInv, TasksOK, Upgrade, PCs, Handshake, Open
  <1>3. QED
    BY <1>1, <1>2 DEF IInv

---------------------------------------------------------------------------
(* The bridge and the adapters *)

LEMMA SniffKeeps == ASSUME IInv, NEW c \in Conns, Sniff(c) PROVE IInv'
  <1>1. StoreOK'
    BY StoreStays DEF IInv, Sniff
  <1>2. TasksOK'
    <2>1. PICK m \in Models : Request(c) /\ (m # "provider" => Flagged(c, m))
                              /\ (m = "provider" => UNCHANGED flags)
      BY DEF Sniff
    <2>2. /\ flags' \in [Conns -> Flags] /\ flags'[c].tool = flags[c].tool
          /\ \A d \in Conns \ {c} : flags'[d] = flags[d]
      BY <2>1, FlagsRise DEF IInv, TasksOK
    <2>3. /\ turn' \in [Conns -> Turns] /\ cut' = {} /\ turn'[c].tool \notin Detected
          /\ \A d \in Conns \ {c} : turn'[d] = turn[d]
      BY <2>1, RequestTurns DEF IInv
    <2>4. PICK l \in {"routing", "bridged"} : Go(c, l) /\ (l = "bridged" => UNCHANGED acct)
                                              /\ acct' \in [Conns -> Accounts \cup {NoAccount}]
                                              /\ \A d \in Conns \ {c} : acct'[d] = acct[d]
      BY DEF Sniff, IInv, TasksOK
    <2>5. UNCHANGED <<target, tries, model>> /\ pc[c] = "sniff"
      BY DEF Sniff
    <2>6. QED
      BY <2>2, <2>3, <2>4, <2>5 DEF IInv, TasksOK, Go, Open, PCs, Handshake
  <1>3. QED
    BY <1>1, <1>2 DEF IInv

LEMMA SniffEndsKeeps == ASSUME IInv, NEW c \in Conns, SniffEnds(c) PROVE IInv'
  <1>1. StoreOK'
    BY StoreStays DEF IInv, SniffEnds
  <1>2. TasksOK'
    BY StillKeeps DEF IInv, TasksOK, SniffEnds, PCs, Handshake, Open
  <1>3. QED
    BY <1>1, <1>2 DEF IInv

LEMMA AskKeeps == ASSUME IInv, NEW c \in Conns, Ask(c) PROVE IInv'
  <1>1. StoreOK'
    BY StoreStays DEF IInv, Ask
  <1>2. TasksOK'
    <2>1. PICK m \in Models : Request(c) /\ Flagged(c, m)
      BY DEF Ask
    <2>2. /\ flags' \in [Conns -> Flags] /\ flags'[c].tool = flags[c].tool
          /\ \A d \in Conns \ {c} : flags'[d] = flags[d]
      BY <2>1, FlagsRise DEF IInv
    <2>3. /\ turn' \in [Conns -> Turns] /\ cut' = {} /\ turn'[c].tool \notin Detected
          /\ \A d \in Conns \ {c} : turn'[d] = turn[d]
      BY <2>1, RequestTurns DEF IInv
    <2>4. QED
      BY <2>2, <2>3 DEF Ask, IInv, TasksOK, Open
  <1>3. QED
    BY <1>1, <1>2 DEF IInv

LEMMA CreatedKeeps == ASSUME IInv, NEW c \in Conns, Created(c) PROVE IInv'
  <1>1. StoreOK'
    BY StoreStays DEF IInv, Created, Frame
  <1>2. TasksOK'
    BY ConnAssumption, Untried
       DEF IInv, TasksOK, Created, Go, client, Open, PCs, Handshake, Frame, Turns
  <1>3. QED
    BY <1>1, <1>2 DEF IInv

LEMMA DeltasKeeps == ASSUME IInv, NEW c \in Conns, Deltas(c) PROVE IInv'
  <1>1. StoreOK'
    BY StoreStays DEF IInv, Deltas, Frame
  <1>2. TasksOK'
    <2>1. /\ flags' \in [Conns -> Flags] /\ flags'[c].tool = flags[c].tool
          /\ \A d \in Conns \ {c} : flags'[d] = flags[d]
      <3>1. flags \in [Conns -> Flags] /\ flags' = [flags EXCEPT ![c].many = TRUE]
        BY DEF IInv, TasksOK, Deltas
      <3>2. QED
        BY <3>1 DEF Flags
    <2>2. QED
      BY <2>1 DEF IInv, TasksOK, Deltas, Frame, client
  <1>3. QED
    BY <1>1, <1>2 DEF IInv

LEMMA ToolCallKeeps == ASSUME IInv, NEW c \in Conns, ToolCall(c) PROVE IInv'
  <1>1. StoreOK'
    BY StoreStays DEF IInv, ToolCall, Frame
  <1>2. TasksOK'
    <2>0. /\ turn \in [Conns -> Turns] /\ flags \in [Conns -> Flags]
          /\ turn[c].tool \in Detected => flags[c].tool
      BY DEF IInv, TasksOK
    <2>1. PICK form \in Forms :
            /\ turn' = [turn EXCEPT ![c].tool = IF @ \in Detected THEN @ ELSE form]
            /\ flags' = [flags EXCEPT ![c].tool = @ \/ form \in Detected]
      BY DEF ToolCall
    <2>2. /\ turn' \in [Conns -> Turns] /\ flags' \in [Conns -> Flags]
          /\ turn'[c].tool \in Detected => flags'[c].tool
          /\ turn'[c].at = turn[c].at
          /\ \A d \in Conns \ {c} : turn'[d] = turn[d] /\ flags'[d] = flags[d]
      <3>1. PICK t \in Forms \cup {"none"} :
              turn' = [turn EXCEPT ![c].tool = t] /\ t = IF turn[c].tool \in Detected THEN turn[c].tool ELSE form
        BY <2>0, <2>1 DEF Turns
      <3>2. PICK b \in BOOLEAN :
              flags' = [flags EXCEPT ![c].tool = b] /\ b = (flags[c].tool \/ form \in Detected)
        BY <2>0, <2>1 DEF Flags
      <3>3. t \in Detected => b
        BY <2>0, <3>1, <3>2
      <3>4. /\ turn' \in [Conns -> Turns] /\ turn'[c].tool = t
            /\ turn'[c].at = turn[c].at
            /\ \A d \in Conns \ {c} : turn'[d] = turn[d]
        BY <2>0, <3>1 DEF Turns
      <3>5. /\ flags' \in [Conns -> Flags] /\ flags'[c].tool = b
            /\ \A d \in Conns \ {c} : flags'[d] = flags[d]
        BY <2>0, <3>2 DEF Flags
      <3>6. QED
        BY <3>3, <3>4, <3>5
    <2>3. UNCHANGED <<pc, cut, acct, target, tries, model>> /\ pc[c] = "bridged"
      BY DEF ToolCall, Frame
    <2>4. QED
      BY <2>2, <2>3 DEF IInv, TasksOK, Open
  <1>3. QED
    BY <1>1, <1>2 DEF IInv

LEMMA CompletedKeeps == ASSUME IInv, NEW c \in Conns, Completed(c) PROVE IInv'
  <1>1. StoreOK'
    BY StoreStays DEF IInv, Completed, Frame
  <1>2. TasksOK'
    <2>1. /\ turn' \in [Conns -> Turns] /\ cut' = {}
          /\ turn'[c].at = "none" /\ turn'[c].tool \notin Detected
          /\ \A d \in Conns \ {c} : turn'[d] = turn[d]
      BY TurnEnded DEF IInv, Completed
    <2>2. /\ flags' \in [Conns -> Flags]
          /\ \A d \in Conns \ {c} : flags'[d] = flags[d]
      <3>1. flags \in [Conns -> Flags] /\ flags' = [flags EXCEPT ![c].completed = TRUE]
        BY DEF IInv, TasksOK, Completed
      <3>2. QED
        BY <3>1 DEF Flags
    <2>3. QED
      BY <2>1, <2>2 DEF IInv, TasksOK, Completed, Frame
  <1>3. QED
    BY <1>1, <1>2 DEF IInv

LEMMA FailedKeeps == ASSUME IInv, NEW c \in Conns, Failed(c) PROVE IInv'
  <1>1. StoreOK'
    BY StoreStays DEF IInv, Failed, Frame
  <1>2. TasksOK'
    <2>1. /\ turn' \in [Conns -> Turns] /\ cut' = {}
          /\ turn'[c].at = "none" /\ turn'[c].tool \notin Detected
          /\ \A d \in Conns \ {c} : turn'[d] = turn[d]
      BY TurnEnded DEF IInv, Failed
    <2>2. QED
      BY <2>1 DEF IInv, TasksOK, Failed, Frame
  <1>3. QED
    BY <1>1, <1>2 DEF IInv

LEMMA LimitedKeeps == ASSUME IInv, NEW c \in Conns, Limited(c) PROVE IInv'
  <1>1. CASE flags[c].spark
    BY <1>1, StoreStays, DropKeeps DEF IInv, Limited
  <1>2. CASE ~flags[c].spark
    <2>1. StoreOK'
      <3>1. current \in Accounts /\ reserve' \subseteq reserve
        BY <1>2 DEF IInv, StoreOK, Limited
      <3>2. QED
        BY <1>2, <3>1, StoreMarks DEF IInv, Limited
    <2>2. TasksOK'
      <3>1. Still(c, "mpick") /\ acct[c] # NoAccount
        BY <1>2 DEF IInv, TasksOK, Limited
      <3>2. QED
        BY <3>1, StillKeeps DEF IInv, PCs
    <2>3. QED
      BY <2>1, <2>2 DEF IInv
  <1>3. QED
    BY <1>1, <1>2

(* A ban marks no account: it only uses up a refusal.                      *)
LEMMA BannedFrameKeeps == ASSUME IInv, NEW c \in Conns, BannedFrame(c) PROVE IInv'
  <1>1. StoreOK'
    <2>1. ProbeFaults \/ marks <= refusals
      BY DEF IInv, StoreOK, OneMarkPerRefusal
    <2>2. marks' = marks /\ refusals' = refusals + 1 /\ marks \in Nat /\ refusals \in Nat
      BY DEF IInv, StoreOK, BannedFrame, Refuse
    <2>3. marks <= refusals => marks' <= refusals'
      BY <2>2
    <2>4. refusals' \in Nat /\ marks' \in Nat
      BY <2>2
    <2>5. QED
      BY <2>1, <2>3, <2>4 DEF IInv, StoreOK, OneMarkPerRefusal, BannedFrame
  <1>2. TasksOK'
    <2>1. Still(c, "mpick") /\ acct[c] # NoAccount
      BY DEF IInv, TasksOK, BannedFrame
    <2>2. QED
      BY <2>1, StillKeeps DEF IInv, PCs
  <1>3. QED
    BY <1>1, <1>2 DEF IInv

LEMMA MovePickKeeps == ASSUME IInv, NEW c \in Conns, MovePick(c) PROVE IInv'
  BY DropKeeps, PickKeeps DEF IInv, MovePick, PCs, Handshake, Open

LEMMA MoveTakeKeeps == ASSUME IInv, NEW c \in Conns, MoveTake(c) PROVE IInv'
  <1>1. target[c] \in Accounts
    BY DEF IInv, TasksOK, MoveTake
  <1>2. QED
    BY <1>1, StoreMoves, DropKeeps DEF IInv, MoveTake

LEMMA CapacityFrameKeeps == ASSUME IInv, NEW c \in Conns, CapacityFrame(c) PROVE IInv'
  <1>1. StoreOK'
    BY StoreStays DEF IInv, CapacityFrame
  <1>2. TasksOK'
    BY DropKeeps DEF IInv, CapacityFrame
  <1>3. QED
    BY <1>1, <1>2 DEF IInv

LEMMA UpstreamBreaksKeeps == ASSUME IInv, NEW c \in Conns, UpstreamBreaks(c) PROVE IInv'
  <1>1. StoreOK'
    BY StoreStays DEF IInv, UpstreamBreaks
  <1>2. TasksOK'
    <2>1. turn[c].tool \notin Detected \/ ~Synthesizes(flags[c])
      BY DEF IInv, TasksOK, Synthesizes
    <2>2. Drop(c)
      BY <2>1 DEF UpstreamBreaks, Drop
    <2>3. QED
      BY <2>2, DropKeeps DEF IInv
  <1>3. QED
    BY <1>1, <1>2 DEF IInv

LEMMA HangupKeeps == ASSUME IInv, NEW c \in Conns, Hangup(c) PROVE IInv'
  <1>1. StoreOK'
    BY StoreStays DEF IInv, Hangup
  <1>2. TasksOK'
    BY DropKeeps DEF IInv, Hangup
  <1>3. QED
    BY <1>1, <1>2 DEF IInv

LEMMA RelayAskKeeps == ASSUME IInv, NEW c \in Conns, RelayAsk(c) PROVE IInv'
  <1>1. StoreOK'
    BY StoreStays DEF IInv, RelayAsk
  <1>2. TasksOK'
    <2>1. /\ turn' \in [Conns -> Turns] /\ cut' = {} /\ turn'[c].tool \notin Detected
          /\ \A d \in Conns \ {c} : turn'[d] = turn[d]
      BY RequestTurns DEF IInv, RelayAsk
    <2>2. QED
      BY <2>1 DEF IInv, TasksOK, RelayAsk, Go, Open, PCs, Handshake
  <1>3. QED
    BY <1>1, <1>2 DEF IInv

LEMMA RelayAnswersKeeps == ASSUME IInv, NEW c \in Conns, RelayAnswers(c) PROVE IInv'
  <1>1. StoreOK'
    BY StoreStays DEF IInv, RelayAnswers
  <1>2. TasksOK'
    <2>1. /\ turn' \in [Conns -> Turns] /\ cut' = {}
          /\ turn'[c].at = "none" /\ turn'[c].tool \notin Detected
          /\ \A d \in Conns \ {c} : turn'[d] = turn[d]
      BY TurnEnded DEF IInv, RelayAnswers
    <2>2. QED
      BY <2>1 DEF IInv, TasksOK, RelayAnswers, Go, Open, PCs, Handshake
  <1>3. QED
    BY <1>1, <1>2 DEF IInv

LEMMA AdapterAskKeeps == ASSUME IInv, NEW c \in Conns, AdapterAsk(c) PROVE IInv'
  <1>1. StoreOK'
    BY StoreStays DEF IInv, AdapterAsk
  <1>2. TasksOK'
    <2>1. /\ turn' \in [Conns -> Turns] /\ cut' = {} /\ turn'[c].tool \notin Detected
          /\ \A d \in Conns \ {c} : turn'[d] = turn[d]
      BY RequestTurns DEF IInv, AdapterAsk
    <2>2. QED
      BY <2>1 DEF IInv, TasksOK, AdapterAsk, Go, Open, PCs, Handshake
  <1>3. QED
    BY <1>1, <1>2 DEF IInv

LEMMA AdapterAnswersKeeps == ASSUME IInv, NEW c \in Conns, AdapterAnswers(c) PROVE IInv'
  <1>1. StoreOK'
    BY StoreStays DEF IInv, AdapterAnswers
  <1>2. TasksOK'
    <2>1. /\ turn' \in [Conns -> Turns] /\ cut' = {}
          /\ turn'[c].at = "none" /\ turn'[c].tool \notin Detected
          /\ \A d \in Conns \ {c} : turn'[d] = turn[d]
      BY TurnEnded DEF IInv, AdapterAnswers
    <2>2. QED
      BY <2>1 DEF IInv, TasksOK, AdapterAnswers, Go, Open, PCs, Handshake
  <1>3. QED
    BY <1>1, <1>2 DEF IInv

LEMMA AdapterFailsKeeps == ASSUME IInv, NEW c \in Conns, AdapterFails(c) PROVE IInv'
  <1>1. StoreOK'
    BY StoreStays DEF IInv, AdapterFails
  <1>2. TasksOK'
    BY DropKeeps DEF IInv, AdapterFails
  <1>3. QED
    BY <1>1, <1>2 DEF IInv

---------------------------------------------------------------------------
(* The user *)

LEMMA UserSwitchKeeps == ASSUME IInv, NEW a \in Accounts, UserSwitch(a) PROVE IInv'
  <1>1. StoreOK'
    BY StoreMoves DEF IInv, UserSwitch
  <1>2. NoFlags \in Flags /\ NoTurn \in Turns /\ NoTurn.at = "none" /\ NoTurn.tool \notin Detected
    BY ConnAssumption DEF NoFlags, NoTurn, Flags, Turns, Detected
  <1>3. /\ flags' \in [Conns -> Flags] /\ turn' \in [Conns -> Turns]
        /\ acct' \in [Conns -> Accounts \cup {NoAccount}]
        /\ target' \in [Conns -> Accounts \cup {NoAccount}]
        /\ pc' \in [Conns -> PCs]
    BY <1>2 DEF IInv, TasksOK, UserSwitch, PCs
  <1>4. /\ tries' \in [Conns -> 0..(Attempts + Retries)]
        /\ \A c \in Conns : (pc'[c] = pc[c] /\ tries'[c] = tries[c]) \/ tries'[c] = 0
    BY ConnAssumption DEF IInv, TasksOK, UserSwitch
  <1>5. \A c \in Conns : \/ pc'[c] = "idle" /\ turn'[c] = NoTurn
                         \/ /\ pc'[c] = pc[c] /\ acct'[c] = acct[c] /\ target'[c] = target[c]
                            /\ flags'[c] = flags[c] /\ turn'[c] = turn[c]
    BY DEF UserSwitch
  <1>6. UNCHANGED <<model, cut>>
    BY DEF UserSwitch
  <1>7. TasksOK'
    BY <1>2, <1>3, <1>4, <1>5, <1>6, Untried DEF IInv, TasksOK
  <1>8. QED
    BY <1>1, <1>7 DEF IInv

LEMMA RenewKeeps == ASSUME IInv, NEW a \in Accounts, Renew(a) PROVE IInv'
  BY DEF IInv, StoreOK, TasksOK, Renew, client, counts, OneMarkPerRefusal

LEMMA StutterKeeps == ASSUME IInv, UNCHANGED vars PROVE IInv'
  BY DEF IInv, StoreOK, TasksOK, vars, store, client, counts, OneMarkPerRefusal

---------------------------------------------------------------------------
(* The theorems *)

LEMMA HandshakingKeeps == ASSUME IInv, NEW c \in Conns, Handshaking(c) PROVE IInv'
  BY RouteModelKeeps, RouteRelayKeeps, RouteUpgradeKeeps, TakeTokenKeeps,
     PrecheckKeeps, PickCandidateKeeps, ProbeFindsKeeps,
     TakeCandidateKeeps, ProbeFailsKeeps, DialledKeeps, DialCapacityKeeps,
     BackoffKeeps, DialUnauthorizedKeeps, DialFailsKeeps, DialLimitedKeeps,
     RepickKeeps, TakeNextKeeps, RedialLimitedKeeps, UpgradeKeeps
  DEF Handshaking

LEMMA BridgingKeeps == ASSUME IInv, NEW c \in Conns, Bridging(c) PROVE IInv'
  BY SniffKeeps, SniffEndsKeeps, AskKeeps, CreatedKeeps, DeltasKeeps,
     ToolCallKeeps, CompletedKeeps, FailedKeeps, LimitedKeeps,
     BannedFrameKeeps, MovePickKeeps, MoveTakeKeeps, CapacityFrameKeeps,
     UpstreamBreaksKeeps, HangupKeeps, RelayAskKeeps, RelayAnswersKeeps,
     AdapterAskKeeps, AdapterAnswersKeeps, AdapterFailsKeeps
  DEF Bridging

LEMMA Invariance == Spec => []IInv
  <1>1. IInv /\ [Next]_vars => IInv'
    <2> SUFFICES ASSUME IInv, [Next]_vars PROVE IInv'
      OBVIOUS
    <2>1. CASE \E c \in Conns : Connect(c) \/ Handshaking(c) \/ Bridging(c)
      BY <2>1, ConnectKeeps, HandshakingKeeps, BridgingKeeps
    <2>2. CASE \E a \in Accounts : UserSwitch(a) \/ Renew(a)
      BY <2>2, UserSwitchKeeps, RenewKeeps
    <2>3. CASE UNCHANGED vars
      BY <2>3, StutterKeeps
    <2>4. QED
      BY <2>1, <2>2, <2>3 DEF Next
  <1>2. QED
    BY InitIInv, <1>1, PTL DEF Spec

(* Types, and: a socket carries an account's token exactly while it is     *)
(* bridged or with a relay, and a turn is only under way on an open socket. *)
THEOREM TypeCorrect == Spec => []TypeOK
  <1>1. IInv => TypeOK
    BY DEF IInv, StoreOK, TasksOK, TypeOK, Flags, Turns
  <1>2. QED
    BY Invariance, <1>1, PTL

(* The bridge never ends an answer that has asked for a tool, in a form it  *)
(* looks for, in place of the upstream that broke off (proxy.rs:7325, 7474). *)
THEOREM ToolCallIsNotCutHolds == Spec => []ToolCallIsNotCut
  <1>1. IInv => ToolCallIsNotCut
    BY DEF IInv, TasksOK, ToolCallIsNotCut
  <1>2. QED
    BY Invariance, <1>1, PTL

(* While the queries for a candidate's quota are answered, one refusal of  *)
(* the upstream takes one account out of the pool at most, however many    *)
(* connections are under way.                                              *)
THEOREM OneMarkHolds ==
    ASSUME ProbeFaults = FALSE
    PROVE  Spec => []OneMarkPerRefusal
  <1>1. IInv => OneMarkPerRefusal
    BY DEF IInv, StoreOK
  <1>2. QED
    BY Invariance, <1>1, PTL

=============================================================================
