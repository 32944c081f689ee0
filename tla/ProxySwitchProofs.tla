------------------------- MODULE ProxySwitchProofs -------------------------
(* The safety properties of ProxySwitch hold for any accounts, requests,   *)
(* sessions, routes and bounds.                                            *)
EXTENDS ProxySwitch, TLAPS

(* TypeOK in parts, one for each group of variables. *)
PoolType ==
    /\ flagged \subseteq Accounts
    /\ depleted \subseteq Accounts \ Relays
    /\ cooling \subseteq Accounts
    /\ binding \in [Sessions -> MaybeAccount]

GuardType == switching \in BOOLEAN /\ held \subseteq Requests

RequestType ==
    /\ pc \in [Requests -> PCs]
    /\ used \in [Requests -> MaybeAccount]
    /\ owner \in [Requests -> MaybeAccount]
    /\ entry \in [Requests -> MaybeAccount]
    /\ target \in [Requests -> MaybeAccount]
    /\ tries \in [Requests -> Nat]
    /\ count \in [Requests -> Nat]

BehindType ==
    /\ back \in [Requests -> {"none", "check", "pick", "switch"}]
    /\ backTarget \in [Requests -> MaybeAccount]

BoundsType == events \in 0..MaxEvents /\ drops \in 0..MaxDrops /\ allowOut \in BOOLEAN

(* Where a request acts on the account it picked, there is one, and only   *)
(* with the user's leave is it a relay.                                    *)
Acting == {"switch", "retry", "refresh", "sswitch"}

TargetKnown ==
    \A r \in Requests :
        /\ pc[r] \in Acting => target[r] \in Accounts
        /\ target[r] \in Relays => AllowIn

BackTargetKnown ==
    \A r \in Requests :
        /\ back[r] = "switch" => backTarget[r] \in Accounts
        /\ backTarget[r] \in Relays => AllowIn

IInv ==
    /\ current \in Accounts
    /\ PoolType
    /\ GuardType
    /\ RequestType /\ TargetKnown
    /\ BehindType /\ BackTargetKnown
    /\ BoundsType

LEMMA IInvTypes == IInv => TypeOK
  BY DEF IInv, TypeOK, PoolType, GuardType, RequestType, BehindType, BoundsType

---------------------------------------------------------------------------
(* The helpers *)

(* Choosing an account finds one of the list, a relay only with leave. *)
LEMMA PicksAreKnown ==
    /\ Candidates \subseteq Accounts
    /\ Picks \subseteq Accounts
    /\ \A a \in Picks : a \in Relays => AllowIn
  BY DEF Picks, Candidates, Unflagged

LEMMA ResolvedIsKnown ==
    ASSUME IInv, NEW r \in Requests
    PROVE  /\ Resolved(r) \in Accounts
           /\ EffectiveRelay(r) \in MaybeAccount
           /\ Cleaned(r) \in [Sessions -> MaybeAccount]
  <1>1. BoundTo(r) \in MaybeAccount
    BY RequestAssumption DEF BoundTo, IInv, PoolType, MaybeAccount
  <1>2. RouteOf[r] \in MaybeAccount
    BY RequestAssumption DEF MaybeAccount
  <1>3. Resolved(r) \in Accounts
    BY <1>1, <1>2, AccountAssumption DEF Resolved, MaybeAccount, IInv
  <1>4. EffectiveRelay(r) \in MaybeAccount
    BY <1>2, AccountAssumption DEF EffectiveRelay, MaybeAccount, IInv
  <1>5. Cleaned(r) \in [Sessions -> MaybeAccount]
    BY AccountAssumption DEF Cleaned, IInv, PoolType, MaybeAccount
  <1>6. QED
    BY <1>3, <1>4, <1>5

(* Whatever a refusal marks, the account list keeps its type. *)
LEMMA MarksKeepType ==
    ASSUME IInv, MarkCurrentBanned \/ MarkCurrentDepleted \/ NoMark
    PROVE  PoolType'
  <1>1. Invalidated(current) \in [Sessions -> MaybeAccount]
    BY DEF Invalidated, IInv, PoolType, MaybeAccount
  <1>2. CASE MarkCurrentBanned
    BY <1>1, <1>2 DEF MarkCurrentBanned, IInv, PoolType
  <1>3. CASE MarkCurrentDepleted
    BY <1>1, <1>3 DEF MarkCurrentDepleted, IInv, PoolType
  <1>4. CASE NoMark
    BY <1>4 DEF NoMark, pool, IInv, PoolType
  <1>5. QED
    BY <1>2, <1>3, <1>4

LEMMA DeadKeepsType ==
    ASSUME IInv, NEW a \in Accounts, MarkDead(a)
    PROVE  PoolType'
  BY DEF MarkDead, IInv, PoolType

(* What the ways to move a request on do to the request and to the guard. *)
RequestOK == RequestType /\ TargetKnown

LEMMA KeepMoves ==
    ASSUME IInv, NEW r \in Requests, NEW l \in PCs \ Acting, Keep(r, l)
    PROVE  RequestOK' /\ GuardType'
  BY DEF Keep, Go, IInv, RequestOK, RequestType, TargetKnown, GuardType, request, guard

LEMMA ReleaseMoves ==
    ASSUME IInv, NEW r \in Requests, Release(r)
    PROVE  GuardType'
  BY DEF Release, IInv, GuardType

LEMMA FinishMoves ==
    ASSUME IInv, NEW r \in Requests, Finish(r)
    PROVE  RequestOK' /\ GuardType'
  <1>1. RequestType'
    BY DEF Finish, Go, Forget, IInv, RequestType, PCs, MaybeAccount
  <1>2. TargetKnown'
    BY <1>1, AccountAssumption DEF Finish, Go, Forget, IInv, RequestType, TargetKnown, Acting
  <1>3. QED
    BY <1>1, <1>2, ReleaseMoves DEF Finish, RequestOK

LEMMA ServeMoves ==
    ASSUME IInv, NEW r \in Requests, NEW a \in MaybeAccount, Serve(r, a)
    PROVE  RequestOK' /\ GuardType'
  <1>1. RequestType'
    BY DEF Serve, Go, IInv, RequestType, PCs
  <1>2. TargetKnown'
    BY DEF Serve, Go, IInv, RequestType, TargetKnown, Acting
  <1>3. QED
    BY <1>1, <1>2, ReleaseMoves DEF Serve, RequestOK

LEMMA ServedMoves ==
    ASSUME IInv, NEW r \in Requests, Served(r)
    PROVE  RequestOK' /\ GuardType'
  <1>1. CASE Serve(r, current)
    BY <1>1, ServeMoves DEF IInv, MaybeAccount
  <1>2. CASE Finish(r)
    BY <1>2, FinishMoves
  <1>3. CASE Go(r, "rejected") /\ Release(r) /\ UNCHANGED request
    BY <1>3, ReleaseMoves
    DEF Go, IInv, RequestOK, RequestType, TargetKnown, Acting, PCs, request
  <1>4. QED
    BY <1>1, <1>2, <1>3 DEF Served

LEMMA NextTryMoves ==
    ASSUME IInv, NEW r \in Requests, NextTry(r)
    PROVE  RequestOK' /\ GuardType'
  <1>1. RequestType'
    BY DEF NextTry, Go, IInv, RequestType, PCs, MaybeAccount
  <1>2. TargetKnown'
    BY AccountAssumption DEF NextTry, Go, IInv, RequestType, TargetKnown, Acting
  <1>3. QED
    BY <1>1, <1>2 DEF NextTry, RequestOK, IInv, GuardType, guard

LEMMA StreamNextMoves ==
    ASSUME IInv, NEW r \in Requests, NEW n \in Nat, StreamNext(r, n)
    PROVE  RequestOK' /\ GuardType'
  <1>1. CASE tries[r] + 1 >= MaxRetries
    BY <1>1, FinishMoves DEF StreamNext
  <1>2. CASE ~(tries[r] + 1 >= MaxRetries)
    BY <1>2 DEF StreamNext, Go, IInv, RequestOK, RequestType, TargetKnown, Acting, PCs,
                GuardType, guard
  <1>3. QED
    BY <1>1, <1>2

(* A step of a handler that leaves the list of accounts typed, the request *)
(* well placed, and what runs behind it alone. *)
LEMMA StepOK ==
    ASSUME IInv, current' \in Accounts, PoolType', RequestOK', GuardType', Others
    PROVE  IInv'
  BY DEF IInv, RequestOK, Others, behind, bounds, BehindType, BackTargetKnown, BoundsType

---------------------------------------------------------------------------
(* The invariant *)

LEMMA InitIInv == Init => IInv
  <1> SUFFICES ASSUME Init PROVE IInv
    OBVIOUS
  <1>1. current \in Accounts /\ PoolType
    BY AccountAssumption DEF Init, PoolType, MaybeAccount
  <1>g. GuardType
    BY DEF Init, GuardType
  <1>b. BoundsType
    <2>1. events \in 0..MaxEvents /\ drops \in 0..MaxDrops
      BY BoundAssumption DEF Init
    <2>2. allowOut \in BOOLEAN
      BY DEF Init
    <2>3. QED
      BY <2>1, <2>2 DEF BoundsType
  <1>2. RequestType /\ TargetKnown
    BY AccountAssumption DEF Init, RequestType, TargetKnown, PCs, MaybeAccount, Acting
  <1>3. BehindType /\ BackTargetKnown
    BY AccountAssumption DEF Init, BehindType, BackTargetKnown, MaybeAccount
  <1>4. QED
    BY <1>1, <1>g, <1>b, <1>2, <1>3 DEF IInv

LEMMA FirstAnswerKeepsIInv ==
    ASSUME IInv, NEW r \in Requests, FirstAnswer(r)
    PROVE  IInv'
  <1> USE DEF MaybeAccount
  <1>a. current \in Accounts
    BY DEF IInv
  <1>b. ASSUME NEW w \in {"busy", "over"}, NEW s \in {"busysent", "oversent"},
               \/ Backoff(r, w, s)
               \/ BackoffAnswer(r, w, s)
               \/ BackoffEnds(r, w)
        PROVE  IInv'
    <2>1. CASE Backoff(r, w, s)
      <3>1. PoolType'
        BY <2>1, ResolvedIsKnown DEF Backoff, IInv, PoolType, pool
      <3>2. RequestOK' /\ GuardType'
        BY <2>1, ResolvedIsKnown
        DEF Backoff, Go, IInv, RequestOK, RequestType, TargetKnown, Acting, PCs, GuardType, guard
      <3>3. QED
        BY <1>a, <2>1, <3>1, <3>2, StepOK DEF Backoff
    <2>2. CASE BackoffAnswer(r, w, s)
      <3>1. RequestOK' /\ GuardType'
        <4>1. CASE Keep(r, w)
          BY <4>1, KeepMoves DEF PCs, Acting
        <4>2. CASE /\ Go(r, IF r \in Streaming THEN "stream" ELSE "tail")
                   /\ tries' = [tries EXCEPT ![r] = 0]
                   /\ UNCHANGED <<used, owner, entry, target, count, guard>>
          BY <4>2
          DEF Go, IInv, RequestOK, RequestType, TargetKnown, Acting, PCs, GuardType, guard
        <4>3. CASE Finish(r)
          BY <4>3, FinishMoves
        <4>4. QED
          BY <2>2, <4>1, <4>2, <4>3 DEF BackoffAnswer
      <3>2. QED
        BY <1>a, <2>2, <3>1, StepOK, MarksKeepType DEF BackoffAnswer
    <2>3. CASE BackoffEnds(r, w)
      <3>1. RequestOK' /\ GuardType'
        BY <2>3
        DEF BackoffEnds, Go, IInv, RequestOK, RequestType, TargetKnown, Acting, PCs, GuardType, guard
      <3>2. PoolType'
        BY <2>3, MarksKeepType DEF BackoffEnds
      <3>3. QED
        BY <1>a, <2>3, <3>1, <3>2, StepOK DEF BackoffEnds
    <2>4. QED
      BY <1>b, <2>1, <2>2, <2>3
  <1>1. CASE Resolve(r)
    <2>1. PoolType'
      BY <1>1, ResolvedIsKnown DEF Resolve, IInv, PoolType, pool
    <2>2. RequestOK' /\ GuardType'
      BY <1>1, ResolvedIsKnown
      DEF Resolve, Go, IInv, RequestOK, RequestType, TargetKnown, Acting, PCs, GuardType, guard
    <2>3. QED
      BY <1>a, <1>1, <2>1, <2>2, StepOK DEF Resolve
  <1>2. CASE PassThrough(r)
    BY <1>a, <1>2, StepOK, FinishMoves, MarksKeepType DEF PassThrough
  <1>3. CASE Accept(r)
    <2>1. RequestOK' /\ GuardType'
      BY <1>3, KeepMoves DEF Accept, PCs, Acting
    <2>2. BehindType' /\ BackTargetKnown'
      BY <1>3 DEF Accept, IInv, BehindType, BackTargetKnown
    <2>3. BoundsType'
      BY <1>3 DEF Accept, IInv, BoundsType, bounds
    <2>4. QED
      BY <1>a, <1>3, <2>1, <2>2, <2>3, MarksKeepType DEF Accept, IInv, RequestOK
  <1>4. CASE Banned(r)
    BY <1>a, <1>4, StepOK, KeepMoves, MarksKeepType DEF Banned, PCs, Acting
  <1>5. CASE Unauthorized(r)
    <2>1. RequestOK' /\ GuardType'
      BY <1>a, <1>5
      DEF Unauthorized, Go, IInv, RequestOK, RequestType, TargetKnown, Acting, PCs, GuardType, guard
    <2>2. QED
      BY <1>a, <1>5, <2>1, StepOK, MarksKeepType DEF Unauthorized
  <1>6. CASE LoginRefreshed(r)
    BY <1>a, <1>6, StepOK, KeepMoves, MarksKeepType DEF LoginRefreshed, PCs, Acting
  <1>7. CASE LoginFailed(r)
    BY <1>a, <1>7, StepOK, KeepMoves, MarksKeepType, DeadKeepsType DEF LoginFailed, PCs, Acting
  <1>8. CASE Resend(r)
    <2>1. owner[r] \in MaybeAccount
      BY DEF IInv, RequestType
    <2>2. QED
      BY <1>a, <1>8, <2>1, StepOK, ServeMoves, FinishMoves, MarksKeepType DEF Resend
  <1>9. CASE Limited(r)
    <2>1. RequestOK' /\ GuardType'
      BY <1>9
      DEF Limited, Go, IInv, RequestOK, RequestType, TargetKnown, Acting, PCs, GuardType, guard
    <2>2. QED
      BY <1>a, <1>9, <2>1, StepOK, MarksKeepType DEF Limited
  <1>10. CASE Overloaded(r)
    BY <1>a, <1>10, StepOK, KeepMoves, MarksKeepType DEF Overloaded, PCs, Acting
  <1>11. QED
    BY <1>b, <1>1, <1>2, <1>3, <1>4, <1>5, <1>6, <1>7, <1>8, <1>9, <1>10 DEF FirstAnswer

LEMMA ChainKeepsIInv ==
    ASSUME IInv, NEW r \in Requests, Chain(r)
    PROVE  IInv'
  <1> USE DEF MaybeAccount
  <1>a. current \in Accounts
    BY DEF IInv
  <1>1. CASE DispatchWins(r)
    <2>1. RequestOK' /\ GuardType'
      BY <1>1
      DEF DispatchWins, Go, IInv, RequestOK, RequestType, TargetKnown, Acting, PCs, GuardType, request
    <2>2. QED
      BY <1>a, <1>1, <2>1, StepOK, MarksKeepType DEF DispatchWins
  <1>2. CASE DispatchLoses(r)
    BY <1>a, <1>2, StepOK, KeepMoves, MarksKeepType DEF DispatchLoses, PCs, Acting
  <1>3. CASE WaitEnds(r)
    <2>1. RequestOK' /\ GuardType'
      BY <1>a, <1>3
      DEF WaitEnds, Go, IInv, RequestOK, RequestType, TargetKnown, Acting, PCs, GuardType, guard
    <2>2. QED
      BY <1>a, <1>3, <2>1, StepOK, MarksKeepType DEF WaitEnds
  <1>4. CASE Resent(r)
    BY <1>a, <1>4, StepOK, ServedMoves, MarksKeepType DEF Resent
  <1>5. CASE Rejected(r)
    <2>1. CASE count[r] < CompactRounds
      <3>1. RequestOK' /\ GuardType'
        BY <1>5, <2>1
        DEF Rejected, Go, IInv, RequestOK, RequestType, TargetKnown, Acting, PCs, GuardType, guard
      <3>2. QED
        BY <1>a, <1>5, <3>1, StepOK, MarksKeepType DEF Rejected
    <2>2. CASE ~(count[r] < CompactRounds)
      BY <1>a, <1>5, <2>2, StepOK, FinishMoves, MarksKeepType DEF Rejected
    <2>3. QED
      BY <2>1, <2>2
  <1>6. CASE Enter(r)
    <2>1. RequestOK' /\ GuardType'
      BY <1>a, <1>6
      DEF Enter, Go, IInv, RequestOK, RequestType, TargetKnown, Acting, PCs, GuardType, guard
    <2>2. QED
      BY <1>a, <1>6, <2>1, StepOK, MarksKeepType DEF Enter
  <1>7. CASE Pick(r)
    <2>1. PICK a \in Picks : target' = [target EXCEPT ![r] = a]
      BY <1>7 DEF Pick
    <2>2. RequestOK' /\ GuardType'
      BY <1>7, <2>1, PicksAreKnown
      DEF Pick, Go, IInv, RequestOK, RequestType, TargetKnown, Acting, PCs, GuardType, guard
    <2>3. QED
      BY <1>a, <1>7, <2>2, StepOK, MarksKeepType DEF Pick
  <1>8. CASE NoPick(r)
    BY <1>a, <1>8, StepOK, KeepMoves, MarksKeepType DEF NoPick, PCs, Acting
  <1>9. CASE DoSwitch(r)
    <2>1. target[r] \in Accounts
      BY <1>9 DEF DoSwitch, IInv, TargetKnown, Acting
    <2>2. RequestOK' /\ GuardType'
      BY <1>9, <2>1
      DEF DoSwitch, Go, IInv, RequestOK, RequestType, TargetKnown, Acting, PCs, GuardType, guard
    <2>3. QED
      BY <1>9, <2>1, <2>2, StepOK, MarksKeepType DEF DoSwitch
  <1>10. CASE DoSwitchFails(r)
    <2>1. target[r] \in Accounts
      BY <1>10 DEF DoSwitchFails, IInv, TargetKnown, Acting
    <2>2. QED
      BY <1>a, <1>10, <2>1, StepOK, NextTryMoves, MarksKeepType DEF DoSwitchFails
  <1>11. CASE RetryServed(r)
    BY <1>a, <1>11, StepOK, ServedMoves, MarksKeepType DEF RetryServed
  <1>12. CASE RetryRefused(r)
    BY <1>a, <1>12, StepOK, NextTryMoves, MarksKeepType DEF RetryRefused
  <1>13. CASE RetryUnauthorized(r)
    <2>1. RequestOK' /\ GuardType'
      BY <1>a, <1>13
      DEF RetryUnauthorized, Go, IInv, RequestOK, RequestType, TargetKnown, Acting, PCs, GuardType, guard
    <2>2. QED
      BY <1>a, <1>13, <2>1, StepOK, MarksKeepType DEF RetryUnauthorized
  <1>14. CASE Refreshed(r)
    BY <1>a, <1>14, StepOK, KeepMoves, MarksKeepType DEF Refreshed, PCs, Acting
  <1>15. CASE RefreshFailed(r)
    <2>1. target[r] \in Accounts
      BY <1>15 DEF RefreshFailed, IInv, TargetKnown, Acting
    <2>2. QED
      BY <1>a, <1>15, <2>1, StepOK, NextTryMoves, MarksKeepType, DeadKeepsType DEF RefreshFailed
  <1>16. CASE RetryAgainRefused(r)
    BY <1>a, <1>16, StepOK, NextTryMoves, MarksKeepType DEF RetryAgainRefused
  <1>17. CASE Restore(r)
    <2>1. Revert(r) \subseteq Accounts
      BY DEF Revert, Unflagged
    <2>2. current' \in Accounts
      BY <1>a, <1>17, <2>1 DEF Restore
    <2>3. QED
      BY <1>17, <2>2, StepOK, KeepMoves, MarksKeepType DEF Restore, PCs, Acting
  <1>18. CASE RestoreFails(r)
    BY <1>a, <1>18, StepOK, KeepMoves, MarksKeepType DEF RestoreFails, PCs, Acting
  <1>19. CASE Leave(r)
    BY <1>a, <1>19, StepOK, FinishMoves, MarksKeepType DEF Leave
  <1>20. QED
    BY <1>1, <1>2, <1>3, <1>4, <1>5, <1>6, <1>7, <1>8, <1>9, <1>10, <1>11, <1>12, <1>13,
       <1>14, <1>15, <1>16, <1>17, <1>18, <1>19 DEF Chain

LEMMA BodyKeepsIInv ==
    ASSUME IInv, NEW r \in Requests, Body(r)
    PROVE  IInv'
  <1> USE DEF MaybeAccount
  <1>a. current \in Accounts
    BY DEF IInv
  <1>n. count[r] \in Nat
    BY DEF IInv, RequestType
  <1>1. CASE StreamReady(r)
    BY <1>a, <1>1, StepOK, KeepMoves, MarksKeepType DEF StreamReady, PCs, Acting
  <1>2. CASE StreamRefused(r)
    BY <1>a, <1>n, <1>2, StepOK, StreamNextMoves, MarksKeepType DEF StreamRefused
  <1>3. CASE StreamCapacity(r)
    <2>1. CASE count[r] < CapacityRetries
      <3>1. RequestOK' /\ GuardType'
        BY <1>3, <2>1
        DEF StreamCapacity, Go, IInv, RequestOK, RequestType, TargetKnown, Acting, PCs, GuardType, guard
      <3>2. QED
        BY <1>a, <1>3, <3>1, StepOK, MarksKeepType DEF StreamCapacity
    <2>2. CASE ~(count[r] < CapacityRetries)
      BY <1>a, <1>3, <2>2, StepOK, StreamNextMoves, MarksKeepType DEF StreamCapacity
    <2>3. QED
      BY <2>1, <2>2
  <1>4. CASE StreamSame(r)
    <2>1. RequestOK' /\ GuardType'
      BY <1>a, <1>4
      DEF StreamSame, Go, IInv, RequestOK, RequestType, TargetKnown, Acting, PCs, GuardType, guard
    <2>2. QED
      BY <1>a, <1>4, <2>1, StepOK, MarksKeepType DEF StreamSame
  <1>5. CASE StreamPick(r)
    <2>1. PICK a \in Picks : target' = [target EXCEPT ![r] = a]
      BY <1>5 DEF StreamPick
    <2>2. RequestOK' /\ GuardType'
      BY <1>5, <2>1, PicksAreKnown
      DEF StreamPick, Go, IInv, RequestOK, RequestType, TargetKnown, Acting, PCs, GuardType, guard
    <2>3. QED
      BY <1>a, <1>5, <2>2, StepOK, MarksKeepType DEF StreamPick
  <1>6. CASE StreamSwitch(r)
    <2>1. target[r] \in Accounts
      BY <1>6 DEF StreamSwitch, IInv, TargetKnown, Acting
    <2>2. RequestOK' /\ GuardType'
      BY <1>6, <2>1
      DEF StreamSwitch, Go, IInv, RequestOK, RequestType, TargetKnown, Acting, PCs, GuardType, guard
    <2>3. QED
      BY <1>6, <2>1, <2>2, StepOK, MarksKeepType DEF StreamSwitch
  <1>7. CASE StreamSwitchFails(r)
    <2>1. target[r] \in Accounts
      BY <1>7 DEF StreamSwitchFails, IInv, TargetKnown, Acting
    <2>2. QED
      BY <1>a, <1>7, <2>1, StepOK, FinishMoves, MarksKeepType DEF StreamSwitchFails
  <1>8. CASE StreamAgain(r)
    BY <1>a, <1>8, StepOK, KeepMoves, MarksKeepType DEF StreamAgain, PCs, Acting
  <1>9. CASE StreamBreaks(r)
    BY <1>a, <1>9, StepOK, FinishMoves, MarksKeepType DEF StreamBreaks
  <1>10. CASE FlowLimited(r)
    BY <1>a, <1>10, StepOK, FinishMoves, MarksKeepType DEF FlowLimited
  <1>11. CASE Complete(r)
    <2>1. owner[r] \in MaybeAccount
      BY DEF IInv, RequestType
    <2>2. PoolType'
      BY <1>11, <2>1 DEF Complete, IInv, PoolType, pool
    <2>3. QED
      BY <1>a, <1>11, <2>2, StepOK, FinishMoves DEF Complete
  <1>12. QED
    BY <1>1, <1>2, <1>3, <1>4, <1>5, <1>6, <1>7, <1>8, <1>9, <1>10, <1>11 DEF Body

(* What runs behind the answers leaves the requests alone. *)
LEMMA BehindKeepsIInv ==
    ASSUME IInv, NEW r \in Requests, Behind(r)
    PROVE  IInv'
  <1> USE DEF MaybeAccount
  <1>a. current \in Accounts
    BY DEF IInv
  <1>b. ASSUME UNCHANGED <<pc, request, bounds>>, NoMark, current' \in Accounts,
               GuardType', BehindType', BackTargetKnown'
        PROVE  IInv'
    <2>1. RequestOK' /\ BoundsType'
      BY <1>b DEF IInv, RequestOK, RequestType, TargetKnown, BoundsType, request, bounds
    <2>2. QED
      BY <1>b, <2>1, MarksKeepType DEF IInv, RequestOK
  <1>c. ASSUME BackDone(r)
        PROVE  GuardType' /\ BehindType' /\ BackTargetKnown'
    <2>1. GuardType'
      BY <1>c DEF BackDone, IInv, GuardType
    <2>2. BehindType' /\ BackTargetKnown'
      BY <1>c, AccountAssumption DEF BackDone, IInv, BehindType, BackTargetKnown
    <2>3. QED
      BY <2>1, <2>2
  <1>1. CASE BackSkips(r)
    BY <1>a, <1>b, <1>1 DEF BackSkips, IInv, GuardType, guard, BehindType, BackTargetKnown
  <1>2. CASE BackTakes(r)
    <2>1. GuardType'
      BY <1>2 DEF BackTakes, IInv, GuardType
    <2>2. BehindType' /\ BackTargetKnown'
      BY <1>2 DEF BackTakes, IInv, BehindType, BackTargetKnown
    <2>3. QED
      BY <1>a, <1>b, <1>2, <2>1, <2>2 DEF BackTakes
  <1>3. CASE BackPicks(r)
    <2>1. PICK a \in Picks : backTarget' = [backTarget EXCEPT ![r] = a]
      BY <1>3 DEF BackPicks
    <2>2. BehindType' /\ BackTargetKnown'
      BY <1>3, <2>1, PicksAreKnown DEF BackPicks, IInv, BehindType, BackTargetKnown
    <2>3. GuardType'
      BY <1>3 DEF BackPicks, IInv, GuardType, guard
    <2>4. QED
      BY <1>a, <1>b, <1>3, <2>2, <2>3 DEF BackPicks
  <1>4. CASE BackFindsNone(r)
    BY <1>a, <1>b, <1>c, <1>4 DEF BackFindsNone, BackDone
  <1>5. CASE BackSwitches(r)
    <2>1. backTarget[r] \in Accounts
      BY <1>5 DEF BackSwitches, IInv, BackTargetKnown
    <2>2. QED
      BY <1>a, <1>b, <1>c, <1>5, <2>1 DEF BackSwitches, BackDone
  <1>6. QED
    BY <1>1, <1>2, <1>3, <1>4, <1>5 DEF Behind

LEMMA DropKeepsIInv ==
    ASSUME IInv, NEW r \in Requests, Drop(r)
    PROVE  IInv'
  <1>1. RequestType'
    BY DEF Drop, Go, Forget, IInv, RequestType, PCs, MaybeAccount
  <1>2. TargetKnown'
    BY AccountAssumption DEF Drop, Go, Forget, IInv, RequestType, TargetKnown, Acting
  <1>3. PoolType'
    BY MarksKeepType DEF Drop
  <1>4. GuardType'
    BY DEF Drop, IInv, GuardType
  <1>5. BehindType' /\ BackTargetKnown'
    BY DEF Drop, IInv, BehindType, BackTargetKnown, behind
  <1>6. BoundsType'
    <2>1. events' \in 0..MaxEvents /\ drops' \in 0..MaxDrops
      BY BoundAssumption DEF Drop, IInv, BoundsType
    <2>2. allowOut' \in BOOLEAN
      BY DEF Drop, IInv, BoundsType
    <2>3. QED
      BY <2>1, <2>2 DEF BoundsType
  <1>7. QED
    BY <1>1, <1>2, <1>3, <1>4, <1>5, <1>6 DEF Drop, IInv

LEMMA SurroundingsKeepIInv ==
    ASSUME IInv, NEW a \in Accounts,
           ManualSwitch(a) \/ QuotaRefresh(a) \/ CooldownExpires(a)
    PROVE  IInv'
  <1>1. Around
    BY DEF ManualSwitch, QuotaRefresh, CooldownExpires
  <1>2. GuardType' /\ RequestOK' /\ BehindType' /\ BackTargetKnown'
    BY <1>1 DEF Around, IInv, GuardType, RequestOK, RequestType, TargetKnown, BehindType,
                BackTargetKnown, guard, request, behind
  <1>3. events' \in 0..MaxEvents /\ drops' \in 0..MaxDrops
    BY BoundAssumption DEF ManualSwitch, QuotaRefresh, CooldownExpires, IInv, BoundsType
  <1>4. BoundsType'
    BY <1>1, <1>3 DEF Around, IInv, BoundsType
  <1>5. current' \in Accounts
    BY DEF ManualSwitch, QuotaRefresh, CooldownExpires, IInv
  <1>6. PoolType'
    <2>1. CASE ManualSwitch(a)
      BY <2>1, MarksKeepType DEF ManualSwitch
    <2>2. CASE QuotaRefresh(a)
      BY <2>2 DEF QuotaRefresh, IInv, PoolType
    <2>3. CASE CooldownExpires(a)
      BY <2>3 DEF CooldownExpires, IInv, PoolType
    <2>4. QED
      BY <2>1, <2>2, <2>3
  <1>7. QED
    BY <1>2, <1>4, <1>5, <1>6 DEF IInv, RequestOK

LEMMA NextKeepsIInv == IInv /\ [Next]_vars => IInv'
  <1> SUFFICES ASSUME IInv, [Next]_vars PROVE IInv'
    OBVIOUS
  <1>1. ASSUME NEW r \in Requests, Handler(r) PROVE IInv'
    BY <1>1, FirstAnswerKeepsIInv, ChainKeepsIInv, BodyKeepsIInv DEF Handler
  <1>2. ASSUME NEW r \in Requests, Behind(r) \/ Drop(r) PROVE IInv'
    BY <1>2, BehindKeepsIInv, DropKeepsIInv
  <1>3. CASE Surroundings
    BY <1>3, SurroundingsKeepIInv DEF Surroundings
  <1>4. CASE UNCHANGED vars
    BY <1>4 DEF vars, pool, guard, request, behind, bounds, IInv, PoolType, GuardType,
                RequestType, TargetKnown, BehindType, BackTargetKnown, BoundsType
  <1>5. QED
    BY <1>1, <1>2, <1>3, <1>4 DEF Next

THEOREM Invariance == Spec => []IInv
  <1>1. QED
    BY InitIInv, NextKeepsIInv, PTL DEF Spec

(* Every variable keeps its type; above all, what a chain, a stream or a   *)
(* preemptive switch makes current is an account of the list.              *)
THEOREM TypeCorrect == Spec => []TypeOK
  <1>1. QED
    BY Invariance, IInvTypes, PTL

---------------------------------------------------------------------------
(* The flag `switching` *)

BackSwitching == {r \in Requests : back[r] \in {"pick", "switch"}}

(* OneSwitcher without the pairs. *)
OneHolder ==
    /\ held # {} \/ BackSwitching # {} => switching
    /\ \A x, y \in held : x = y
    /\ \A x, y \in BackSwitching : x = y
    /\ held = {} \/ BackSwitching = {}

LEMMA OneHolderSuffices == OneHolder => OneSwitcher
  <1> SUFFICES ASSUME OneHolder PROVE OneSwitcher
    OBVIOUS
  <1>1. Switchers = {<<r, "chain">> : r \in held} \cup {<<r, "behind">> : r \in BackSwitching}
    BY DEF Switchers, BackSwitching
  <1>2. Switchers # {} => switching
    BY <1>1 DEF OneHolder
  <1>3. ASSUME NEW x \in Switchers, NEW y \in Switchers PROVE x = y
    BY <1>1, <1>3 DEF OneHolder
  <1>4. QED
    BY <1>2, <1>3 DEF OneSwitcher

(* What a step may do with the flag: nothing, give it back, take it. *)
LEMMA GuardKept ==
    ASSUME OneHolder, UNCHANGED guard, BackSwitching' = BackSwitching
    PROVE  OneHolder'
  BY DEF OneHolder, guard

LEMMA ReleaseKeepsOne ==
    ASSUME OneHolder, NEW r, Release(r), BackSwitching' = BackSwitching
    PROVE  OneHolder'
  BY DEF OneHolder, Release

LEMMA OthersLeaveBack ==
    ASSUME Others
    PROVE  BackSwitching' = BackSwitching
  BY DEF Others, behind, BackSwitching

(* Every step of a handler leaves the flag alone, gives it back or wins it. *)
LEMMA HandlersUseFlag ==
    ASSUME NEW r \in Requests, Handler(r)
    PROVE  UNCHANGED guard \/ Release(r) \/ DispatchWins(r)
  <1>1. CASE FirstAnswer(r)
    BY <1>1
    DEF FirstAnswer, Resolve, PassThrough, Accept, Banned, Unauthorized, LoginRefreshed,
        LoginFailed, Resend, Limited, Overloaded, Backoff, BackoffAnswer, BackoffEnds,
        Keep, Finish, Serve
  <1>2. CASE Chain(r)
    BY <1>2
    DEF Chain, DispatchLoses, WaitEnds, Resent, Rejected, Enter, Pick, NoPick,
        DoSwitch, DoSwitchFails, RetryServed, RetryRefused, RetryUnauthorized, Refreshed,
        RefreshFailed, RetryAgainRefused, Restore, RestoreFails, Leave, Keep, Finish, Serve, Served, NextTry
  <1>3. CASE Body(r)
    BY <1>3
    DEF Body, StreamReady, StreamRefused, StreamCapacity, StreamSame, StreamPick, StreamSwitch,
        StreamSwitchFails, StreamAgain, StreamBreaks, FlowLimited, Complete, Keep, Finish,
        StreamNext
  <1>4. QED
    BY <1>1, <1>2, <1>3 DEF Handler

(* No step of a handler but Accept touches what runs behind it. *)
LEMMA HandlersLeaveBack ==
    ASSUME IInv, NEW r \in Requests, Handler(r)
    PROVE  BackSwitching' = BackSwitching \/ (Accept(r) /\ BackSwitching' \subseteq BackSwitching)
  <1>1. CASE Accept(r)
    BY <1>1 DEF Accept, BackSwitching, IInv, BehindType
  <1>2. CASE FirstAnswer(r) /\ ~Accept(r)
    <2>1. Others
      BY <1>2
      DEF FirstAnswer, Resolve, PassThrough, Banned, Unauthorized, LoginRefreshed, LoginFailed,
          Resend, Limited, Overloaded, Backoff, BackoffAnswer, BackoffEnds
    <2>2. QED
      BY <2>1, OthersLeaveBack
  <1>3. CASE Chain(r)
    <2>1. Others
      BY <1>3
      DEF Chain, DispatchWins, DispatchLoses, WaitEnds, Resent, Rejected, Enter, Pick, NoPick,
          DoSwitch, DoSwitchFails, RetryServed, RetryRefused, RetryUnauthorized, Refreshed,
          RefreshFailed, RetryAgainRefused, Restore, RestoreFails, Leave
    <2>2. QED
      BY <2>1, OthersLeaveBack
  <1>4. CASE Body(r)
    <2>1. Others
      BY <1>4
      DEF Body, StreamReady, StreamRefused, StreamCapacity, StreamSame, StreamPick, StreamSwitch,
          StreamSwitchFails, StreamAgain, StreamBreaks, FlowLimited, Complete
    <2>2. QED
      BY <2>1, OthersLeaveBack
  <1>5. QED
    BY <1>1, <1>2, <1>3, <1>4 DEF Handler

LEMMA HandlerKeepsOne ==
    ASSUME IInv, OneHolder, NEW r \in Requests, Handler(r)
    PROVE  OneHolder'
  <1>1. BackSwitching' \subseteq BackSwitching
    BY HandlersLeaveBack
  <1>2. CASE UNCHANGED guard
    BY <1>1, <1>2 DEF OneHolder, guard
  <1>3. CASE DispatchWins(r)
    BY <1>1, <1>3 DEF DispatchWins, OneHolder
  <1>4. CASE Release(r) /\ ~UNCHANGED guard
    <2>1. held' = held \ {r} /\ (switching' = IF r \in held THEN FALSE ELSE switching)
      BY <1>4 DEF Release
    <2>2. r \in held
      BY <1>4, <2>1 DEF guard
    <2>3. held' = {} /\ BackSwitching' = {}
      BY <1>1, <2>1, <2>2 DEF OneHolder
    <2>4. QED
      BY <2>3 DEF OneHolder
  <1>5. QED
    BY <1>2, <1>3, <1>4, HandlersUseFlag

LEMMA BehindKeepsOne ==
    ASSUME IInv, OneHolder, NEW r \in Requests, Behind(r)
    PROVE  OneHolder'
  <1> USE DEF IInv, BehindType
  <1>1. CASE BackSkips(r)
    <2>1. BackSwitching' = BackSwitching
      BY <1>1 DEF BackSkips, BackSwitching
    <2>2. QED
      BY <1>1, <2>1, GuardKept DEF BackSkips
  <1>2. CASE BackTakes(r)
    <2>1. held = {} /\ BackSwitching = {}
      BY <1>2 DEF BackTakes, OneHolder
    <2>2. BackSwitching' = {r} /\ held' = {} /\ switching'
      BY <1>2, <2>1 DEF BackTakes, BackSwitching
    <2>3. QED
      BY <2>2 DEF OneHolder
  <1>3. CASE BackPicks(r)
    <2>1. BackSwitching' = BackSwitching
      BY <1>3 DEF BackPicks, BackSwitching
    <2>2. QED
      BY <1>3, <2>1, GuardKept DEF BackPicks
  <1>4. ASSUME r \in BackSwitching, BackDone(r)
        PROVE  OneHolder'
    <2>1. BackSwitching = {r} /\ held = {}
      BY <1>4 DEF OneHolder
    <2>2. BackSwitching' = {} /\ held' = {}
      BY <1>4, <2>1 DEF BackDone, BackSwitching
    <2>3. QED
      BY <2>2 DEF OneHolder
  <1>5. CASE BackFindsNone(r) \/ BackSwitches(r)
    BY <1>4, <1>5 DEF BackFindsNone, BackSwitches, BackSwitching
  <1>6. QED
    BY <1>1, <1>2, <1>3, <1>5 DEF Behind

LEMMA NextKeepsOne == IInv /\ OneHolder /\ [Next]_vars => OneHolder'
  <1> SUFFICES ASSUME IInv, OneHolder, [Next]_vars PROVE OneHolder'
    OBVIOUS
  <1>1. ASSUME NEW r \in Requests, Drop(r) PROVE OneHolder'
    BY <1>1 DEF Drop, OneHolder, BackSwitching, behind
  <1>2. ASSUME UNCHANGED guard, UNCHANGED behind PROVE OneHolder'
    BY <1>2, GuardKept DEF BackSwitching, behind
  <1>3. CASE Surroundings
    BY <1>2, <1>3 DEF Surroundings, ManualSwitch, QuotaRefresh, CooldownExpires, Around
  <1>4. CASE UNCHANGED vars
    BY <1>2, <1>4 DEF vars
  <1>5. QED
    BY <1>1, <1>3, <1>4, HandlerKeepsOne, BehindKeepsOne DEF Next

(* The flag is a lock: among the guarded chains and the preemptive         *)
(* switches at most one has it, and nobody clears it for another one.      *)
THEOREM OneSwitcherHolds == Spec => []OneSwitcher
  <1>1. Init => OneHolder
    BY DEF Init, OneHolder, BackSwitching
  <1>2. QED
    BY <1>1, Invariance, NextKeepsOne, OneHolderSuffices, PTL DEF Spec

---------------------------------------------------------------------------
(* Relays *)

(* Who may move the current account, and where to. *)
LEMMA HandlersMoveCurrent ==
    ASSUME NEW r \in Requests, Handler(r)
    PROVE  current' \in {current, target[r]} \/ Restore(r)
  <1>1. CASE FirstAnswer(r)
    BY <1>1
    DEF FirstAnswer, Resolve, PassThrough, Accept, Banned, Unauthorized, LoginRefreshed,
        LoginFailed, Resend, Limited, Overloaded, Backoff, BackoffAnswer, BackoffEnds
  <1>2. CASE Chain(r)
    BY <1>2
    DEF Chain, DispatchWins, DispatchLoses, WaitEnds, Resent, Rejected, Enter, Pick, NoPick,
        DoSwitch, DoSwitchFails, RetryServed, RetryRefused, RetryUnauthorized, Refreshed,
        RefreshFailed, RetryAgainRefused, RestoreFails, Leave
  <1>3. CASE Body(r)
    BY <1>3
    DEF Body, StreamReady, StreamRefused, StreamCapacity, StreamSame, StreamPick, StreamSwitch,
        StreamSwitchFails, StreamAgain, StreamBreaks, FlowLimited, Complete
  <1>4. QED
    BY <1>1, <1>2, <1>3 DEF Handler

LEMMA BehindMovesCurrent ==
    ASSUME NEW r \in Requests, Behind(r)
    PROVE  current' \in {current, backTarget[r]}
  BY DEF Behind, BackSkips, BackTakes, BackPicks, BackFindsNone, BackSwitches

LEMMA NextAvoidsRelays ==
    ASSUME IInv, [Next]_vars, current' # current, current' \in Relays
    PROVE  \/ AllowIn
           \/ events' # events
           \/ \E r \in Requests : pc[r] = "restore" /\ entry[r] = current'
  <1>1. ASSUME NEW r \in Requests, Handler(r)
        PROVE  AllowIn \/ \E q \in Requests : pc[q] = "restore" /\ entry[q] = current'
    <2>1. CASE current' = target[r]
      BY <2>1 DEF IInv, TargetKnown
    <2>2. CASE Restore(r)
      BY <2>2 DEF Restore, Revert
    <2>3. QED
      BY <1>1, <2>1, <2>2, HandlersMoveCurrent
  <1>2. ASSUME NEW r \in Requests, Behind(r) PROVE AllowIn
    BY <1>2, BehindMovesCurrent DEF IInv, BackTargetKnown
  <1>3. ASSUME NEW r \in Requests, Drop(r) PROVE FALSE
    BY <1>3 DEF Drop
  <1>4. CASE Surroundings
    <2>1. events' = events + 1
      BY <1>4 DEF Surroundings, ManualSwitch, QuotaRefresh, CooldownExpires
    <2>2. events \in Nat
      BY BoundAssumption DEF IInv, BoundsType
    <2>3. QED
      BY <2>1, <2>2
  <1>5. QED
    BY <1>1, <1>2, <1>3, <1>4 DEF Next, vars

(* Only the user, or a chain that puts back the relay it began with, makes *)
(* a relay current against relay_auto_switch_in.                           *)
THEOREM AutoAvoidsRelaysHolds == Spec => AutoAvoidsRelays
  <1>1. IInv /\ [Next]_vars =>
          [current' # current /\ current' \in Relays =>
             \/ AllowIn
             \/ events' # events
             \/ \E r \in Requests : pc[r] = "restore" /\ entry[r] = current']_vars
    BY NextAvoidsRelays
  <1>2. QED
    BY <1>1, Invariance, PTL DEF Spec, AutoAvoidsRelays

---------------------------------------------------------------------------
(* A chain that gives up *)

(* The place of a request moves by its own steps only. *)
LEMMA OnlyOwnStepsLeaveRestore ==
    ASSUME IInv, [Next]_vars, NEW r \in Requests, pc[r] = "restore", pc'[r] # "restore"
    PROVE  Restore(r) \/ RestoreFails(r)
  <1>1. ASSUME NEW q \in Requests, Handler(q) PROVE Restore(r) \/ RestoreFails(r)
    <2>1. \E l \in PCs : Go(q, l)
      <3>1. CASE FirstAnswer(q)
        BY <3>1
        DEF FirstAnswer, Resolve, PassThrough, Accept, Banned, Unauthorized, LoginRefreshed,
            LoginFailed, Resend, Limited, Overloaded, Backoff, BackoffAnswer, BackoffEnds,
            Keep, Finish, Serve, PCs
      <3>2. CASE Chain(q)
        BY <3>2
        DEF Chain, DispatchWins, DispatchLoses, WaitEnds, Resent, Rejected, Enter, Pick, NoPick,
            DoSwitch, DoSwitchFails, RetryServed, RetryRefused, RetryUnauthorized, Refreshed,
            RefreshFailed, RetryAgainRefused, Restore, RestoreFails, Leave, Keep, Finish, Serve, Served,
            NextTry, PCs
      <3>3. CASE Body(q)
        BY <3>3
        DEF Body, StreamReady, StreamRefused, StreamCapacity, StreamSame, StreamPick,
            StreamSwitch, StreamSwitchFails, StreamAgain, StreamBreaks, FlowLimited, Complete,
            Keep, Finish, StreamNext, PCs
      <3>4. QED
        BY <1>1, <3>1, <3>2, <3>3 DEF Handler
    <2>2. q = r
      BY <2>1 DEF Go, IInv, RequestType
    <2>3. ~FirstAnswer(r)
      BY DEF FirstAnswer, Resolve, PassThrough, Accept, Banned, Unauthorized, LoginRefreshed,
             LoginFailed, Resend, Limited, Overloaded, Backoff, BackoffAnswer, BackoffEnds
    <2>4. ~Body(r)
      BY DEF Body, StreamReady, StreamRefused, StreamCapacity, StreamSame, StreamPick,
             StreamSwitch, StreamSwitchFails, StreamAgain, StreamBreaks, FlowLimited, Complete
    <2>5. Chain(r)
      BY <1>1, <2>2, <2>3, <2>4 DEF Handler
    <2>6. QED
      BY <2>5
      DEF Chain, DispatchWins, DispatchLoses, WaitEnds, Resent, Rejected, Enter, Pick, NoPick,
          DoSwitch, DoSwitchFails, RetryServed, RetryRefused, RetryUnauthorized, Refreshed,
          RefreshFailed, RetryAgainRefused, Leave
  <1>2. ASSUME NEW q \in Requests, Behind(q) PROVE FALSE
    BY <1>2 DEF Behind, BackSkips, BackTakes, BackPicks, BackFindsNone, BackSwitches, BackDone
  <1>3. ASSUME NEW q \in Requests, Drop(q) PROVE FALSE
    BY <1>3 DEF Drop, Awaiting, Go, IInv, RequestType
  <1>4. CASE Surroundings
    BY <1>4 DEF Surroundings, ManualSwitch, QuotaRefresh, CooldownExpires, Around
  <1>5. QED
    BY <1>1, <1>2, <1>3, <1>4 DEF Next, vars

LEMMA RestoreLeavesHealthy ==
    ASSUME IInv, NEW r \in Requests, Restore(r)
    PROVE  current' \notin flagged' \/ Accounts \ flagged' \subseteq Relays
  <1>1. flagged' = flagged
    BY DEF Restore, NoMark, pool
  <1>2. Revert(r) \subseteq Unflagged
    BY DEF Revert
  <1>3. CASE current \in flagged /\ Revert(r) # {}
    BY <1>1, <1>2, <1>3 DEF Restore, Unflagged
  <1>4. CASE current \notin flagged
    BY <1>1, <1>4 DEF Restore
  <1>5. CASE Revert(r) = {}
    BY <1>1, <1>5 DEF Revert, Unflagged
  <1>6. QED
    BY <1>3, <1>4, <1>5

(* After restore_current_if_flagged the current account has no flag, if    *)
(* there is a subscription without one, unless the switch to it failed.    *)
THEOREM GivesUpOnHealthyHolds == Spec => GivesUpOnHealthy
  <1>1. IInv /\ [Next]_vars =>
          [\A r \in Requests : pc[r] = "restore" /\ pc'[r] # "restore" =>
             \/ current' \notin flagged'
             \/ Accounts \ flagged' \subseteq Relays
             \/ pc'[r] = "unrestored" /\ current' = current]_vars
    <2>1. ASSUME IInv, [Next]_vars, NEW r \in Requests,
                 pc[r] = "restore", pc'[r] # "restore", RestoreFails(r)
          PROVE  pc'[r] = "unrestored" /\ current' = current
      BY <2>1 DEF RestoreFails, Keep, Go, IInv, RequestType
    <2>2. QED
      BY <2>1, OnlyOwnStepsLeaveRestore, RestoreLeavesHealthy
  <1>2. QED
    BY <1>1, Invariance, PTL DEF Spec, GivesUpOnHealthy

---------------------------------------------------------------------------
(* Sessions *)

(* What a token is taken of. *)
Sends(r, a) == used' = [used EXCEPT ![r] = a]

LEMMA HandlersSend ==
    ASSUME NEW r \in Requests, Handler(r)
    PROVE  \/ used' = used \/ Sends(r, NoAccount) \/ Sends(r, target[r])
           \/ /\ current' = current
              /\ Sends(r, current) \/ Sends(r, Resolved(r)) \/ Sends(r, EffectiveRelay(r))
  <1>1. CASE Resolve(r)
    BY <1>1 DEF Resolve, Sends
  <1>2. CASE FirstAnswer(r) /\ ~Resolve(r)
    BY <1>2
    DEF FirstAnswer, PassThrough, Accept, Banned, Unauthorized, LoginRefreshed,
        LoginFailed, Resend, Limited, Overloaded, Backoff, BackoffAnswer, BackoffEnds,
        Keep, Finish, Forget, Serve, request, Sends
  <1>3. CASE Chain(r)
    BY <1>3
    DEF Chain, DispatchWins, DispatchLoses, WaitEnds, Resent, Rejected, Enter, Pick, NoPick,
        DoSwitch, DoSwitchFails, RetryServed, RetryRefused, RetryUnauthorized, Refreshed,
        RefreshFailed, RetryAgainRefused, Restore, RestoreFails, Leave, Keep, Finish, Forget, Serve, Served,
        NextTry, request, Sends
  <1>4. CASE Body(r)
    BY <1>4
    DEF Body, StreamReady, StreamRefused, StreamCapacity, StreamSame, StreamPick, StreamSwitch,
        StreamSwitchFails, StreamAgain, StreamBreaks, FlowLimited, Complete, Keep, Finish,
        Forget, StreamNext, request, Sends
  <1>5. QED
    BY <1>1, <1>2, <1>3, <1>4 DEF Handler

LEMMA NextStaysOffRelays ==
    ASSUME IInv, [Next]_vars, NEW r \in Requests,
           used'[r] # used[r], used'[r] \in Relays
    PROVE  AllowIn \/ current' \in Relays \/ used'[r] = RouteOf[r]
  <1> USE DEF IInv, RequestType
  <1>r. NoAccount \notin Relays
    BY AccountAssumption
  <1>1. ASSUME NEW q \in Requests, Handler(q)
        PROVE  AllowIn \/ current' \in Relays \/ used'[r] = RouteOf[r]
    <2>1. ASSUME NEW a, Sends(q, a) PROVE q = r /\ used'[r] = a
      BY <2>1 DEF Sends
    <2>2. CASE Sends(q, NoAccount)
      BY <1>r, <2>1, <2>2
    <2>3. CASE Sends(q, target[q])
      BY <2>1, <2>3 DEF TargetKnown
    <2>4. CASE current' = current /\ Sends(q, current)
      BY <2>1, <2>4
    <2>5. CASE current' = current /\ Sends(q, Resolved(q))
      <3>1. used'[r] = Resolved(r)
        BY <2>1, <2>5
      <3>2. QED
        BY <2>5, <3>1 DEF Resolved
    <2>6. CASE current' = current /\ Sends(q, EffectiveRelay(q))
      <3>1. used'[r] = EffectiveRelay(r)
        BY <2>1, <2>6
      <3>2. QED
        BY <1>r, <2>6, <3>1 DEF EffectiveRelay
    <2>7. QED
      BY <1>1, <2>2, <2>3, <2>4, <2>5, <2>6, HandlersSend
  <1>2. ASSUME NEW q \in Requests, Behind(q) PROVE FALSE
    BY <1>2
    DEF Behind, BackSkips, BackTakes, BackPicks, BackFindsNone, BackSwitches, BackDone, request
  <1>3. ASSUME NEW q \in Requests, Drop(q) PROVE FALSE
    <2>1. Sends(q, NoAccount)
      BY <1>3 DEF Drop, Forget, Sends
    <2>2. QED
      BY <1>r, <2>1 DEF Sends
  <1>4. CASE Surroundings
    BY <1>4 DEF Surroundings, ManualSwitch, QuotaRefresh, CooldownExpires, Around, request
  <1>5. QED
    BY <1>1, <1>2, <1>3, <1>4 DEF Next, vars, request

(* A session bound to a relay does not lead a request back to it while a   *)
(* subscription is current and relay_auto_switch_in forbids it.            *)
THEOREM SessionsStayOffRelaysHolds == Spec => SessionsStayOffRelays
  <1>1. IInv /\ [Next]_vars =>
          [\A r \in Requests :
             used'[r] # used[r] /\ used'[r] \in Relays =>
               AllowIn \/ current' \in Relays \/ used'[r] = RouteOf[r]]_vars
    BY NextStaysOffRelays
  <1>2. QED
    BY <1>1, Invariance, PTL DEF Spec, SessionsStayOffRelays

=============================================================================
