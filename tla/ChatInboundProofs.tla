------------------------- MODULE ChatInboundProofs -------------------------
(***************************************************************************)
(* Theorems about ChatInbound, for any sets of requests, sessions,         *)
(* accounts and answers and any budgets.                                   *)
(***************************************************************************)
EXTENDS ChatInbound, TLAPS

PCs == {"new", "pick", "send", "refresh", "next", "switch", "over"}
Picks == {"none", "worker", "other", "hard", "current", "spark"}
Budgets == [refresh : 0..1, empty : 0..1, quota : 0..SwitchBudget]
Errors == {"unavailable", "401", "429", "error"}
Replies == [status : {"none", "ok"} \cup Errors, text : BOOLEAN, calls : {{}, {"call"}},
            args : {"none", "delta", "item"}]
Asking == {"send", "refresh", "next", "switch"}

Types ==
    /\ current \in Accounts /\ depleted \subseteq Accounts
    /\ route \in [Sessions -> Accounts \cup {NoAccount}]
    /\ enabled \subseteq {x \in Sessions : route[x] # NoAccount}
    /\ pc \in [Requests -> PCs]
    /\ session \in [Requests -> Sessions]
    /\ pick \in [Requests -> Picks]
    /\ chosen \in [Requests -> Accounts \cup {NoAccount}]
    /\ acct \in [Requests -> Accounts \cup {NoAccount}]
    /\ token \in [Requests -> Accounts \cup {NoAccount}]
    /\ next \in [Requests -> Accounts \cup {NoAccount}]
    /\ left \in [Requests -> Budgets]
    /\ answers \in [Requests -> Seq(Answers)]
    /\ reply \in [Requests -> Replies]

(* Before the pick nothing has been asked; afterwards the request has an   *)
(* account, and one it was named has neither a refresh nor a switch left.  *)
PickInv(r) ==
    /\ pc[r] = "new" => pick[r] = "none"
    /\ pc[r] = "pick" => pick[r] \in {"worker", "other"}
    /\ pc[r] \in Asking => acct[r] \in Accounts /\ token[r] \in Accounts
    /\ pc[r] = "switch" => next[r] \in Accounts
    /\ pick[r] \in {"hard", "spark"} =>
         /\ left[r].refresh = 0 /\ left[r].quota = 0
         /\ acct[r] = chosen[r] /\ token[r] = chosen[r]
         /\ pc[r] \notin {"new", "pick", "refresh", "next", "switch"}

(* The retry of an empty answer is spent exactly by the first answer, and  *)
(* that one had no event with text and no call.                            *)
Blank(answer) == answer.text = {} /\ ~answer.call

AnswerInv(r) ==
    /\ pc[r] \in {"new", "pick"} => answers[r] = <<>>
    /\ pc[r] # "over" => reply[r].status = "none"
    /\ pc[r] \in Asking =>
         \/ left[r].empty > 0 /\ answers[r] = <<>>
         \/ left[r].empty = 0 /\ Len(answers[r]) = 1 /\ Blank(answers[r][1])
    /\ reply[r].status = "ok" /\ Empty(reply[r]) =>
         Len(answers[r]) = 2 /\ \A i \in 1..2 : Blank(answers[r][i])

Inv == Types /\ \A r \in Requests : PickInv(r) /\ AnswerInv(r)
---------------------------------------------------------------------------
LEMMA ReplyTypes ==
    /\ NoReply \in Replies
    /\ \A status \in Errors : Error(status) \in Replies /\ Error(status).status = status
    /\ \A answer \in Answers : ToChat(answer) \in Replies
<1>1. NoReply \in Replies
  BY DEF NoReply, Replies
<1>2. ASSUME NEW status \in Errors
      PROVE  Error(status) \in Replies /\ Error(status).status = status
  BY DEF Error, NoReply, Replies, Errors
<1>3. ASSUME NEW answer \in Answers PROVE ToChat(answer) \in Replies
  <2>1. /\ (answer.text # {}) \in BOOLEAN
        /\ (IF answer.call THEN {"call"} ELSE {}) \in {{}, {"call"}}
    OBVIOUS
  <2>2. answer.args \in {"none", "delta", "item"}
    BY InboundAssumption
  <2> QED BY <2>1, <2>2 DEF ToChat, Replies
<1> QED BY <1>1, <1>2, <1>3

(* One budget of one request is spent, and nothing else. *)
LEMMA Spent ==
    ASSUME NEW f \in [Requests -> Budgets], NEW r \in Requests,
           NEW g, NEW b \in Budgets, g = [f EXCEPT ![r] = b]
    PROVE  /\ g \in [Requests -> Budgets] /\ g[r] = b
           /\ \A u \in Requests \ {r} : g[u] = f[u]
OBVIOUS

LEMMA EmptyChat ==
    ASSUME NEW answer \in Answers
    PROVE  /\ ToChat(answer).status = "ok"
           /\ Empty(ToChat(answer)) <=> Blank(answer)
BY InboundAssumption DEF ToChat, Empty, Blank

LEMMA InvInit == Init => Inv
<1> SUFFICES ASSUME Init PROVE Inv
  OBVIOUS
<1>1. Types
  BY InboundAssumption, ReplyTypes DEF Init, Types, PCs, Picks, Budgets
<1>2. ASSUME NEW r \in Requests PROVE PickInv(r) /\ AnswerInv(r)
  BY <1>2 DEF Init, PickInv, AnswerInv, Asking, NoReply
<1> QED BY <1>1, <1>2 DEF Inv

(* A step of a request leaves the locals of the others alone. *)
Others(r) ==
    \A u \in Requests \ {r} :
        /\ pc'[u] = pc[u] /\ pick'[u] = pick[u] /\ chosen'[u] = chosen[u]
        /\ acct'[u] = acct[u] /\ token'[u] = token[u] /\ next'[u] = next[u]
        /\ left'[u] = left[u] /\ answers'[u] = answers[u] /\ reply'[u] = reply[u]

LEMMA OthersKeep ==
    ASSUME Inv, NEW r \in Requests, Others(r), NEW u \in Requests \ {r}
    PROVE  PickInv(u)' /\ AnswerInv(u)'
BY DEF Inv, Others, PickInv, AnswerInv

(* What Finish leaves behind when the request had no answer to show.       *)
LEMMA FinishStep ==
    ASSUME Inv, NEW r \in Requests, NEW status \in Errors,
           Finish(r, Error(status)),
           UNCHANGED <<pick, chosen, acct, token, left, answers>>
    PROVE  /\ pc' \in [Requests -> PCs] /\ reply' \in [Requests -> Replies]
           /\ PickInv(r)' /\ AnswerInv(r)'
           /\ \A u \in Requests \ {r} : pc'[u] = pc[u] /\ reply'[u] = reply[u]
<1>1. /\ pc' \in [Requests -> PCs] /\ reply' \in [Requests -> Replies]
      /\ pc'[r] = "over" /\ reply'[r].status = status
      /\ \A u \in Requests \ {r} : pc'[u] = pc[u] /\ reply'[u] = reply[u]
  BY ReplyTypes DEF Inv, Types, Finish, Go, PCs
<1>2. status # "none" /\ status # "ok"
  BY DEF Errors
<1> QED BY <1>1, <1>2 DEF Inv, PickInv, AnswerInv, Asking

LEMMA ResolveStep ==
    ASSUME Inv, NEW r \in Requests, NEW worker \in BOOLEAN, Resolve(r, worker)
    PROVE  Types' /\ PickInv(r)' /\ AnswerInv(r)' /\ Others(r)
<1>1. HardRouted(r) \in Accounts \cup {NoAccount}
  BY DEF HardRouted, Inv, Types
<1>2. /\ pc[r] = "new" /\ pc' = [pc EXCEPT ![r] = "pick"]
      /\ pick' = [pick EXCEPT ![r] = IF worker THEN "worker" ELSE "other"]
      /\ chosen' = [chosen EXCEPT ![r] = IF worker THEN HardRouted(r) ELSE NoAccount]
      /\ UNCHANGED <<current, depleted, route, enabled, session, acct, token, next, left,
                     answers, reply>>
  BY DEF Resolve, Go, store, routes
<1>3. Types'
  BY <1>1, <1>2 DEF Inv, Types, PCs, Picks
<1>4. PickInv(r)' /\ AnswerInv(r)'
  BY <1>2 DEF Inv, Types, PickInv, AnswerInv, Asking
<1> QED BY <1>2, <1>3, <1>4 DEF Inv, Types, Others

LEMMA ServeStep ==
    ASSUME Inv, NEW r \in Requests, NEW a \in Accounts, NEW how \in {"hard", "current", "spark"},
           pc[r] = "pick", Serve(r, a, how),
           UNCHANGED <<store, routes, session, next, answers>>
    PROVE  Types' /\ PickInv(r)' /\ AnswerInv(r)' /\ Others(r)
<1> DEFINE budget == [refresh |-> IF how = "current" THEN 1 ELSE 0, empty |-> 1,
                      quota |-> IF how = "current" THEN SwitchBudget ELSE 0]
<1>1. /\ pc' = [pc EXCEPT ![r] = "send"] /\ pick' = [pick EXCEPT ![r] = how]
      /\ chosen' = [chosen EXCEPT ![r] = a]
      /\ acct' = [acct EXCEPT ![r] = a] /\ token' = [token EXCEPT ![r] = a]
      /\ left' = [left EXCEPT ![r] = budget]
      /\ UNCHANGED <<current, depleted, route, enabled, session, next, answers, reply>>
  BY DEF Serve, Go, store, routes
<1>2. budget \in Budgets /\ budget.empty = 1
      /\ (how # "current" => budget.refresh = 0 /\ budget.quota = 0)
  BY InboundAssumption DEF Budgets
<1> HIDE DEF budget
<1>3. Types'
  BY <1>1, <1>2 DEF Inv, Types, PCs, Picks
<1>4. PickInv(r)' /\ AnswerInv(r)'
  BY <1>1, <1>2 DEF Inv, Types, PickInv, AnswerInv, Asking
<1> QED BY <1>1, <1>3, <1>4 DEF Inv, Types, Others

LEMMA PickStep ==
    ASSUME Inv, NEW r \in Requests, Pick(r)
    PROVE  Types' /\ PickInv(r)' /\ AnswerInv(r)' /\ Others(r)
<1>1. pc[r] = "pick" /\ UNCHANGED <<store, routes, session, next, answers>>
  BY DEF Pick
<1>2. ASSUME NEW a \in Accounts, NEW how \in {"hard", "current", "spark"}, Serve(r, a, how)
      PROVE  Types' /\ PickInv(r)' /\ AnswerInv(r)' /\ Others(r)
  BY <1>1, <1>2, ServeStep
<1>3. CASE Finish(r, Error("unavailable")) /\ UNCHANGED <<pick, chosen, acct, token, left>>
  BY <1>1, <1>3, FinishStep DEF Errors, Inv, Types, Others, store, routes
<1>4. chosen[r] # NoAccount => chosen[r] \in Accounts
  BY DEF Inv, Types
<1>5. current \in Accounts /\ Pro \subseteq Accounts
  BY InboundAssumption DEF Inv, Types
<1> QED BY <1>2, <1>3, <1>4, <1>5 DEF Pick

LEMMA RefreshSteps ==
    ASSUME Inv, NEW r \in Requests, Upstream401(r) \/ Refresh(r)
    PROVE  Types' /\ PickInv(r)' /\ AnswerInv(r)' /\ Others(r)
<1>1. UNCHANGED <<current, depleted, route, enabled, session, pick, chosen, acct, next, answers>>
  BY DEF Upstream401, Refresh, store, routes
<1>2. CASE Finish(r, Error("401")) /\ UNCHANGED <<token, left>>
  BY <1>1, <1>2, FinishStep DEF Errors, Inv, Types, Others
<1>3. CASE /\ pc[r] = "send" /\ left[r].refresh > 0
           /\ left' = SpendRefresh(r)
           /\ pc' = [pc EXCEPT ![r] = "refresh"]
           /\ UNCHANGED <<token, reply>>
  <2>1. /\ left' \in [Requests -> Budgets]
        /\ left'[r].empty = left[r].empty
        /\ \A u \in Requests \ {r} : left'[u] = left[u]
    <3>1. left \in [Requests -> Budgets] /\ left[r] \in Budgets
      BY DEF Inv, Types
    <3>2. left[r].refresh - 1 \in 0..1
      BY <1>3, <3>1 DEF Budgets
    <3> DEFINE b == [left[r] EXCEPT !.refresh = left[r].refresh - 1]
    <3>3. b \in Budgets /\ b.empty = left[r].empty
      BY <3>1, <3>2 DEF Budgets
    <3>4. left' = [left EXCEPT ![r] = b]
      BY <1>3 DEF SpendRefresh
    <3> HIDE DEF b
    <3> QED BY <3>1, <3>3, <3>4, Spent
  <2>2. Types'
    BY <1>1, <1>3, <2>1 DEF Inv, Types, PCs
  <2>3. PickInv(r)' /\ AnswerInv(r)'
    BY <1>1, <1>3, <2>1 DEF Inv, Types, Budgets, PickInv, AnswerInv, Asking
  <2> QED BY <1>1, <1>3, <2>1, <2>2, <2>3 DEF Inv, Types, Others
<1>4. CASE /\ pc[r] = "refresh"
           /\ token' = [token EXCEPT ![r] = current]
           /\ pc' = [pc EXCEPT ![r] = "send"]
           /\ UNCHANGED <<reply, left>>
  <2>1. Types'
    BY <1>1, <1>4 DEF Inv, Types, PCs
  <2>2. PickInv(r)' /\ AnswerInv(r)'
    BY <1>1, <1>4 DEF Inv, Types, PickInv, AnswerInv, Asking
  <2> QED BY <1>1, <1>4, <2>1, <2>2 DEF Inv, Types, Others
<1> QED BY <1>2, <1>3, <1>4 DEF Upstream401, Refresh, Go

LEMMA Upstream429Step ==
    ASSUME Inv, NEW r \in Requests, Upstream429(r)
    PROVE  Types' /\ PickInv(r)' /\ AnswerInv(r)' /\ Others(r)
<1>1. /\ pc[r] = "send"
      /\ UNCHANGED <<current, route, enabled, session, pick, chosen, acct, token, next, answers>>
  BY DEF Upstream429, routes
<1>2. CASE Finish(r, Error("429")) /\ UNCHANGED <<left, depleted>>
  BY <1>1, <1>2, FinishStep DEF Errors, Inv, Types, Others
<1>3. CASE /\ left[r].quota > 0
           /\ left' = [left EXCEPT ![r].quota = IF @ = 0 THEN 0 ELSE @ - 1]
           /\ depleted' = depleted \cup {acct[r]}
           /\ pc' = [pc EXCEPT ![r] = "next"] /\ UNCHANGED reply
  <2>1. /\ left' \in [Requests -> Budgets]
        /\ left'[r].empty = left[r].empty
        /\ \A u \in Requests \ {r} : left'[u] = left[u]
    <3>1. left \in [Requests -> Budgets] /\ left[r] \in Budgets
      BY DEF Inv, Types
    <3>2. left[r].quota - 1 \in 0..SwitchBudget
      BY <1>3, <3>1, InboundAssumption DEF Budgets
    <3> DEFINE b == [left[r] EXCEPT !.quota = left[r].quota - 1]
    <3>3. b \in Budgets /\ b.empty = left[r].empty
      BY <3>1, <3>2 DEF Budgets
    <3>4. left[r].quota # 0
      BY <1>3
    <3>5. left' = [left EXCEPT ![r] = b]
      BY <1>3, <3>4
    <3> HIDE DEF b
    <3> QED BY <3>1, <3>3, <3>5, Spent
  <2>2. acct[r] \in Accounts
    BY <1>1 DEF Inv, PickInv, Asking
  <2>3. Types'
    BY <1>1, <1>3, <2>1, <2>2 DEF Inv, Types, PCs
  <2>4. pick[r] \notin {"hard", "spark"}
    BY <1>3 DEF Inv, PickInv
  <2>5. PickInv(r)' /\ AnswerInv(r)'
    BY <1>1, <1>3, <2>1, <2>4 DEF Inv, Types, PickInv, AnswerInv, Asking
  <2> QED BY <1>1, <1>3, <2>1, <2>3, <2>5 DEF Inv, Types, Others
<1> QED BY <1>2, <1>3 DEF Upstream429, MaySwitch, Go

LEMMA SwitchSteps ==
    ASSUME Inv, NEW r \in Requests, PickNext(r) \/ Switch(r)
    PROVE  Types' /\ PickInv(r)' /\ AnswerInv(r)' /\ Others(r)
<1>1. /\ pc[r] \in {"next", "switch"}
      /\ UNCHANGED <<depleted, route, enabled, session, pick, chosen, left, answers>>
  BY DEF PickNext, Switch, store, routes
<1>2. /\ pick[r] \notin {"hard", "spark"}
      /\ acct[r] \in Accounts /\ token[r] \in Accounts
      /\ pc[r] = "switch" => next[r] \in Accounts
  BY <1>1 DEF Inv, PickInv, Asking
<1>3. CASE /\ Finish(r, Error("429")) /\ UNCHANGED <<current, acct, token>>
           /\ next' = next \/ next' = [next EXCEPT ![r] = NoAccount]
  BY <1>1, <1>3, FinishStep DEF Errors, Inv, Types, Others
<1>4. CASE PickNext(r) /\ pc' = [pc EXCEPT ![r] = "switch"]
  <2>1. /\ UNCHANGED <<current, acct, token, reply>>
        /\ \E a \in Accounts : next' = [next EXCEPT ![r] = a]
    BY <1>4 DEF PickNext, Finish, Go, store, Inv, Types
  <2>2. Types'
    BY <1>1, <1>4, <2>1 DEF Inv, Types, PCs
  <2>3. PickInv(r)' /\ AnswerInv(r)'
    BY <1>1, <1>2, <1>4, <2>1 DEF Inv, Types, PickInv, AnswerInv, Asking
  <2> QED BY <1>1, <1>4, <2>1, <2>2, <2>3 DEF Inv, Types, Others
<1>5. CASE /\ pc[r] = "switch" /\ current' = next[r]
           /\ acct' = [acct EXCEPT ![r] = next[r]] /\ token' = [token EXCEPT ![r] = next[r]]
           /\ pc' = [pc EXCEPT ![r] = "send"] /\ UNCHANGED reply
           /\ next' = [next EXCEPT ![r] = NoAccount]
  <2>1. Types'
    BY <1>1, <1>2, <1>5 DEF Inv, Types, PCs
  <2>2. PickInv(r)' /\ AnswerInv(r)'
    BY <1>1, <1>2, <1>5 DEF Inv, Types, PickInv, AnswerInv, Asking
  <2> QED BY <1>1, <1>5, <2>1, <2>2 DEF Inv, Types, Others
<1> QED BY <1>3, <1>4, <1>5 DEF PickNext, Switch, Go, store

LEMMA Upstream200Step ==
    ASSUME Inv, NEW r \in Requests, NEW answer \in Answers, Upstream200(r, answer)
    PROVE  Types' /\ PickInv(r)' /\ AnswerInv(r)' /\ Others(r)
<1>1. /\ pc[r] = "send"
      /\ answers' = [answers EXCEPT ![r] = Append(@, answer)]
      /\ UNCHANGED <<current, depleted, route, enabled, session, pick, chosen, acct, token, next>>
  BY DEF Upstream200, store, routes
<1>2. /\ answers' \in [Requests -> Seq(Answers)]
      /\ answers'[r] = Append(answers[r], answer)
      /\ \A u \in Requests \ {r} : answers'[u] = answers[u]
  BY <1>1 DEF Inv, Types
<1>3. \/ left[r].empty > 0 /\ answers[r] = <<>>
      \/ left[r].empty = 0 /\ Len(answers[r]) = 1 /\ Blank(answers[r][1])
  BY <1>1 DEF Inv, AnswerInv, Asking
<1>4. answers[r] \in Seq(Answers) /\ left[r] \in Budgets
  BY DEF Inv, Types
<1>5. CASE /\ Blank(answer) /\ left[r].empty > 0
           /\ left' = [left EXCEPT ![r].empty = @ - 1]
           /\ pc' = [pc EXCEPT ![r] = "send"] /\ UNCHANGED reply
  <2>1. /\ left' \in [Requests -> Budgets] /\ left'[r].empty = 0
        /\ left'[r].refresh = left[r].refresh /\ left'[r].quota = left[r].quota
        /\ \A u \in Requests \ {r} : left'[u] = left[u]
    <3>1. left \in [Requests -> Budgets] /\ left[r] \in Budgets
      BY DEF Inv, Types
    <3>2. left[r].empty - 1 = 0
      BY <1>5, <3>1 DEF Budgets
    <3> DEFINE b == [left[r] EXCEPT !.empty = left[r].empty - 1]
    <3>3. /\ b \in Budgets /\ b.empty = 0
          /\ b.refresh = left[r].refresh /\ b.quota = left[r].quota
      BY <3>1, <3>2 DEF Budgets
    <3>4. left' = [left EXCEPT ![r] = b]
      BY <1>5
    <3> HIDE DEF b
    <3> QED BY <3>1, <3>3, <3>4, Spent
  <2>2. Len(answers'[r]) = 1 /\ Blank(answers'[r][1])
    BY <1>2, <1>3, <1>4, <1>5 DEF Budgets
  <2>3. Types'
    BY <1>1, <1>2, <1>5, <2>1 DEF Inv, Types, PCs
  <2>4. PickInv(r)'
    BY <1>1, <1>5, <2>1 DEF Inv, Types, PickInv, Asking
  <2>5. AnswerInv(r)'
    BY <1>1, <1>5, <2>1, <2>2 DEF Inv, Types, AnswerInv, Asking
  <2> QED BY <1>1, <1>2, <1>5, <2>1, <2>3, <2>4, <2>5 DEF Inv, Types, Others
<1>6. CASE /\ ~(Blank(answer) /\ left[r].empty > 0)
           /\ Finish(r, ToChat(answer)) /\ UNCHANGED left
  <2>1. /\ pc' \in [Requests -> PCs] /\ pc'[r] = "over"
        /\ reply' \in [Requests -> Replies] /\ reply'[r] = ToChat(answer)
        /\ \A u \in Requests \ {r} : pc'[u] = pc[u] /\ reply'[u] = reply[u]
    BY <1>6, ReplyTypes DEF Inv, Types, Finish, Go, PCs
  <2>2. Blank(answer) => Len(answers'[r]) = 2 /\ \A i \in 1..2 : Blank(answers'[r][i])
    BY <1>2, <1>3, <1>4, <1>6
  <2>3. Types'
    BY <1>1, <1>2, <1>6, <2>1 DEF Inv, Types
  <2>4. PickInv(r)'
    BY <1>1, <1>6, <2>1 DEF Inv, PickInv, Asking
  <2>5. AnswerInv(r)'
    BY <2>1, <2>2, EmptyChat DEF AnswerInv, Asking
  <2> QED BY <1>1, <1>2, <1>6, <2>1, <2>3, <2>4, <2>5 DEF Others
<1> QED BY <1>5, <1>6, EmptyChat DEF Upstream200, Go

LEMMA ServingStep ==
    ASSUME Inv, NEW r \in Requests, Serving(r)
    PROVE  Types' /\ PickInv(r)' /\ AnswerInv(r)' /\ Others(r)
<1>1. CASE UpstreamFails(r)
  <2>1. /\ Finish(r, Error("error"))
        /\ UNCHANGED <<current, depleted, route, enabled, session, pick, chosen, acct, token,
                       next, left, answers>>
    BY <1>1 DEF UpstreamFails, store, routes
  <2>2. /\ pc' \in [Requests -> PCs] /\ reply' \in [Requests -> Replies]
        /\ PickInv(r)' /\ AnswerInv(r)'
        /\ \A u \in Requests \ {r} : pc'[u] = pc[u] /\ reply'[u] = reply[u]
    BY <2>1, FinishStep DEF Errors
  <2> QED BY <2>1, <2>2 DEF Inv, Types, Others
<1>2. CASE \E worker \in BOOLEAN : Resolve(r, worker)
  BY <1>2, ResolveStep
<1>3. CASE \E answer \in Answers : Upstream200(r, answer)
  BY <1>3, Upstream200Step
<1>4. CASE Upstream401(r) \/ Refresh(r)
  BY <1>4, RefreshSteps
<1>5. CASE PickNext(r) \/ Switch(r)
  BY <1>5, SwitchSteps
<1> QED BY <1>1, <1>2, <1>3, <1>4, <1>5, PickStep, Upstream429Step DEF Serving

LEMMA InvNext == Inv /\ [Next]_vars => Inv'
<1> SUFFICES ASSUME Inv, [Next]_vars PROVE Inv'
  OBVIOUS
<1>1. CASE /\ UNCHANGED <<pc, task>>
           /\ current' \in Accounts /\ UNCHANGED depleted
           /\ route' \in [Sessions -> Accounts \cup {NoAccount}]
           /\ enabled' \subseteq {x \in Sessions : route'[x] # NoAccount}
  <2>1. Types'
    BY <1>1 DEF Inv, Types, task
  <2>2. ASSUME NEW r \in Requests PROVE PickInv(r)' /\ AnswerInv(r)'
    BY <1>1 DEF Inv, PickInv, AnswerInv, task
  <2> QED BY <2>1, <2>2 DEF Inv
<1>2. ASSUME NEW x \in Sessions, NEW a \in Accounts, AddRoute(x, a) PROVE Inv'
  BY <1>1, <1>2, InboundAssumption DEF AddRoute, store, Inv, Types
<1>3. ASSUME NEW x \in Sessions, ToggleRoute(x) \/ DeleteRoute(x) PROVE Inv'
  BY <1>1, <1>3 DEF ToggleRoute, DeleteRoute, store, Inv, Types
<1>4. ASSUME NEW a \in Accounts, UserSwitch(a) PROVE Inv'
  BY <1>1, <1>4 DEF UserSwitch, routes, Inv, Types
<1>5. CASE UNCHANGED vars
  BY <1>1, <1>5 DEF vars, store, routes, Inv, Types
<1>6. ASSUME NEW r \in Requests, Serving(r) PROVE Inv'
  BY <1>6, ServingStep, OthersKeep DEF Inv
<1> QED BY <1>2, <1>3, <1>4, <1>5, <1>6 DEF Next

(* The inductive invariant holds in every behaviour.                      *)
THEOREM Invariance == Spec => []Inv
BY InvInit, InvNext, PTL DEF Spec
---------------------------------------------------------------------------
(* Types: only routes that exist are enabled, and a request that is being  *)
(* served has an account (handle_chat_inbound).                            *)
THEOREM TypeCorrect == Spec => []TypeOK
<1>1. Inv => TypeOK
  BY DEF Inv, Types, PickInv, TypeOK, PCs, Picks, Budgets, Asking
<1> QED BY <1>1, Invariance, PTL

(* An empty chat message is sent only after two answers without a single   *)
(* event that carried text or a call: a token refresh or a quota switch on *)
(* the way never uses up the retry of an empty answer.                     *)
THEOREM EmptyMeansEmptyHolds == Spec => []EmptyMeansEmpty
<1>1. Inv => EmptyMeansEmpty
  BY DEF Inv, AnswerInv, EmptyMeansEmpty, Blank
<1> QED BY <1>1, Invariance, PTL

(* A request whose session is routed to an account, or that may use pro    *)
(* accounts only, is served by the account it was given or not at all.     *)
THEOREM NamedAccountServesHolds == Spec => []NamedAccountServes
<1>1. Inv => NamedAccountServes
  BY DEF Inv, PickInv, NamedAccountServes
<1> QED BY <1>1, Invariance, PTL
=============================================================================
