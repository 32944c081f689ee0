------------------------- MODULE RelayStreamProofs -------------------------
(***************************************************************************)
(* Theorems about RelayStream, for any frames, transports and cutoffs: the *)
(* watchdog, the way of the frames through the buffer, and the answer that *)
(* the translator makes of them, down to the request that follows it.      *)
(*                                                                         *)
(* Recursive functions are reasoned about through an induction over the    *)
(* naturals that is itself proved from their well-foundedness.             *)
(***************************************************************************)
EXTENDS RelayStream, SequenceTheorems, FiniteSetTheorems, FunctionTheorems,
        WellFoundedInduction, TLAPS

(* The watchdog counts heartbeats without an event: what it measures is    *)
(* how long the client has had nothing, and a cut waits for the cutoff.    *)
WatchInv ==
    /\ idle \in Nat /\ silent = idle
    /\ half \in BOOLEAN /\ active \in BOOLEAN
    /\ idle <= Cutoff
    /\ end = "cut" => idle >= Cutoff

Halves == [f : Chunks, whole : BOOLEAN, ends : BOOLEAN]

(* The halves of q are, two by two, the frames of sq that tk has not yet,  *)
(* and tk is a beginning of sq.                                            *)
Pairs(q, tk, sq) ==
    /\ \A i \in 1..Len(tk) : tk[i] = sq[i]
    /\ \A j \in 1..(Len(sq) - Len(tk)) :
         /\ q[2 * j - 1].f = sq[Len(tk) + j] /\ ~q[2 * j - 1].ends
         /\ 2 * j <= Len(q) => q[2 * j].ends

Even(q, tk, sq) == Len(q) = 2 * (Len(sq) - Len(tk))
Odd(q, tk, sq) == Len(q) = 2 * (Len(sq) - Len(tk)) - 1

(* What the buffer and the network hold together, the oldest half first,   *)
(* are the frames that were not taken yet; only the last one may lack its  *)
(* blank line, and then the connection has ended.                          *)
Queue == buf \o wire

FrameInv ==
    /\ sent \in Seq(Chunks) /\ taken \in Seq(Chunks)
    /\ wire \in Seq(Halves) /\ buf \in Seq(Halves)
    /\ mode = "direct" => taken = <<>>
    /\ mode # "direct" =>
         /\ Len(taken) <= Len(sent)
         /\ Pairs(Queue, taken, sent)
         /\ Even(Queue, taken, sent) \/ (up = "eof" /\ Odd(Queue, taken, sent))
---------------------------------------------------------------------------
(* The watchdog: only events of the client set it back, and it cuts no     *)
(* stream before the cutoff.                                               *)
WatchNext == \/ UNCHANGED watch
             \/ Pass \/ PassBytes \/ Heartbeat \/ Cut
             \/ UNCHANGED <<idle, silent, half, active>> /\ end' \in {"eof", "gone"}

LEMMA Watches == ASSUME [Next]_vars PROVE WatchNext
<1>1. CASE Upstream
  BY <1>1 DEF Upstream, Answer, AnswerSync, Refuses, Send, Ends, EndsInside, Quiet, WatchNext
<1>2. CASE Task
  BY <1>2 DEF Task, Read, Take, AtEof, AtError, Quiet, WatchNext
<1>3. CASE Client
  BY <1>3 DEF Client, PassEnd, WatchNext
<1>4. CASE Leaves \/ TaskStops \/ Stopped \/ UNCHANGED vars
  BY <1>4 DEF Leaves, TaskStops, Stopped, vars, watch, WatchNext
<1>5. QED  BY <1>1, <1>2, <1>3, <1>4 DEF Next

LEMMA WatchStep ==
    ASSUME WatchInv, WatchNext
    PROVE  WatchInv'
<1>0. idle \in Nat /\ FirstCutoff \in Nat /\ BetweenCutoff \in Nat
  BY CutoffAssumption DEF WatchInv
<1>1. CASE UNCHANGED watch
  BY <1>1 DEF watch, WatchInv, Cutoff
<1>2. CASE Pass
  <2>1. idle' = 0 /\ silent' = 0 /\ active' = TRUE /\ half' = half /\ end' = end /\ end = "open"
    BY <1>2 DEF Pass
  <2>2. QED  BY <2>1, <1>0 DEF WatchInv, Cutoff
<1>3. CASE PassBytes
  <2>1. half' \in BOOLEAN /\ active' \in BOOLEAN /\ end = "open"
        /\ active' = (active \/ IsEvent(Head(wire)))
    BY <1>3 DEF PassBytes, WatchInv
  <2>2. CASE IsEvent(Head(wire))
    <3>1. idle' = 0 /\ silent' = 0 /\ end' = end
      BY <1>3, <2>2 DEF PassBytes
    <3>2. QED  BY <3>1, <2>1, <1>0 DEF WatchInv, Cutoff
  <2>3. CASE ~IsEvent(Head(wire))
    <3>1. idle' = idle /\ silent' = silent /\ end' = IF idle >= Cutoff THEN "cut" ELSE end
      BY <1>3, <2>3 DEF PassBytes
    <3>2. active' = active
      BY <2>1, <2>3 DEF WatchInv
    <3>3. Cutoff' = Cutoff
      BY <3>2 DEF Cutoff
    <3>4. QED  BY <3>1, <3>2, <3>3, <2>1, <1>0 DEF WatchInv
  <2>4. QED  BY <2>2, <2>3
<1>4. CASE Heartbeat
  <2>1. /\ idle' = idle + 1 /\ silent' = silent + 1 /\ idle < Cutoff
        /\ half' = half /\ active' = active /\ end' = end /\ end = "open"
    BY <1>4 DEF Heartbeat, Watched
  <2>2. QED  BY <2>1, <1>0 DEF WatchInv, Cutoff
<1>5. CASE Cut
  <2>1. idle >= Cutoff /\ UNCHANGED <<idle, silent, half, active>>
    BY <1>5 DEF Cut
  <2>2. QED  BY <2>1, <1>0 DEF WatchInv, Cutoff
<1>6. CASE UNCHANGED <<idle, silent, half, active>> /\ end' \in {"eof", "gone"}
  BY <1>6 DEF WatchInv, Cutoff
<1>7. QED
  BY <1>1, <1>2, <1>3, <1>4, <1>5, <1>6 DEF WatchNext

LEMMA WatchInit == ASSUME Init PROVE WatchInv
<1>1. FirstCutoff \in Nat /\ BetweenCutoff \in Nat
  BY CutoffAssumption
<1>2. idle = 0 /\ silent = 0 /\ end = "open"
  BY DEF Init
<1>3. half \in BOOLEAN /\ active \in BOOLEAN
  BY DEF Init
<1>4. Cutoff \in Nat /\ idle <= Cutoff /\ silent <= Cutoff
  BY <1>1, <1>2 DEF Cutoff
<1>5. QED  BY <1>1, <1>2, <1>3, <1>4 DEF WatchInv

(* A stream is cut exactly when the client had no event for the cutoff.    *)
THEOREM CutWhenSilentHolds == Spec => []CutWhenSilent
<1>1. Init => WatchInv
  BY WatchInit
<1>2. WatchInv /\ [Next]_vars => WatchInv'
  BY WatchStep, Watches
<1>3. WatchInv => CutWhenSilent
  BY DEF WatchInv, CutWhenSilent
<1>4. QED  BY <1>1, <1>2, <1>3, PTL DEF Spec
---------------------------------------------------------------------------
(* The two halves of a frame.                                              *)
LEMMA HalfTypes ==
    ASSUME NEW g \in Chunks, NEW b \in BOOLEAN
    PROVE  /\ Lines(g) \in Halves /\ ~Lines(g).ends /\ Lines(g).f = g
           /\ Blank(g) \in Halves /\ Blank(g).ends
           /\ [Lines(g) EXCEPT !.whole = b] \in Halves
           /\ ~[Lines(g) EXCEPT !.whole = b].ends /\ [Lines(g) EXCEPT !.whole = b].f = g
BY DEF Lines, Blank, Halves

(* A further frame, whole or cut after its lines, keeps the order.         *)
LEMMA PairsLines ==
    ASSUME NEW q \in Seq(Halves), NEW tk \in Seq(Chunks), NEW sq \in Seq(Chunks),
           NEW g \in Chunks, NEW h \in Halves, h.f = g, ~h.ends,
           Len(tk) <= Len(sq), Pairs(q, tk, sq), Even(q, tk, sq)
    PROVE  Pairs(Append(q, h), tk, Append(sq, g)) /\ Odd(Append(q, h), tk, Append(sq, g))
<1>1. Len(q) \in Nat /\ Len(tk) \in Nat /\ Len(sq) \in Nat
  BY LenProperties
<1>2. /\ Len(Append(q, h)) = Len(q) + 1 /\ Append(q, h)[Len(q) + 1] = h
      /\ \A i \in 1..Len(q) : Append(q, h)[i] = q[i]
      /\ Len(Append(sq, g)) = Len(sq) + 1 /\ Append(sq, g)[Len(sq) + 1] = g
      /\ \A i \in 1..Len(sq) : Append(sq, g)[i] = sq[i]
  BY AppendProperties
<1>. DEFINE q2 == Append(q, h)
            sq2 == Append(sq, g)
<1>. HIDE DEF q2, sq2
<1>3. ASSUME NEW j \in 1..(Len(sq2) - Len(tk))
      PROVE  /\ q2[2 * j - 1].f = sq2[Len(tk) + j] /\ ~q2[2 * j - 1].ends
             /\ 2 * j <= Len(q2) => q2[2 * j].ends
  <2>1. CASE j <= Len(sq) - Len(tk)
    <3>1. /\ 2 * j - 1 \in 1..Len(q) /\ 2 * j \in 1..Len(q) /\ Len(tk) + j \in 1..Len(sq)
          /\ j \in 1..(Len(sq) - Len(tk))
      BY <1>1, <2>1 DEF Even
    <3>2. /\ q[2 * j - 1].f = sq[Len(tk) + j] /\ ~q[2 * j - 1].ends /\ q[2 * j].ends
      BY <1>1, <3>1 DEF Pairs
    <3>3. QED  BY <1>2, <3>1, <3>2 DEF q2, sq2
  <2>2. CASE j = Len(sq) - Len(tk) + 1
    <3>1. 2 * j - 1 = Len(q) + 1 /\ Len(tk) + j = Len(sq) + 1 /\ 2 * j > Len(q) + 1
      BY <1>1, <2>2 DEF Even
    <3>2. QED  BY <1>1, <1>2, <3>1 DEF q2, sq2
  <2>3. j <= Len(sq) - Len(tk) \/ j = Len(sq) - Len(tk) + 1
    BY <1>1, <1>2 DEF sq2
  <2>4. QED  BY <2>1, <2>2, <2>3
<1>4. \A i \in 1..Len(tk) : tk[i] = sq2[i]
  BY <1>1, <1>2 DEF Pairs, sq2
<1>5. Odd(q2, tk, sq2)
  BY <1>1, <1>2 DEF Even, Odd, q2, sq2
<1>6. QED  BY <1>3, <1>4, <1>5 DEF Pairs, q2, sq2

(* The blank line that a frame lacks.                                      *)
LEMMA PairsBlank ==
    ASSUME NEW q \in Seq(Halves), NEW tk \in Seq(Chunks), NEW sq \in Seq(Chunks),
           NEW h \in Halves, h.ends,
           Len(tk) <= Len(sq), Pairs(q, tk, sq), Odd(q, tk, sq)
    PROVE  Pairs(Append(q, h), tk, sq) /\ Even(Append(q, h), tk, sq)
<1>1. Len(q) \in Nat /\ Len(tk) \in Nat /\ Len(sq) \in Nat
  BY LenProperties
<1>2. /\ Len(Append(q, h)) = Len(q) + 1 /\ Append(q, h)[Len(q) + 1] = h
      /\ \A i \in 1..Len(q) : Append(q, h)[i] = q[i]
  BY AppendProperties
<1>. DEFINE q2 == Append(q, h)
<1>. HIDE DEF q2
<1>3. ASSUME NEW j \in 1..(Len(sq) - Len(tk))
      PROVE  q2[2 * j - 1].f = sq[Len(tk) + j] /\ ~q2[2 * j - 1].ends /\ q2[2 * j].ends
  <2>1. q[2 * j - 1].f = sq[Len(tk) + j] /\ ~q[2 * j - 1].ends /\ (2 * j <= Len(q) => q[2 * j].ends)
    BY DEF Pairs
  <2>2. 2 * j - 1 \in 1..Len(q) /\ (2 * j \in 1..Len(q) \/ 2 * j = Len(q) + 1)
    BY <1>1 DEF Odd
  <2>3. q2[2 * j - 1] = q[2 * j - 1]
    BY <1>2, <2>2 DEF q2
  <2>4. q2[2 * j].ends
    BY <1>1, <1>2, <2>1, <2>2 DEF q2
  <2>5. QED  BY <2>1, <2>3, <2>4
<1>4. Even(q2, tk, sq)
  BY <1>1, <1>2 DEF Even, Odd, q2
<1>5. QED  BY <1>3, <1>4 DEF Pairs, q2

(* The first frame is taken out.                                           *)
LEMMA PairsTake ==
    ASSUME NEW q \in Seq(Halves), NEW tk \in Seq(Chunks), NEW sq \in Seq(Chunks),
           NEW r \in Seq(Halves), NEW g \in Chunks,
           Len(tk) <= Len(sq), Pairs(q, tk, sq), Even(q, tk, sq) \/ Odd(q, tk, sq),
           Len(q) >= 2, Len(r) = Len(q) - 2, \A i \in 1..Len(r) : r[i] = q[i + 2],
           g = q[1].f
    PROVE  /\ Len(Append(tk, g)) <= Len(sq)
           /\ Pairs(r, Append(tk, g), sq)
           /\ Even(q, tk, sq) => Even(r, Append(tk, g), sq)
           /\ Odd(q, tk, sq) => Odd(r, Append(tk, g), sq)
<1>1. Len(q) \in Nat /\ Len(tk) \in Nat /\ Len(sq) \in Nat /\ Len(r) \in Nat
  BY LenProperties
<1>. DEFINE tk2 == Append(tk, g)
<1>2. Len(tk2) = Len(tk) + 1 /\ tk2[Len(tk) + 1] = g /\ \A i \in 1..Len(tk) : tk2[i] = tk[i]
  BY AppendProperties
<1>. HIDE DEF tk2
<1>3. 1 \in 1..(Len(sq) - Len(tk))
  BY <1>1 DEF Even, Odd
<1>4. g = sq[Len(tk) + 1]
  <2>1. q[2 * 1 - 1].f = sq[Len(tk) + 1]
    BY <1>3 DEF Pairs
  <2>2. QED  BY <2>1
<1>5. ASSUME NEW j \in 1..(Len(sq) - Len(tk2))
      PROVE  /\ r[2 * j - 1].f = sq[Len(tk2) + j] /\ ~r[2 * j - 1].ends
             /\ 2 * j <= Len(r) => r[2 * j].ends
  <2>. DEFINE k == j + 1
  <2>1. k \in 1..(Len(sq) - Len(tk))
    BY <1>1, <1>2
  <2>2. /\ q[2 * k - 1].f = sq[Len(tk) + k] /\ ~q[2 * k - 1].ends
        /\ 2 * k <= Len(q) => q[2 * k].ends
    BY <2>1 DEF Pairs
  <2>3. /\ 2 * k - 1 = (2 * j - 1) + 2 /\ 2 * k = 2 * j + 2 /\ Len(tk) + k = Len(tk2) + j
        /\ 2 * j - 1 \in 1..Len(r)
        /\ 2 * j <= Len(r) => 2 * j \in 1..Len(r) /\ 2 * k <= Len(q)
    BY <1>1, <1>2 DEF Even, Odd
  <2>. HIDE DEF k
  <2>4. r[2 * j - 1] = q[2 * k - 1] /\ (2 * j <= Len(r) => r[2 * j] = q[2 * k])
    BY <2>3
  <2>5. QED  BY <2>2, <2>3, <2>4
<1>6. \A i \in 1..Len(tk2) : tk2[i] = sq[i]
  BY <1>1, <1>2, <1>4 DEF Pairs
<1>7. QED
  BY <1>1, <1>2, <1>3, <1>5, <1>6 DEF Pairs, Even, Odd, tk2
---------------------------------------------------------------------------
(* The queue under the operations of the network and of the buffer.        *)
LEMMA QueueGrows ==
    ASSUME NEW S, NEW b \in Seq(S), NEW w \in Seq(S), NEW h \in S
    PROVE  b \o Append(w, h) = Append(b \o w, h)
<1>1. <<h>> \in Seq(S) /\ b \o w \in Seq(S)
  BY ConcatProperties
<1>2. Append(w, h) = w \o <<h>> /\ Append(b \o w, h) = (b \o w) \o <<h>>
  BY <1>1, AppendIsConcat
<1>3. QED  BY <1>1, <1>2, ConcatAssociative

LEMMA TwoHalves ==
    ASSUME NEW S, NEW w \in Seq(S), NEW h \in S, NEW g \in S
    PROVE  w \o <<h, g>> = Append(Append(w, h), g)
<1>. DEFINE two == <<h, g>>
            u == Append(Append(w, h), g)
<1>1. two \in Seq(S) /\ Len(two) = 2 /\ two[1] = h /\ two[2] = g
  OBVIOUS
<1>2. /\ Append(w, h) \in Seq(S) /\ Len(Append(w, h)) = Len(w) + 1 /\ Append(w, h)[Len(w) + 1] = h
      /\ \A i \in 1..Len(w) : Append(w, h)[i] = w[i]
  BY AppendProperties
<1>3. Len(w) \in Nat
  BY LenProperties
<1>4. /\ u \in Seq(S) /\ Len(u) = Len(w) + 2 /\ u[Len(w) + 1] = h /\ u[Len(w) + 2] = g
      /\ \A i \in 1..Len(w) : u[i] = w[i]
  BY <1>2, <1>3, AppendProperties
<1>. HIDE DEF two, u
<1>5. /\ w \o two \in Seq(S) /\ Len(w \o two) = Len(w) + 2
      /\ \A i \in 1..(Len(w) + 2) : (w \o two)[i] = IF i <= Len(w) THEN w[i] ELSE two[i - Len(w)]
  <2>1. /\ w \o two \in Seq(S) /\ Len(w \o two) = Len(w) + Len(two)
        /\ \A i \in 1..(Len(w) + Len(two)) :
             (w \o two)[i] = IF i <= Len(w) THEN w[i] ELSE two[i - Len(w)]
    BY <1>1, ConcatProperties
  <2>2. QED  BY <1>1, <2>1
<1>6. \A i \in 1..Len(u) : u[i] = (w \o two)[i]
  BY <1>1, <1>3, <1>4, <1>5
<1>7. u = w \o two
  BY <1>4, <1>5, <1>6, SeqEqual
<1>8. QED  BY <1>7 DEF two, u

LEMMA QueueRead ==
    ASSUME NEW S, NEW b \in Seq(S), NEW w \in Seq(S), NEW k \in 1..Len(w)
    PROVE  /\ b \o SubSeq(w, 1, k) \in Seq(S) /\ SubSeq(w, k + 1, Len(w)) \in Seq(S)
           /\ (b \o SubSeq(w, 1, k)) \o SubSeq(w, k + 1, Len(w)) = b \o w
<1>1. Len(w) \in Nat /\ \A i \in 1..Len(w) : w[i] \in S
  BY LenProperties, ElementOfSeq
<1>2. SubSeq(w, 1, k) \in Seq(S) /\ SubSeq(w, k + 1, Len(w)) \in Seq(S)
  BY <1>1, SubSeqProperties
<1>3. SubSeq(w, 1, k) \o SubSeq(w, k + 1, Len(w)) = w
  <2>1. 1 \in 1..(Len(w) + 1) /\ k \in (1 - 1)..Len(w) /\ Len(w) \in k..Len(w)
    BY <1>1
  <2>2. SubSeq(w, 1, k) \o SubSeq(w, k + 1, Len(w)) = SubSeq(w, 1, Len(w))
    BY <2>1, ConcatAdjacentSubSeq
  <2>3. QED  BY <2>2, SubSeqFull
<1>. DEFINE x == SubSeq(w, 1, k)
            y == SubSeq(w, k + 1, Len(w))
<1>4. x \in Seq(S) /\ y \in Seq(S) /\ x \o y = w
  BY <1>2, <1>3
<1>. HIDE DEF x, y
<1>5. b \o x \in Seq(S)
  BY <1>4, ConcatProperties
<1>6. (b \o x) \o y = b \o (x \o y)
  <2>1. x \in Seq(S) /\ y \in Seq(S)
    BY <1>4
  <2>2. QED  BY <2>1, ConcatAssociative
<1>7. QED  BY <1>4, <1>5, <1>6 DEF x, y
---------------------------------------------------------------------------
(* Where nothing is sent, read or taken the frames stay as they are.       *)
LEMMA FramesStay ==
    ASSUME FrameInv, UNCHANGED <<mode, sent, taken, wire, buf>>, up = "eof" => up' = "eof"
    PROVE  FrameInv'
BY DEF FrameInv, Queue

(* Bytes that pass unchanged are no frames of a buffer.                    *)
LEMMA PassFrames ==
    ASSUME FrameInv, PassBytes
    PROVE  FrameInv'
<1>1. mode = "direct" /\ wire # <<>> /\ wire' = Tail(wire) /\ UNCHANGED <<mode, sent, taken, buf>>
  BY DEF PassBytes, Core, upstream
<1>2. Tail(wire) \in Seq(Halves)
  BY <1>1, HeadTailProperties DEF FrameInv
<1>3. QED  BY <1>1, <1>2 DEF FrameInv

LEMMA SendFrames ==
    ASSUME FrameInv, NEW f \in Chunks, Send(f)
    PROVE  FrameInv'
<1>0. sent \in Seq(Chunks) /\ taken \in Seq(Chunks) /\ wire \in Seq(Halves) /\ buf \in Seq(Halves)
  BY DEF FrameInv
<1>1. /\ sent' = Append(sent, f) /\ wire' = wire \o <<Lines(f), Blank(f)>> /\ up = "open"
      /\ UNCHANGED <<mode, taken, buf>>
  BY DEF Send, Quiet
<1>2. Lines(f) \in Halves /\ ~Lines(f).ends /\ Lines(f).f = f /\ Blank(f) \in Halves /\ Blank(f).ends
  BY HalfTypes
<1>3. /\ wire' = Append(Append(wire, Lines(f)), Blank(f))
      /\ Append(wire, Lines(f)) \in Seq(Halves) /\ wire' \in Seq(Halves)
      /\ sent' \in Seq(Chunks) /\ Len(sent') = Len(sent) + 1
  BY <1>0, <1>1, <1>2, TwoHalves, AppendProperties
<1>4. Queue \in Seq(Halves) /\ Queue' = Append(Append(Queue, Lines(f)), Blank(f))
  <2>1. buf \o Append(wire, Lines(f)) = Append(buf \o wire, Lines(f))
    BY <1>0, <1>2, QueueGrows
  <2>2. buf \o wire' = Append(buf \o Append(wire, Lines(f)), Blank(f))
    BY <1>0, <1>2, <1>3, QueueGrows
  <2>3. buf \o wire \in Seq(Halves)
    BY <1>0, ConcatProperties
  <2>4. QED  BY <1>1, <2>1, <2>2, <2>3 DEF Queue
<1>5. ASSUME mode # "direct"
      PROVE  Len(taken) <= Len(sent') /\ Pairs(Queue', taken, sent') /\ Even(Queue', taken, sent')
  <2>1. Len(taken) <= Len(sent) /\ Pairs(Queue, taken, sent) /\ Even(Queue, taken, sent)
    BY <1>1, <1>5 DEF FrameInv
  <2>. DEFINE q == Append(Queue, Lines(f))
  <2>2. q \in Seq(Halves) /\ Pairs(q, taken, sent') /\ Odd(q, taken, sent')
    BY <1>0, <1>1, <1>2, <1>4, <2>1, PairsLines, AppendProperties
  <2>3. Len(taken) <= Len(sent')
    BY <1>0, <1>3, <2>1, LenProperties
  <2>. HIDE DEF q
  <2>4. Pairs(Append(q, Blank(f)), taken, sent') /\ Even(Append(q, Blank(f)), taken, sent')
    BY <1>0, <1>2, <1>3, <2>2, <2>3, PairsBlank
  <2>5. QED  BY <1>4, <2>3, <2>4 DEF q
<1>6. QED  BY <1>0, <1>1, <1>3, <1>5 DEF FrameInv

(* The connection ends inside a frame.                                     *)
LEMMA EndsInsideFrames ==
    ASSUME FrameInv, NEW f \in Chunks, NEW whole \in BOOLEAN, EndsInside(f, whole)
    PROVE  FrameInv'
<1>. DEFINE h == [Lines(f) EXCEPT !.whole = whole]
<1>0. sent \in Seq(Chunks) /\ taken \in Seq(Chunks) /\ wire \in Seq(Halves) /\ buf \in Seq(Halves)
  BY DEF FrameInv
<1>1. /\ sent' = Append(sent, f) /\ wire' = Append(wire, h) /\ up = "open" /\ up' = "eof"
      /\ UNCHANGED <<mode, taken, buf>>
  BY DEF EndsInside, Quiet
<1>2. h \in Halves /\ ~h.ends /\ h.f = f
  BY HalfTypes
<1>. HIDE DEF h
<1>3. wire' \in Seq(Halves) /\ sent' \in Seq(Chunks) /\ Len(sent') = Len(sent) + 1
  BY <1>0, <1>1, <1>2, AppendProperties
<1>4. Queue \in Seq(Halves) /\ Queue' = Append(Queue, h)
  BY <1>0, <1>1, <1>2, QueueGrows, ConcatProperties DEF Queue
<1>5. ASSUME mode # "direct"
      PROVE  Len(taken) <= Len(sent') /\ Pairs(Queue', taken, sent') /\ Odd(Queue', taken, sent')
  <2>1. Len(taken) <= Len(sent) /\ Pairs(Queue, taken, sent) /\ Even(Queue, taken, sent)
    BY <1>1, <1>5 DEF FrameInv
  <2>2. Len(taken) <= Len(sent')
    BY <1>0, <1>3, <2>1, LenProperties
  <2>3. QED  BY <1>0, <1>1, <1>2, <1>4, <2>1, <2>2, PairsLines
<1>6. QED  BY <1>0, <1>1, <1>3, <1>5 DEF FrameInv

LEMMA ReadFrames ==
    ASSUME FrameInv, NEW k \in 1..Len(wire), Read(k)
    PROVE  FrameInv'
<1>1. /\ buf' = buf \o SubSeq(wire, 1, k) /\ wire' = SubSeq(wire, k + 1, Len(wire))
      /\ UNCHANGED <<mode, up, sent, taken>>
  BY DEF Read, Quiet, upstream
<1>2. wire \in Seq(Halves) /\ buf \in Seq(Halves)
  BY DEF FrameInv
<1>3. Queue' = Queue /\ buf' \in Seq(Halves) /\ wire' \in Seq(Halves)
  BY <1>1, <1>2, QueueRead DEF Queue
<1>4. QED  BY <1>1, <1>3 DEF FrameInv

(* A buffer that has a frame has it in its first two halves.               *)
LEMMA FirstFrame ==
    ASSUME FrameInv, mode # "direct", HasFrame
    PROVE  Len(buf) >= 2 /\ FrameEnd = 2 /\ buf[1] = Queue[1]
<1>0. /\ wire \in Seq(Halves) /\ buf \in Seq(Halves) /\ DOMAIN buf = 1..Len(buf)
      /\ Len(wire) \in Nat /\ Len(buf) \in Nat /\ Len(sent) \in Nat /\ Len(taken) \in Nat
  BY LenProperties DEF FrameInv
<1>1. /\ Len(Queue) = Len(buf) + Len(wire)
      /\ \A i \in 1..Len(buf) : Queue[i] = buf[i]
  BY <1>0, ConcatProperties DEF Queue
<1>2. Pairs(Queue, taken, sent) /\ (Even(Queue, taken, sent) \/ Odd(Queue, taken, sent))
  BY DEF FrameInv
<1>3. PICK e \in 1..Len(buf) : buf[e].ends
  BY <1>0 DEF HasFrame
<1>4. 1 \in 1..(Len(sent) - Len(taken))
  BY <1>0, <1>1, <1>2, <1>3 DEF Even, Odd
<1>5. ~Queue[2 * 1 - 1].ends /\ (2 * 1 <= Len(Queue) => Queue[2 * 1].ends)
  BY <1>2, <1>4 DEF Pairs
<1>6. ~buf[1].ends
  BY <1>0, <1>1, <1>3, <1>5
<1>7. Len(buf) >= 2
  BY <1>0, <1>3, <1>6
<1>8. buf[2].ends
  BY <1>0, <1>1, <1>5, <1>7
<1>9. FrameEnd = 2
  <2>1. \A i \in 1..Len(buf) : buf[i].ends /\ (\A j \in 1..(i - 1) : ~buf[j].ends) <=> i = 2
    BY <1>0, <1>6, <1>7, <1>8
  <2>2. QED  BY <1>0, <1>7, <2>1 DEF FrameEnd
<1>10. QED  BY <1>0, <1>1, <1>7, <1>9

(* Take takes the first frame out of the buffer.                           *)
LEMMA TakeFrames ==
    ASSUME FrameInv, Take
    PROVE  FrameInv'
<1>0. /\ sent \in Seq(Chunks) /\ taken \in Seq(Chunks) /\ wire \in Seq(Halves) /\ buf \in Seq(Halves)
      /\ Len(wire) \in Nat /\ Len(buf) \in Nat
  BY LenProperties DEF FrameInv
<1>1. mode # "direct" /\ HasFrame
  BY DEF Take, Translating
<1>2. Len(buf) >= 2 /\ FrameEnd = 2 /\ buf[1] = Queue[1]
  BY <1>1, FirstFrame
<1>. DEFINE g == Head(buf).f
            b == SubSeq(buf, 3, Len(buf))
            r == b \o wire
<1>3. taken' = Append(taken, g) /\ buf' = b /\ UNCHANGED <<mode, up, sent, wire>>
  BY <1>2 DEF Take, upstream
<1>4. Head(buf) = buf[1] /\ buf[1] \in Halves /\ g \in Chunks /\ g = Queue[1].f
  <2>1. Head(buf) = buf[1] /\ buf[1] \in Halves
    BY <1>0, <1>2
  <2>2. buf[1].f \in Chunks
    BY <2>1 DEF Halves
  <2>3. QED  BY <1>2, <2>1, <2>2
<1>5. /\ b \in Seq(Halves) /\ Len(b) = Len(buf) - 2
      /\ \A i \in 1..Len(b) : b[i] = buf[i + 2]
  <2>1. \A i \in 3..Len(buf) : buf[i] \in Halves
    BY <1>0
  <2>2. /\ b \in Seq(Halves) /\ Len(b) = (IF 3 <= Len(buf) THEN Len(buf) - 3 + 1 ELSE 0)
        /\ \A i \in 1..(Len(buf) - 3 + 1) : b[i] = buf[3 + i - 1]
    BY <1>0, <2>1, SubSeqProperties
  <2>. HIDE DEF b
  <2>3. Len(b) = Len(buf) - 2
    <3>1. Len(b) = IF 3 <= Len(buf) THEN Len(buf) - 3 + 1 ELSE 0
      BY <2>2
    <3>2. Len(buf) \in Nat /\ Len(buf) >= 2
      BY <1>0, <1>2
    <3>3. (IF 3 <= Len(buf) THEN Len(buf) - 3 + 1 ELSE 0) = Len(buf) - 2
      <4>1. \A n \in Nat : n >= 2 => (IF 3 <= n THEN n - 3 + 1 ELSE 0) = n - 2
        OBVIOUS
      <4>2. QED  BY <3>2, <4>1
    <3>4. QED  BY <3>1, <3>3
  <2>4. ASSUME NEW i \in 1..Len(b)  PROVE b[i] = buf[i + 2]
    <3>1. i \in 1..(Len(buf) - 3 + 1) /\ 3 + i - 1 = i + 2
      BY <1>0, <2>3
    <3>2. QED  BY <2>2, <3>1
  <2>5. QED  BY <2>2, <2>3, <2>4
<1>. HIDE DEF g, b
<1>6. /\ Queue \in Seq(Halves) /\ Len(Queue) = Len(buf) + Len(wire)
      /\ \A i \in 1..(Len(buf) + Len(wire)) : Queue[i] = IF i <= Len(buf) THEN buf[i] ELSE wire[i - Len(buf)]
  BY <1>0, ConcatProperties DEF Queue
<1>7. /\ r \in Seq(Halves) /\ Len(r) = Len(b) + Len(wire)
      /\ \A i \in 1..(Len(b) + Len(wire)) : r[i] = IF i <= Len(b) THEN b[i] ELSE wire[i - Len(b)]
  BY <1>0, <1>5, ConcatProperties
<1>. HIDE DEF r
<1>8. Len(Queue) >= 2 /\ Len(r) = Len(Queue) - 2 /\ \A i \in 1..Len(r) : r[i] = Queue[i + 2]
  BY <1>0, <1>2, <1>5, <1>6, <1>7
<1>9. /\ Len(taken) <= Len(sent) /\ Pairs(Queue, taken, sent)
      /\ Even(Queue, taken, sent) \/ (up = "eof" /\ Odd(Queue, taken, sent))
  BY <1>1 DEF FrameInv
<1>10. /\ Len(Append(taken, g)) <= Len(sent) /\ Pairs(r, Append(taken, g), sent)
       /\ Even(Queue, taken, sent) => Even(r, Append(taken, g), sent)
       /\ Odd(Queue, taken, sent) => Odd(r, Append(taken, g), sent)
  BY <1>0, <1>4, <1>6, <1>7, <1>8, <1>9, PairsTake
<1>11. Append(taken, g) \in Seq(Chunks)
  BY <1>0, <1>4, AppendProperties
<1>12. Queue' = r
  BY <1>3 DEF Queue, r
<1>13. QED
  BY <1>0, <1>1, <1>3, <1>5, <1>9, <1>10, <1>11, <1>12 DEF FrameInv

(* Google's last lines get their blank line: they lacked one, because      *)
(* there is no whole frame in the buffer.                                  *)
LEMMA EofFrames ==
    ASSUME FrameInv, AtEof
    PROVE  FrameInv'
<1>0. /\ sent \in Seq(Chunks) /\ taken \in Seq(Chunks) /\ wire = <<>> /\ buf \in Seq(Halves)
      /\ Len(sent) \in Nat /\ Len(taken) \in Nat /\ Len(buf) \in Nat /\ DOMAIN buf = 1..Len(buf)
      /\ mode # "direct" /\ ~HasFrame /\ up = "eof"
      /\ UNCHANGED <<mode, up, sent, taken, wire>>
  BY LenProperties DEF FrameInv, AtEof, Drained, Translating, Quiet, upstream
<1>1. CASE UNCHANGED buf
  BY <1>0, <1>1, FramesStay
<1>2. CASE buf # <<>> /\ buf' = Append(buf, Blank(Head(buf).f))
  <2>. DEFINE h == Blank(Head(buf).f)
  <2>1. Len(buf) >= 1 /\ h \in Halves /\ h.ends
    <3>1. Len(buf) >= 1 /\ Head(buf) = buf[1] /\ buf[1] \in Halves
      BY <1>0, <1>2
    <3>2. Head(buf).f \in Chunks
      BY <3>1 DEF Halves
    <3>3. QED  BY <3>1, <3>2, HalfTypes
  <2>. HIDE DEF h
  <2>2. Queue = buf /\ buf' = Append(buf, h) /\ buf' \in Seq(Halves) /\ Queue' = buf'
    <3>1. buf' = Append(buf, h) /\ buf' \in Seq(Halves)
      BY <1>0, <1>2, <2>1, AppendProperties DEF h
    <3>2. QED  BY <1>0, <3>1, ConcatEmptySeq DEF Queue
  <2>3. /\ Len(taken) <= Len(sent) /\ Pairs(buf, taken, sent)
        /\ Even(buf, taken, sent) \/ Odd(buf, taken, sent)
    BY <1>0, <2>2 DEF FrameInv
  <2>4. Odd(buf, taken, sent)
    <3>1. SUFFICES ASSUME Even(buf, taken, sent)  PROVE FALSE
      BY <2>3
    <3>2. Len(buf) >= 2 /\ 1 \in 1..(Len(sent) - Len(taken))
      BY <1>0, <2>1, <3>1 DEF Even
    <3>3. 2 * 1 <= Len(buf) => buf[2 * 1].ends
      BY <2>3, <3>2 DEF Pairs
    <3>4. 2 \in 1..Len(buf) /\ buf[2].ends
      BY <1>0, <3>2, <3>3
    <3>5. QED  BY <1>0, <3>4 DEF HasFrame
  <2>5. Pairs(Append(buf, h), taken, sent) /\ Even(Append(buf, h), taken, sent)
    BY <1>0, <2>1, <2>3, <2>4, PairsBlank
  <2>6. QED  BY <1>0, <2>2, <2>3, <2>5 DEF FrameInv
<1>3. QED  BY <1>1, <1>2 DEF AtEof
---------------------------------------------------------------------------
LEMMA FrameStep ==
    ASSUME FrameInv, [Next]_vars
    PROVE  FrameInv'
<1>1. CASE Answer \/ Refuses \/ (\E f \in Chunks : AnswerSync(f)) \/ (\E how \in {"eof", "error"} : Ends(how))
  <2>1. UNCHANGED <<mode, sent, taken, wire, buf>> /\ (up = "eof" => up' = "eof")
    BY <1>1 DEF Answer, Refuses, AnswerSync, Ends, Quiet
  <2>2. QED  BY <2>1, FramesStay
<1>2. CASE \E f \in Chunks : Send(f) \/ \E whole \in BOOLEAN : EndsInside(f, whole)
  BY <1>2, SendFrames, EndsInsideFrames
<1>3. CASE \E k \in 1..Len(wire) : Read(k)
  BY <1>3, ReadFrames
<1>4. CASE Take
  BY <1>4, TakeFrames
<1>5. CASE AtEof
  BY <1>5, EofFrames
<1>6. CASE PassBytes
  BY <1>6, PassFrames
<1>7. CASE AtError \/ Pass \/ PassEnd \/ Heartbeat \/ Cut \/ Leaves \/ TaskStops \/ Stopped \/ UNCHANGED vars
  <2>1. UNCHANGED <<mode, up, sent, taken, wire, buf>>
    BY <1>7 DEF AtError, Pass, PassEnd, Heartbeat, Cut, Leaves, TaskStops, Stopped, Core, Quiet, upstream, vars
  <2>2. QED  BY <2>1, FramesStay
<1>8. QED
  BY <1>1, <1>2, <1>3, <1>4, <1>5, <1>6, <1>7 DEF Next, Upstream, Task, Client

LEMMA FrameInit == ASSUME Init PROVE FrameInv
<1>1. sent = <<>> /\ taken = <<>> /\ wire = <<>> /\ buf = <<>>
  BY DEF Init
<1>2. <<>> \in Seq(Chunks) /\ <<>> \in Seq(Halves) /\ Queue = <<>>
  BY <1>1, ConcatEmptySeq DEF Queue
<1>3. QED  BY <1>1, <1>2 DEF FrameInv, Pairs, Even

(* However the network cuts a stream and however the two halves of a frame *)
(* are read, what the translator gets is a beginning of what was sent.     *)
THEOREM FramesInOrderHolds == Spec => []FramesInOrder
<1>1. Init => FrameInv
  BY FrameInit
<1>2. FrameInv /\ [Next]_vars => FrameInv'
  BY FrameStep
<1>3. FrameInv => FramesInOrder
  <2>1. SUFFICES ASSUME FrameInv  PROVE FramesInOrder
    OBVIOUS
  <2>2. /\ sent \in Seq(Chunks) /\ taken \in Seq(Chunks) /\ Len(taken) <= Len(sent)
        /\ \A i \in 1..Len(taken) : taken[i] = sent[i]
    <3>1. CASE mode = "direct"
      <4>1. sent \in Seq(Chunks) /\ taken = <<>>
        BY <2>1, <3>1 DEF FrameInv
      <4>2. Len(taken) = 0 /\ Len(sent) \in Nat /\ taken \in Seq(Chunks)
        BY <4>1, LenProperties
      <4>3. QED  BY <4>1, <4>2
    <3>2. CASE mode # "direct"
      BY <2>1, <3>2 DEF FrameInv, Pairs
    <3>3. QED  BY <3>1, <3>2
  <2>3. Len(sent) \in Nat /\ Len(taken) \in Nat
    BY <2>2, LenProperties
  <2>4. SubSeq(taken, 1, Len(taken)) = taken
    BY <2>2, SubSeqFull
  <2>5. /\ SubSeq(sent, 1, Len(taken)) \in Seq(Chunks)
        /\ Len(SubSeq(sent, 1, Len(taken))) = Len(taken)
        /\ \A i \in 1..Len(taken) : SubSeq(sent, 1, Len(taken))[i] = sent[i]
    <3>1. \A i \in 1..Len(taken) : sent[i] \in Chunks
      BY <2>2, <2>3
    <3>2. /\ SubSeq(sent, 1, Len(taken)) \in Seq(Chunks)
          /\ Len(SubSeq(sent, 1, Len(taken))) = (IF 1 <= Len(taken) THEN Len(taken) - 1 + 1 ELSE 0)
          /\ \A i \in 1..(Len(taken) - 1 + 1) : SubSeq(sent, 1, Len(taken))[i] = sent[1 + i - 1]
      BY <2>3, <3>1, SubSeqProperties
    <3>3. QED  BY <2>3, <3>2
  <2>6. SubSeq(sent, 1, Len(taken)) = taken
    BY <2>2, <2>5, SeqEqual
  <2>7. QED  BY <2>2, <2>4, <2>6 DEF FramesInOrder, IsPrefix
<1>4. QED  BY <1>1, <1>2, <1>3, PTL DEF Spec
---------------------------------------------------------------------------
(***************************************************************************)
(* The answer.                                                             *)
(***************************************************************************)
Frags == {"", "open", "close", "whole", "t", "r"}
Ids == STRING \cup {""}
Items == [kind : {"message", "reasoning", "call"}, id : Ids, body : Seq(Frags)]
Events == [type : Kinds \cup Terminals \cup {"created", "frame"}, idx : Int, n : Nat,
           item : Items \cup Seq(Items) \cup {WithoutCalls(q) : q \in Seq(Items)}]
Calls == [idx : Nat, id : Ids, args : Seq(Frags)]
AllCalls == UNION {[D -> Calls] : D \in SUBSET Nat}
States == [n : Nat, next : Nat, msg : Int, text : Seq(Frags), rsn : Int, reason : Seq(Frags),
           sig : BOOLEAN, usage : BOOLEAN, calls : AllCalls,
           final : BOOLEAN, google : BOOLEAN]

(* Each output index that was given out belongs to one item, and the calls *)
(* have a last slot.                                                       *)
Owned(st) ==
    /\ st.msg = None \/ st.msg \in 0..(st.next - 1)
    /\ st.rsn = None \/ st.rsn \in 0..(st.next - 1)
    /\ st.msg # None => st.msg # st.rsn
    /\ \A k \in DOMAIN st.calls :
         /\ st.calls[k].idx \in 0..(st.next - 1)
         /\ st.calls[k].idx # st.msg /\ st.calls[k].idx # st.rsn
         /\ \A j \in DOMAIN st.calls : j # k => st.calls[j].idx # st.calls[k].idx
    /\ \A x \in 0..(st.next - 1) :
         x = st.msg \/ x = st.rsn \/ \E k \in DOMAIN st.calls : st.calls[k].idx = x
    /\ st.msg = None => st.text = <<>>
    /\ st.rsn = None => st.reason = <<>>
    /\ DOMAIN st.calls # {} => \E k \in DOMAIN st.calls : \A j \in DOMAIN st.calls : j <= k

(* While items are open: each index below next was added once and before   *)
(* its deltas, and nothing has ended.                                      *)
HistAt(next, ev, i) ==
    /\ ev[i].type \in {"created", "added", "delta"}
    /\ ev[i].type # "created" => ev[i].idx \in 0..(next - 1) /\ ev[i].item \in Items
    /\ ev[i].type = "delta" => \E j \in 1..(i - 1) : ev[j].type = "added" /\ ev[j].idx = ev[i].idx
    /\ ev[i].type = "added" => \A j \in 1..(i - 1) : ev[j].type = "created" \/ ev[j].idx # ev[i].idx

Hist(next, ev) ==
    /\ ev \in Seq(Events)
    /\ \A i \in 1..Len(ev) : HistAt(next, ev, i)
    /\ \A x \in 0..(next - 1) : \E i \in 1..Len(ev) : ev[i].type = "added" /\ ev[i].idx = x

(* The client has been told what the state holds.                          *)
Text(ev, x) == Told(ev, x)[Len(ev)]
Texts(st, ev) ==
    /\ st.msg # None => Text(ev, st.msg) = st.text
    /\ st.rsn # None => Text(ev, st.rsn) = st.reason
    /\ \A k \in DOMAIN st.calls :
         ~st.google \/ st.calls[k].id \notin Custom => Text(ev, st.calls[k].idx) = st.calls[k].args
    /\ \A x \in Nat : x >= st.next => Text(ev, x) = <<>>

Open(st, ev) == /\ st \in States /\ ~st.final /\ Owned(st)
                /\ Hist(st.next, ev) /\ Texts(st, ev)

(* A well-formed beginning of an answer.                                   *)
WellFormed(ev, google) ==
    /\ \A i \in 1..Len(ev) : ev[i].type \in Terminals => i = Len(ev)
    /\ \A i, j \in 1..Len(ev) :
         /\ i < j /\ ev[i].type = "done" /\ ev[j].type = "done" => ev[i].idx < ev[j].idx
         /\ i < j /\ ev[i].idx = ev[j].idx /\ ev[i].type \in Kinds /\ ev[j].type \in Kinds
              => ev[i].type # "done" /\ ev[j].type # "added"
    /\ \A i \in 1..Len(ev) : ev[i].type \in {"delta", "done"} =>
         \E j \in 1..(i - 1) : ev[j].type = "added" /\ ev[j].idx = ev[i].idx
    /\ \A i \in 1..Len(ev) : ev[i].type = "done" /\ (ev[i].item.id \notin Custom \/ ~google) =>
         \A n \in i..Len(ev) : Told(ev, ev[i].idx)[n] = ev[i].item.body

(* What may be in an answer that is complete.                              *)
Complete(ev, google) ==
    LET items == ev[Len(ev)].item
    IN  ev # <<>> /\ ev[Len(ev)].type = "completed" /\ google =>
          /\ \A i \in DOMAIN items :
               items[i].kind = "call" => items[i].id \in Declared /\ Whole(items[i].body)
          /\ \E i \in DOMAIN items : items[i].kind # "reasoning"

History == seen \o out

(* What the client has and will get is what the translator has put out; as *)
(* long as the task reads, the answer is open.                             *)
AnswerInv ==
    /\ s \in States /\ Owned(s) /\ s.google = (mode = "google")
    /\ seen \in Seq(Events) /\ out \in Seq(Events)
    /\ up = "waiting" => seen = <<>> /\ out = <<>> /\ wire = <<>> /\ Open(s, <<>>)
    /\ mode # "direct" /\ task = "reading" => Open(s, History)
    /\ mode = "direct" =>
         /\ buf = <<>>
         /\ \/ (\A i \in 1..Len(seen) : seen[i].type = "frame") /\ out = <<>>
            \/ up = "error" /\ wire = <<>> /\ History = <<ErrorEvent>>
    /\ WellFormed(History, mode = "google")

HasDone(tk) == \E i \in DOMAIN tk : tk[i].k = "done"

IsCompleted(ev) == ev # <<>> /\ ev[Len(ev)].type = "completed"

(* An item that is announced for the reasoning has some, except for a      *)
(* carrier of Google's; an answer that can be sent back.                   *)
Reasoned(st) == ~st.google /\ st.rsn # None => st.reason # <<>>
Full == {x \in Items : x.kind = "reasoning" => x.body # <<>>}
Sendable(items) == items \in Seq(Full)

(* An answer that is complete was ended by its upstream, and can be sent   *)
(* back with the next request.                                             *)
EndedInv ==
    /\ Complete(History, mode = "google")
    /\ IsCompleted(History) /\ mode \in {"google", "ws"} => up = "eof" \/ HasDone(taken)
    /\ Reasoned(s)
    /\ IsCompleted(History) /\ mode # "google" => Sendable(History[Len(History)].item)
---------------------------------------------------------------------------
(* Induction over the naturals, from their well-foundedness.               *)
LEMMA LeastNat ==
    ASSUME NEW T \in SUBSET Nat, T # {}
    PROVE  \E m \in T : \A k \in T : m <= k
<1>. DEFINE R == {p \in Nat \X Nat : p[1] < p[2]}
<1>1. IsWellFoundedOn(R, Nat)
  BY NatLessThanWellFounded DEF OpToRel
<1>2. \E x \in T : \A y \in T : ~ (<<y, x>> \in R)
  BY <1>1, WFMin
<1>3. \A x, y \in Nat : <<y, x>> \notin R => x <= y
  <2>1. TAKE x, y \in Nat
  <2>2. y < x => <<y, x>> \in R
    BY Z3
  <2>3. QED  BY <2>2
<1>. HIDE DEF R
<1>4. QED  BY <1>2, <1>3

(* The first number at which a set of numbers is not complete.             *)
LEMMA Induction ==
    ASSUME NEW G, 0 \in G, \A m \in Nat : m \in G => m + 1 \in G
    PROVE  Nat \subseteq G
<1>. DEFINE Bad == {m \in Nat : m \notin G}
<1>1. SUFFICES ASSUME Bad # {}  PROVE FALSE
  OBVIOUS
<1>2. PICK m \in Bad : \A k \in Bad : m <= k
  BY <1>1, LeastNat
<1>3. m \in Nat /\ m # 0 /\ m \notin G
  BY <1>2
<1>4. m - 1 \in Nat /\ ~(m <= m - 1) /\ (m - 1) + 1 = m
  BY <1>3
<1>5. m - 1 \in G
  BY <1>2, <1>4
<1>6. QED  BY <1>3, <1>4, <1>5
---------------------------------------------------------------------------
(* What the client was told is defined: the recursion ends.                *)
ToldUpTo(g, n, ev, x) ==
    g = [i \in 0..n |-> IF i = 0 THEN <<>> ELSE Heard(g[i - 1], ev[i], x)]

LEMMA ToldExists ==
    ASSUME NEW n \in Nat, NEW ev, NEW x
    PROVE  \E g : ToldUpTo(g, n, ev, x)
<1>. DEFINE G == {m \in Nat : \E g : ToldUpTo(g, m, ev, x)}
<1>1. 0 \in G
  <2>. DEFINE g == [i \in 0..0 |-> <<>>]
  <2>1. g = [i \in 0..0 |-> IF i = 0 THEN <<>> ELSE Heard(g[i - 1], ev[i], x)]
    OBVIOUS
  <2>2. QED  BY <2>1 DEF ToldUpTo
<1>2. ASSUME NEW m \in Nat, m \in G  PROVE m + 1 \in G
  <2>1. PICK g : g = [i \in 0..m |-> IF i = 0 THEN <<>> ELSE Heard(g[i - 1], ev[i], x)]
    BY <1>2 DEF ToldUpTo
  <2>. DEFINE h == [i \in 0..(m + 1) |-> IF i <= m THEN g[i] ELSE Heard(g[m], ev[m + 1], x)]
  <2>2. \A i \in 0..(m + 1) : h[i] = IF i = 0 THEN <<>> ELSE Heard(h[i - 1], ev[i], x)
    <3>1. TAKE i \in 0..(m + 1)
    <3>2. CASE i = 0
      BY <3>2, <2>1
    <3>3. CASE i \in 1..m
      <4>1. g[i] = Heard(g[i - 1], ev[i], x)
        BY <2>1, <3>3
      <4>2. h[i] = g[i] /\ h[i - 1] = g[i - 1]
        BY <3>3
      <4>3. QED  BY <4>1, <4>2, <3>3
    <3>4. CASE i = m + 1
      <4>1. h[i] = Heard(g[m], ev[m + 1], x) /\ h[i - 1] = g[m]
        BY <3>4
      <4>2. QED  BY <4>1, <3>4
    <3>5. QED  BY <3>2, <3>3, <3>4
  <2>3. h = [i \in 0..(m + 1) |-> h[i]]
    OBVIOUS
  <2>. HIDE DEF h
  <2>4. ToldUpTo(h, m + 1, ev, x)
    BY <2>2, <2>3 DEF ToldUpTo
  <2>5. QED  BY <2>4
<1>. HIDE DEF G
<1>3. Nat \subseteq G
  BY <1>1, <1>2, Induction
<1>4. QED  BY <1>3 DEF G

LEMMA ToldSteps ==
    ASSUME NEW S, NEW ev \in Seq(S), NEW x
    PROVE  /\ Told(ev, x)[0] = <<>>
           /\ \A i \in 1..Len(ev) : Told(ev, x)[i] = Heard(Told(ev, x)[i - 1], ev[i], x)
<1>1. Len(ev) \in Nat
  BY LenProperties
<1>2. \E g : ToldUpTo(g, Len(ev), ev, x)
  BY <1>1, ToldExists
<1>3. ToldUpTo(Told(ev, x), Len(ev), ev, x)
  BY <1>2 DEF Told, ToldUpTo
<1>. DEFINE t == Told(ev, x)
<1>4. t = [i \in 0..Len(ev) |-> IF i = 0 THEN <<>> ELSE Heard(t[i - 1], ev[i], x)]
  BY <1>3 DEF ToldUpTo
<1>. HIDE DEF t
<1>5. \A i \in 0..Len(ev) : t[i] = IF i = 0 THEN <<>> ELSE Heard(t[i - 1], ev[i], x)
  BY <1>4
<1>6. QED  BY <1>1, <1>5 DEF t

(* What comes later changes nothing of what was told before.               *)
LEMMA ToldBefore ==
    ASSUME NEW S, NEW ev \in Seq(S), NEW more \in Seq(S), NEW x,
           Len(ev) <= Len(more), \A i \in 1..Len(ev) : more[i] = ev[i]
    PROVE  \A n \in 0..Len(ev) : Told(more, x)[n] = Told(ev, x)[n]
<1>. DEFINE G == {m \in Nat : m <= Len(ev) => Told(more, x)[m] = Told(ev, x)[m]}
<1>0. Len(ev) \in Nat /\ Len(more) \in Nat
  BY LenProperties
<1>1. 0 \in G
  BY ToldSteps
<1>2. ASSUME NEW m \in Nat, m \in G  PROVE m + 1 \in G
  <2>1. SUFFICES ASSUME m + 1 <= Len(ev)  PROVE Told(more, x)[m + 1] = Told(ev, x)[m + 1]
    OBVIOUS
  <2>2. m + 1 \in 1..Len(ev) /\ m + 1 \in 1..Len(more) /\ (m + 1) - 1 = m
    BY <1>0, <2>1
  <2>3. Told(more, x)[m] = Told(ev, x)[m]
    BY <1>0, <1>2, <2>1
  <2>4. /\ Told(more, x)[m + 1] = Heard(Told(more, x)[m], more[m + 1], x)
        /\ Told(ev, x)[m + 1] = Heard(Told(ev, x)[m], ev[m + 1], x)
    BY <2>2, ToldSteps
  <2>5. QED  BY <2>2, <2>3, <2>4
<1>. HIDE DEF G
<1>3. Nat \subseteq G
  BY <1>1, <1>2, Induction
<1>4. QED  BY <1>0, <1>3 DEF G

(* Without deltas nothing is told.                                         *)
LEMMA ToldQuiet ==
    ASSUME NEW S, NEW ev \in Seq(S), NEW x, NEW a \in 0..Len(ev),
           \A i \in (a + 1)..Len(ev) : ev[i].type # "delta"
    PROVE  \A n \in a..Len(ev) : Told(ev, x)[n] = Told(ev, x)[a]
<1>. DEFINE G == {m \in Nat : a + m <= Len(ev) => Told(ev, x)[a + m] = Told(ev, x)[a]}
<1>0. Len(ev) \in Nat /\ a \in Nat
  BY LenProperties
<1>1. 0 \in G
  BY <1>0
<1>2. ASSUME NEW m \in Nat, m \in G  PROVE m + 1 \in G
  <2>1. SUFFICES ASSUME a + (m + 1) <= Len(ev)  PROVE Told(ev, x)[a + (m + 1)] = Told(ev, x)[a]
    OBVIOUS
  <2>2. /\ a + (m + 1) \in 1..Len(ev) /\ a + (m + 1) \in (a + 1)..Len(ev)
        /\ (a + (m + 1)) - 1 = a + m
    BY <1>0, <2>1
  <2>3. Told(ev, x)[a + m] = Told(ev, x)[a]
    BY <1>0, <1>2, <2>1
  <2>4. Told(ev, x)[a + (m + 1)] = Heard(Told(ev, x)[a + m], ev[a + (m + 1)], x)
    BY <2>2, ToldSteps
  <2>5. QED  BY <2>2, <2>3, <2>4 DEF Heard
<1>. HIDE DEF G
<1>3. Nat \subseteq G
  BY <1>1, <1>2, Induction
<1>4. ASSUME NEW n \in a..Len(ev)  PROVE Told(ev, x)[n] = Told(ev, x)[a]
  <2>1. n - a \in Nat /\ a + (n - a) = n /\ n <= Len(ev)
    BY <1>0
  <2>2. QED  BY <1>3, <2>1 DEF G
<1>5. QED  BY <1>4

LEMMA TextAppend ==
    ASSUME NEW S, NEW ev \in Seq(S), NEW e \in S, NEW x
    PROVE  Text(Append(ev, e), x) = Heard(Text(ev, x), e, x)
<1>. DEFINE more == Append(ev, e)
<1>1. /\ more \in Seq(S) /\ Len(more) = Len(ev) + 1 /\ more[Len(ev) + 1] = e
      /\ \A i \in 1..Len(ev) : more[i] = ev[i]
  BY AppendProperties
<1>2. Len(ev) \in Nat /\ Len(ev) + 1 \in 1..Len(more) /\ (Len(ev) + 1) - 1 = Len(ev)
  BY <1>1, LenProperties
<1>. HIDE DEF more
<1>3. Told(more, x)[Len(ev)] = Told(ev, x)[Len(ev)]
  BY <1>1, <1>2, ToldBefore
<1>4. Told(more, x)[Len(ev) + 1] = Heard(Told(more, x)[Len(ev)], more[Len(ev) + 1], x)
  BY <1>1, <1>2, ToldSteps
<1>5. QED  BY <1>1, <1>3, <1>4 DEF Text, more
---------------------------------------------------------------------------
(* One event more.                                                         *)
Kept(next, upto, ev, e, more) ==
    /\ more \in Seq(Events) /\ Len(more) = Len(ev) + 1 /\ more[Len(ev) + 1] = e /\ Len(ev) \in Nat
    /\ \A i \in 1..Len(ev) : more[i] = ev[i] /\ HistAt(upto, more, i)
    /\ \A x \in 0..(next - 1) : \E i \in 1..Len(ev) : more[i].type = "added" /\ more[i].idx = x

LEMMA HistKept ==
    ASSUME NEW next \in Nat, NEW upto \in Nat, next <= upto,
           NEW ev, NEW e \in Events, Hist(next, ev)
    PROVE  Kept(next, upto, ev, e, Append(ev, e))
<1>. DEFINE more == Append(ev, e)
<1>0. ev \in Seq(Events) /\ Len(ev) \in Nat
  BY LenProperties DEF Hist
<1>1. /\ more \in Seq(Events) /\ Len(more) = Len(ev) + 1 /\ more[Len(ev) + 1] = e
      /\ \A i \in 1..Len(ev) : more[i] = ev[i]
  BY <1>0, AppendProperties
<1>. HIDE DEF more
<1>2. ASSUME NEW i \in 1..Len(ev)  PROVE HistAt(upto, more, i)
  <2>1. HistAt(next, ev, i)
    BY DEF Hist
  <2>2. more[i] = ev[i] /\ \A j \in 1..(i - 1) : more[j] = ev[j]
    BY <1>0, <1>1
  <2>3. \A y : y \in 0..(next - 1) => y \in 0..(upto - 1)
    OBVIOUS
  <2>4. QED  BY <2>1, <2>2, <2>3 DEF HistAt
<1>3. \A x \in 0..(next - 1) : \E i \in 1..Len(ev) : more[i].type = "added" /\ more[i].idx = x
  BY <1>1 DEF Hist
<1>4. QED  BY <1>0, <1>1, <1>2, <1>3 DEF Kept, more

LEMMA HistCreated ==
    ASSUME NEW next \in Nat, NEW ev, NEW e \in Events, Hist(next, ev), e.type = "created"
    PROVE  Hist(next, Append(ev, e))
<1>. DEFINE more == Append(ev, e)
<1>0. next <= next /\ next <= next + 1 /\ next + 1 \in Nat
  OBVIOUS
<1>1. Kept(next, next, ev, e, more)
  BY <1>0, HistKept
<1>. HIDE DEF more
<1>2. HistAt(next, more, Len(ev) + 1)
  BY <1>1 DEF HistAt, Kept
<1>3. \A i \in 1..Len(more) : i \in 1..Len(ev) \/ i = Len(ev) + 1
  BY <1>1 DEF Kept
<1>4. \A i \in 1..Len(ev) : i \in 1..Len(more)
  BY <1>1 DEF Kept
<1>5. QED  BY <1>1, <1>2, <1>3, <1>4 DEF Hist, Kept, more

LEMMA HistAdded ==
    ASSUME NEW next \in Nat, NEW ev, NEW e \in Events, Hist(next, ev),
           e.type = "added", e.idx = next, e.item \in Items
    PROVE  Hist(next + 1, Append(ev, e))
<1>. DEFINE more == Append(ev, e)
<1>0. next <= next /\ next <= next + 1 /\ next + 1 \in Nat
  OBVIOUS
<1>1. Kept(next, next + 1, ev, e, more)
  BY <1>0, HistKept
<1>. HIDE DEF more
<1>2. \A j \in 1..Len(ev) : more[j].type = "created" \/ more[j].idx # next
  <2>1. TAKE j \in 1..Len(ev)
  <2>2. HistAt(next, ev, j) /\ more[j] = ev[j]
    BY <1>1 DEF Hist, Kept
  <2>3. next \notin 0..(next - 1)
    OBVIOUS
  <2>4. ev[j].type = "created" \/ ev[j].idx \in 0..(next - 1)
    BY <2>2 DEF HistAt
  <2>5. QED  BY <2>2, <2>3, <2>4
<1>3. HistAt(next + 1, more, Len(ev) + 1)
  <2>1. (Len(ev) + 1) - 1 = Len(ev) /\ next \in 0..((next + 1) - 1)
    BY <1>1 DEF Kept
  <2>2. QED  BY <1>1, <1>2, <2>1 DEF HistAt, Kept
<1>4. ASSUME NEW x \in 0..((next + 1) - 1)
      PROVE  \E i \in 1..Len(more) : more[i].type = "added" /\ more[i].idx = x
  <2>1. CASE x = next
    <3>1. Len(ev) + 1 \in 1..Len(more)
      BY <1>1 DEF Kept
    <3>2. QED  BY <1>1, <2>1, <3>1 DEF Kept
  <2>2. CASE x # next
    <3>1. x \in 0..(next - 1) /\ \A i \in 1..Len(ev) : i \in 1..Len(more)
      BY <1>1, <2>2 DEF Kept
    <3>2. QED  BY <1>1, <3>1 DEF Kept
  <2>3. QED  BY <2>1, <2>2
<1>5. \A i \in 1..Len(more) : i \in 1..Len(ev) \/ i = Len(ev) + 1
  BY <1>1 DEF Kept
<1>6. QED  BY <1>1, <1>3, <1>4, <1>5 DEF Hist, Kept, more

LEMMA HistDelta ==
    ASSUME NEW next \in Nat, NEW ev, NEW e \in Events, Hist(next, ev),
           e.type = "delta", e.idx \in 0..(next - 1), e.item \in Items
    PROVE  Hist(next, Append(ev, e))
<1>. DEFINE more == Append(ev, e)
<1>0. next <= next /\ next <= next + 1 /\ next + 1 \in Nat
  OBVIOUS
<1>1. Kept(next, next, ev, e, more)
  BY <1>0, HistKept
<1>. HIDE DEF more
<1>2. \E j \in 1..Len(ev) : more[j].type = "added" /\ more[j].idx = e.idx
  BY <1>1 DEF Kept
<1>3. HistAt(next, more, Len(ev) + 1)
  <2>1. (Len(ev) + 1) - 1 = Len(ev)
    BY <1>1 DEF Kept
  <2>2. QED  BY <1>1, <1>2, <2>1 DEF HistAt, Kept
<1>4. \A i \in 1..Len(more) : i \in 1..Len(ev) \/ i = Len(ev) + 1
  BY <1>1 DEF Kept
<1>5. \A i \in 1..Len(ev) : i \in 1..Len(more)
  BY <1>1 DEF Kept
<1>6. QED  BY <1>1, <1>3, <1>4, <1>5 DEF Hist, Kept, more

(* What is told after one more event.                                      *)
LEMMA TextOther ==
    ASSUME NEW next \in Nat, NEW ev, NEW e \in Events, Hist(next, ev), NEW x,
           e.type # "delta" \/ e.idx # x
    PROVE  Text(Append(ev, e), x) = Text(ev, x)
<1>1. ev \in Seq(Events)
  BY DEF Hist
<1>2. Text(Append(ev, e), x) = Heard(Text(ev, x), e, x)
  BY <1>1, TextAppend
<1>3. QED  BY <1>2 DEF Heard

LEMMA TextDeltaAt ==
    ASSUME NEW next \in Nat, NEW ev, NEW e \in Events, Hist(next, ev), e.type = "delta"
    PROVE  Text(Append(ev, e), e.idx) = Text(ev, e.idx) \o e.item.body
<1>1. ev \in Seq(Events)
  BY DEF Hist
<1>2. Text(Append(ev, e), e.idx) = Heard(Text(ev, e.idx), e, e.idx)
  BY <1>1, TextAppend
<1>3. QED  BY <1>2 DEF Heard
---------------------------------------------------------------------------
(* A state and its history after one event, in terms of the fields: an     *)
(* item is added, an item gets a delta, nothing that the client knows of.  *)
Adds(a, b) ==
    /\ b.next = a.next + 1 /\ ~b.final /\ b.google = a.google
    /\ b.text = a.text /\ b.reason = a.reason
    /\ b.msg = a.msg \/ (a.msg = None /\ b.msg = a.next)
    /\ b.rsn = a.rsn \/ (a.rsn = None /\ b.rsn = a.next)
    /\ \A k \in DOMAIN b.calls :
         \/ k \in DOMAIN a.calls /\ b.calls[k] = a.calls[k]
         \/ b.calls[k].idx = a.next /\ b.calls[k].args = <<>>

Plainly(a, k) == ~a.google \/ a.calls[k].id \notin Custom

Tells(a, b, idx, body) ==
    /\ b.next = a.next /\ ~b.final /\ b.google = a.google /\ b.msg = a.msg /\ b.rsn = a.rsn
    /\ a.msg # None => b.text = IF idx = a.msg THEN a.text \o body ELSE a.text
    /\ a.rsn # None => b.reason = IF idx = a.rsn THEN a.reason \o body ELSE a.reason
    /\ DOMAIN b.calls = DOMAIN a.calls
    /\ \A k \in DOMAIN a.calls :
         /\ b.calls[k].idx = a.calls[k].idx /\ b.calls[k].id = a.calls[k].id
         /\ Plainly(a, k) => b.calls[k].args = IF idx = a.calls[k].idx THEN a.calls[k].args \o body
                                               ELSE a.calls[k].args

Hides(a, b) ==
    /\ b.next = a.next /\ ~b.final /\ b.google = a.google /\ b.msg = a.msg /\ b.rsn = a.rsn
    /\ b.text = a.text /\ b.reason = a.reason
    /\ DOMAIN b.calls = DOMAIN a.calls
    /\ \A k \in DOMAIN a.calls :
         /\ b.calls[k].idx = a.calls[k].idx /\ b.calls[k].id = a.calls[k].id
         /\ Plainly(a, k) => b.calls[k].args = a.calls[k].args

LEMMA OpenAdded ==
    ASSUME NEW st, NEW ev, Open(st, ev), NEW st2 \in States, Owned(st2), Adds(st, st2),
           NEW e \in Events, e.type = "added", e.idx = st.next, e.item \in Items
    PROVE  Open(st2, Append(ev, e))
<1>1. /\ st \in States /\ Owned(st) /\ Hist(st.next, ev) /\ Texts(st, ev)
      /\ st.next \in Nat /\ st2.next = st.next + 1
  BY DEF Open, States, Adds
<1>2. Hist(st2.next, Append(ev, e))
  BY <1>1, HistAdded
<1>3. \A x : Text(Append(ev, e), x) = Text(ev, x)
  BY <1>1, TextOther
<1>4. Text(ev, st.next) = <<>>
  <2>1. st.next >= st.next
    BY <1>1
  <2>2. QED  BY <1>1, <2>1 DEF Texts
<1>5. st2.msg # None => Text(ev, st2.msg) = st2.text
  BY <1>1, <1>4 DEF Texts, Owned, Adds
<1>6. st2.rsn # None => Text(ev, st2.rsn) = st2.reason
  BY <1>1, <1>4 DEF Texts, Owned, Adds
<1>7. \A k \in DOMAIN st2.calls :
        ~st2.google \/ st2.calls[k].id \notin Custom => Text(ev, st2.calls[k].idx) = st2.calls[k].args
  BY <1>1, <1>4 DEF Texts, Adds
<1>8. \A x \in Nat : x >= st2.next => Text(ev, x) = <<>>
  <2>1. \A x \in Nat : x >= st2.next => x >= st.next
    BY <1>1
  <2>2. QED  BY <1>1, <2>1 DEF Texts
<1>9. Texts(st2, Append(ev, e))
  BY <1>3, <1>5, <1>6, <1>7, <1>8 DEF Texts
<1>10. QED  BY <1>2, <1>9 DEF Open, Adds

LEMMA OpenDelta ==
    ASSUME NEW st, NEW ev, Open(st, ev), NEW st2 \in States, Owned(st2),
           NEW e \in Events, e.type = "delta", e.idx \in 0..(st.next - 1), e.item \in Items,
           Tells(st, st2, e.idx, e.item.body)
    PROVE  Open(st2, Append(ev, e))
<1>1. /\ st \in States /\ Owned(st) /\ Hist(st.next, ev) /\ Texts(st, ev) /\ st.next \in Nat
      /\ st2.next = st.next /\ st2.google = st.google
  BY DEF Open, States, Tells
<1>2. Hist(st2.next, Append(ev, e))
  BY <1>1, HistDelta
<1>3. \A x : x # e.idx => Text(Append(ev, e), x) = Text(ev, x)
  BY <1>1, TextOther
<1>4. Text(Append(ev, e), e.idx) = Text(ev, e.idx) \o e.item.body
  BY <1>1, TextDeltaAt
<1>. DEFINE T2(x) == Text(Append(ev, e), x)
<1>. HIDE DEF T2
<1>5. \A x : T2(x) = IF x = e.idx THEN Text(ev, x) \o e.item.body ELSE Text(ev, x)
  BY <1>3, <1>4 DEF T2
<1>6. st2.msg # None => T2(st2.msg) = st2.text
  BY <1>1, <1>5 DEF Texts, Tells
<1>7. st2.rsn # None => T2(st2.rsn) = st2.reason
  BY <1>1, <1>5 DEF Texts, Tells
<1>8. \A k \in DOMAIN st2.calls :
        ~st2.google \/ st2.calls[k].id \notin Custom => T2(st2.calls[k].idx) = st2.calls[k].args
  <2>1. ASSUME NEW k \in DOMAIN st.calls, ~st.google \/ st.calls[k].id \notin Custom
        PROVE  T2(st.calls[k].idx) = st2.calls[k].args
    <3>1. Text(ev, st.calls[k].idx) = st.calls[k].args
      BY <1>1, <2>1 DEF Texts
    <3>2. st2.calls[k].args = IF e.idx = st.calls[k].idx THEN st.calls[k].args \o e.item.body
                              ELSE st.calls[k].args
      BY <2>1 DEF Tells, Plainly
    <3>3. QED  BY <1>5, <3>1, <3>2
  <2>2. DOMAIN st2.calls = DOMAIN st.calls
        /\ \A k \in DOMAIN st.calls : st2.calls[k].idx = st.calls[k].idx /\ st2.calls[k].id = st.calls[k].id
    BY DEF Tells
  <2>3. QED  BY <1>1, <2>1, <2>2
<1>9. \A x \in Nat : x >= st2.next => T2(x) = <<>>
  <2>1. \A x \in Nat : x >= st2.next => x # e.idx
    BY <1>1
  <2>2. QED  BY <1>1, <1>5, <2>1 DEF Texts
<1>10. Texts(st2, Append(ev, e))
  BY <1>6, <1>7, <1>8, <1>9 DEF Texts, T2
<1>11. QED  BY <1>2, <1>10 DEF Open, Tells

LEMMA OpenSilent ==
    ASSUME NEW st, NEW ev, Open(st, ev), NEW st2 \in States, Owned(st2), Hides(st, st2)
    PROVE  Open(st2, ev)
BY DEF Open, Texts, Hides, Plainly

LEMMA OpenCreated ==
    ASSUME NEW st, NEW ev, Open(st, ev), NEW e \in Events, e.type = "created"
    PROVE  Open(st, Append(ev, e))
<1>1. /\ st \in States /\ Hist(st.next, ev) /\ Texts(st, ev) /\ st.next \in Nat
  BY DEF Open, States
<1>2. Hist(st.next, Append(ev, e))
  BY <1>1, HistCreated
<1>3. \A x : Text(Append(ev, e), x) = Text(ev, x)
  BY <1>1, TextOther
<1>4. Texts(st, Append(ev, e))
  BY <1>1, <1>3 DEF Texts
<1>5. QED  BY <1>2, <1>4 DEF Open
---------------------------------------------------------------------------
(* Steps of the translator that work on an answer that is open.            *)
Works == [s : States, ev : Seq(Events)]
Fine(w, before) == w \in Works /\ before \in Seq(Events) /\ Open(w.s, before \o w.ev)
Tools == [slot : Nat, id : STRING, args : {"", "open", "close", "whole"}]
Event(u, type, idx, item) == [type |-> type, idx |-> idx, n |-> u.s.n + 1, item |-> item]
Alike(a, b) ==
    /\ a.next = b.next /\ a.msg = b.msg /\ a.text = b.text /\ a.rsn = b.rsn
    /\ a.reason = b.reason /\ a.calls = b.calls
Keeps(a, b) == b.google = a.google /\ b.rsn = a.rsn /\ b.reason = a.reason

LEMMA OwnedAlike ==
    ASSUME NEW a, NEW b, Owned(a), Alike(a, b)
    PROVE  Owned(b)
BY DEF Owned, Alike

LEMMA Counted ==
    ASSUME NEW st \in States
    PROVE  /\ [st EXCEPT !.n = @ + 1] \in States
           /\ Alike(st, [st EXCEPT !.n = @ + 1])
           /\ [st EXCEPT !.n = @ + 1].final = st.final
           /\ [st EXCEPT !.n = @ + 1].google = st.google
BY DEF States, Alike

LEMMA NextIndex ==
    ASSUME NEW st \in States
    PROVE  [st EXCEPT !.next = @ + 1] \in States
BY DEF States

Emitted(u, before, type, idx, item, o) ==
    /\ Event(u, type, idx, item) \in Events
    /\ o \in Works /\ o.s = [u.s EXCEPT !.n = @ + 1]
    /\ o.ev = Append(u.ev, Event(u, type, idx, item))
    /\ before \o o.ev = Append(before \o u.ev, Event(u, type, idx, item))

LEMMA EmitEvent ==
    ASSUME NEW u \in Works, NEW before \in Seq(Events),
           NEW type \in {"created", "added", "delta"} \cup Terminals,
           NEW idx \in Int,
           NEW item \in Items \cup Seq(Items) \cup {WithoutCalls(q) : q \in Seq(Items)}
    PROVE  Emitted(u, before, type, idx, item, Emit(u, type, idx, item))
<1>1. u.s \in States /\ u.ev \in Seq(Events) /\ u.s.n \in Nat
  BY DEF Works, States
<1>2. Event(u, type, idx, item) \in Events
  <2>1. u.s.n + 1 \in Nat /\ type \in Kinds \cup Terminals \cup {"created", "frame"}
    BY <1>1 DEF Kinds
  <2>2. QED  BY <2>1 DEF Event, Events
<1>3. Append(u.ev, Event(u, type, idx, item)) \in Seq(Events)
  BY <1>1, <1>2, AppendProperties
<1>4. Emit(u, type, idx, item) = [s |-> [u.s EXCEPT !.n = @ + 1],
                                  ev |-> Append(u.ev, Event(u, type, idx, item))]
  BY DEF Emit, Event
<1>5. [u.s EXCEPT !.n = @ + 1] \in States
  BY <1>1, Counted
<1>6. before \o Append(u.ev, Event(u, type, idx, item)) = Append(before \o u.ev, Event(u, type, idx, item))
  BY <1>1, <1>2, QueueGrows
<1>7. QED  BY <1>2, <1>3, <1>4, <1>5, <1>6 DEF Works, Emitted

LEMMA Bodies ==
    /\ <<>> \in Seq(Items)
    /\ \A body \in Seq(Frags) : Message(body) \in Items /\ Reasoning(body) \in Items
    /\ \A body \in Seq(Frags), id \in Ids : Call(id, body) \in Items
    /\ <<>> \in Seq(Frags) /\ <<"t">> \in Seq(Frags) /\ <<"r">> \in Seq(Frags)
    /\ \A a \in {"", "open", "close", "whole"} : a \in Frags /\ <<a>> \in Seq(Frags)
<1>1. "" \in Ids
  BY DEF Ids
<1>2. \A body \in Seq(Frags) : Message(body) \in Items /\ Reasoning(body) \in Items
  BY <1>1 DEF Message, Reasoning, Items
<1>3. \A body \in Seq(Frags), id \in Ids : Call(id, body) \in Items
  BY DEF Call, Items
<1>4. \A a \in Frags : <<a>> \in Seq(Frags)
  OBVIOUS
<1>5. \A a \in {"", "open", "close", "whole", "t", "r"} : a \in Frags
  BY DEF Frags
<1>6. <<>> \in Seq(Items) /\ <<>> \in Seq(Frags)
  OBVIOUS
<1>7. QED  BY <1>2, <1>3, <1>4, <1>5, <1>6

(* An output index is given to the reasoning, to the message or to a call. *)
TakenRsn(st) == [st EXCEPT !.rsn = st.next, !.next = @ + 1]
TakenMsg(st) == [st EXCEPT !.msg = st.next, !.next = @ + 1]
WithCall(calls, k, c) == [j \in DOMAIN calls \cup {k} |-> IF j = k THEN c ELSE calls[j]]
TakenCall(st, k, id) ==
    [st EXCEPT !.calls = WithCall(@, k, [idx |-> st.next, id |-> id, args |-> <<>>]), !.next = @ + 1]

LEMMA TakenRsnOwned ==
    ASSUME NEW st \in States, Owned(st), st.rsn = None
    PROVE  LET t == TakenRsn(st)
           IN  /\ t \in States /\ Owned(t) /\ t.next = st.next + 1 /\ t.rsn = st.next /\ t.msg = st.msg
               /\ t.text = st.text /\ t.reason = st.reason /\ t.calls = st.calls
               /\ t.google = st.google /\ t.final = st.final
<1>. DEFINE r == [st EXCEPT !.rsn = st.next]
            t == TakenRsn(st)
<1>1. r \in States
  BY DEF States
<1>. HIDE DEF r
<1>2. [r EXCEPT !.next = @ + 1] \in States
  BY <1>1, NextIndex
<1>3. t = [r EXCEPT !.next = @ + 1]
  BY DEF TakenRsn, r
<1>4. /\ t.next = st.next + 1 /\ t.rsn = st.next /\ t.msg = st.msg
      /\ t.text = st.text /\ t.reason = st.reason /\ t.calls = st.calls
      /\ t.google = st.google /\ t.final = st.final
  BY DEF States, TakenRsn
<1>5. st.next \in Nat /\ st.next # None /\ st.next \notin 0..(st.next - 1)
  BY DEF States, None
<1>. HIDE DEF t
<1>6. Owned(t)
  <2>1. \A x : x \in 0..(t.next - 1) <=> x \in 0..(st.next - 1) \/ x = st.next
    BY <1>4, <1>5
  <2>2. \A j \in DOMAIN t.calls :
          /\ t.calls[j].idx \in 0..(t.next - 1)
          /\ t.calls[j].idx # t.msg /\ t.calls[j].idx # t.rsn
          /\ \A l \in DOMAIN t.calls : l # j => t.calls[l].idx # t.calls[j].idx
    BY <1>4, <1>5, <2>1 DEF Owned
  <2>3. \A x \in 0..(t.next - 1) :
          x = t.msg \/ x = t.rsn \/ \E j \in DOMAIN t.calls : t.calls[j].idx = x
    <3>1. TAKE x \in 0..(t.next - 1)
    <3>2. CASE x = st.next
      BY <1>4, <3>2
    <3>3. CASE x \in 0..(st.next - 1)
      <4>1. x # None
        BY <1>5, <3>3 DEF None
      <4>2. x = st.msg \/ x = st.rsn \/ \E j \in DOMAIN st.calls : st.calls[j].idx = x
        BY <3>3 DEF Owned
      <4>3. QED  BY <1>4, <4>1, <4>2
    <3>4. QED  BY <2>1, <3>2, <3>3
  <2>4. /\ t.msg = None \/ t.msg \in 0..(t.next - 1)
        /\ t.rsn = None \/ t.rsn \in 0..(t.next - 1)
        /\ t.msg # None => t.msg # t.rsn
        /\ t.msg = None => t.text = <<>>
        /\ t.rsn = None => t.reason = <<>>
    BY <1>4, <1>5, <2>1 DEF Owned
  <2>5. DOMAIN t.calls # {} => \E j \in DOMAIN t.calls : \A l \in DOMAIN t.calls : l <= j
    BY <1>4 DEF Owned
  <2>6. QED  BY <2>2, <2>3, <2>4, <2>5 DEF Owned
<1>7. QED  BY <1>2, <1>3, <1>4, <1>6 DEF t

LEMMA TakenMsgOwned ==
    ASSUME NEW st \in States, Owned(st), st.msg = None
    PROVE  LET t == TakenMsg(st)
           IN  /\ t \in States /\ Owned(t) /\ t.next = st.next + 1 /\ t.msg = st.next /\ t.rsn = st.rsn
               /\ t.text = st.text /\ t.reason = st.reason /\ t.calls = st.calls
               /\ t.google = st.google /\ t.final = st.final
<1>. DEFINE r == [st EXCEPT !.msg = st.next]
            t == TakenMsg(st)
<1>1. r \in States
  BY DEF States
<1>. HIDE DEF r
<1>2. [r EXCEPT !.next = @ + 1] \in States
  BY <1>1, NextIndex
<1>3. t = [r EXCEPT !.next = @ + 1]
  BY DEF TakenMsg, r
<1>4. /\ t.next = st.next + 1 /\ t.msg = st.next /\ t.rsn = st.rsn
      /\ t.text = st.text /\ t.reason = st.reason /\ t.calls = st.calls
      /\ t.google = st.google /\ t.final = st.final
  BY DEF States, TakenMsg
<1>5. st.next \in Nat /\ st.next # None /\ st.next \notin 0..(st.next - 1)
  BY DEF States, None
<1>. HIDE DEF t
<1>6. Owned(t)
  <2>1. \A x : x \in 0..(t.next - 1) <=> x \in 0..(st.next - 1) \/ x = st.next
    BY <1>4, <1>5
  <2>2. \A j \in DOMAIN t.calls :
          /\ t.calls[j].idx \in 0..(t.next - 1)
          /\ t.calls[j].idx # t.msg /\ t.calls[j].idx # t.rsn
          /\ \A l \in DOMAIN t.calls : l # j => t.calls[l].idx # t.calls[j].idx
    BY <1>4, <1>5, <2>1 DEF Owned
  <2>3. \A x \in 0..(t.next - 1) :
          x = t.msg \/ x = t.rsn \/ \E j \in DOMAIN t.calls : t.calls[j].idx = x
    <3>1. TAKE x \in 0..(t.next - 1)
    <3>2. CASE x = st.next
      BY <1>4, <3>2
    <3>3. CASE x \in 0..(st.next - 1)
      <4>1. x # None
        BY <1>5, <3>3 DEF None
      <4>2. x = st.msg \/ x = st.rsn \/ \E j \in DOMAIN st.calls : st.calls[j].idx = x
        BY <3>3 DEF Owned
      <4>3. QED  BY <1>4, <4>1, <4>2
    <3>4. QED  BY <2>1, <3>2, <3>3
  <2>4. /\ t.msg = None \/ t.msg \in 0..(t.next - 1)
        /\ t.rsn = None \/ t.rsn \in 0..(t.next - 1)
        /\ t.msg # None => t.msg # t.rsn
        /\ t.msg = None => t.text = <<>>
        /\ t.rsn = None => t.reason = <<>>
    BY <1>4, <1>5, <2>1 DEF Owned
  <2>5. DOMAIN t.calls # {} => \E j \in DOMAIN t.calls : \A l \in DOMAIN t.calls : l <= j
    BY <1>4 DEF Owned
  <2>6. QED  BY <2>2, <2>3, <2>4, <2>5 DEF Owned
<1>7. QED  BY <1>2, <1>3, <1>4, <1>6 DEF t

(* The new slot is the last one or the last one stays.                     *)
LEMMA TakenCallOwned ==
    ASSUME NEW st \in States, Owned(st), NEW k \in Nat, k \notin DOMAIN st.calls, NEW id \in Ids
    PROVE  LET t == TakenCall(st, k, id)
           IN  /\ t \in States /\ Owned(t) /\ t.next = st.next + 1 /\ t.msg = st.msg /\ t.rsn = st.rsn
               /\ t.text = st.text /\ t.reason = st.reason
               /\ t.calls = WithCall(st.calls, k, [idx |-> st.next, id |-> id, args |-> <<>>])
               /\ t.google = st.google /\ t.final = st.final
<1>. DEFINE c == [idx |-> st.next, id |-> id, args |-> <<>>]
            cs == WithCall(st.calls, k, c)
            r == [st EXCEPT !.calls = cs]
            t == TakenCall(st, k, id)
<1>0. /\ st.next \in Nat /\ st.next # None /\ st.next \notin 0..(st.next - 1)
      /\ st.calls \in AllCalls
  BY DEF States, None
<1>1. PICK D \in SUBSET Nat : st.calls \in [D -> Calls]
  BY <1>0 DEF AllCalls
<1>2. c \in Calls /\ c.idx = st.next /\ c.id = id /\ c.args = <<>>
  BY <1>0, Bodies DEF Calls
<1>. HIDE DEF c
<1>3. /\ DOMAIN cs = DOMAIN st.calls \cup {k} /\ cs[k] = c
      /\ \A j \in DOMAIN st.calls : j # k /\ cs[j] = st.calls[j]
  BY DEF WithCall
<1>4. cs \in AllCalls
  <2>1. cs \in [D \cup {k} -> Calls]
    BY <1>1, <1>2 DEF WithCall
  <2>2. D \cup {k} \in SUBSET Nat
    OBVIOUS
  <2>3. QED  BY <2>1, <2>2 DEF AllCalls
<1>. HIDE DEF cs
<1>5. r \in States
  BY <1>4 DEF States
<1>. HIDE DEF r
<1>6. [r EXCEPT !.next = @ + 1] \in States
  BY <1>5, NextIndex
<1>7. t = [r EXCEPT !.next = @ + 1]
  BY DEF TakenCall, r, cs, c
<1>8. /\ t.next = st.next + 1 /\ t.msg = st.msg /\ t.rsn = st.rsn
      /\ t.text = st.text /\ t.reason = st.reason /\ t.calls = cs
      /\ t.google = st.google /\ t.final = st.final
  BY DEF States, TakenCall, cs, c
<1>. HIDE DEF t
<1>9. Owned(t)
  <2>1. \A x : x \in 0..(t.next - 1) <=> x \in 0..(st.next - 1) \/ x = st.next
    BY <1>0, <1>8
  <2>2. \A j \in DOMAIN t.calls :
          /\ t.calls[j].idx \in 0..(t.next - 1)
          /\ t.calls[j].idx # t.msg /\ t.calls[j].idx # t.rsn
          /\ \A l \in DOMAIN t.calls : l # j => t.calls[l].idx # t.calls[j].idx
    BY <1>0, <1>2, <1>3, <1>8, <2>1 DEF Owned
  <2>3. \A x \in 0..(t.next - 1) :
          x = t.msg \/ x = t.rsn \/ \E j \in DOMAIN t.calls : t.calls[j].idx = x
    BY <1>2, <1>3, <1>8, <2>1 DEF Owned
  <2>4. \E j \in DOMAIN t.calls : \A l \in DOMAIN t.calls : l <= j
    <3>1. DOMAIN st.calls \subseteq Nat
      BY <1>1
    <3>2. CASE DOMAIN st.calls = {}
      BY <1>3, <1>8, <3>2
    <3>3. CASE DOMAIN st.calls # {}
      <4>1. PICK j \in DOMAIN st.calls : \A l \in DOMAIN st.calls : l <= j
        BY <3>3 DEF Owned
      <4>2. CASE k <= j
        BY <1>3, <1>8, <4>1, <4>2
      <4>3. CASE j <= k
        BY <1>3, <1>8, <3>1, <4>1, <4>3
      <4>4. QED  BY <3>1, <4>1, <4>2, <4>3
    <3>4. QED  BY <3>2, <3>3
  <2>5. QED  BY <1>0, <1>8, <2>1, <2>2, <2>3, <2>4 DEF Owned
<1>10. QED  BY <1>6, <1>7, <1>8, <1>9 DEF t, cs, c

(* An item is added, or a delta of it follows.                             *)
LEMMA FineAdded ==
    ASSUME NEW st, NEW before \in Seq(Events), NEW v \in Works, Open(st, before \o v.ev),
           NEW item \in Items, Owned(v.s), Adds(st, v.s)
    PROVE  LET o == Emit(v, "added", st.next, item)
           IN  Fine(o, before) /\ Alike(v.s, o.s) /\ o.s.google = v.s.google
<1>. DEFINE o == Emit(v, "added", st.next, item)
            e == Event(v, "added", st.next, item)
            ev == before \o v.ev
<1>1. Emitted(v, before, "added", st.next, item, o)
  <2>1. st.next \in Int
    BY DEF Open, States
  <2>2. QED  BY <2>1, EmitEvent
<1>2. e.type = "added" /\ e.idx = st.next /\ e.item \in Items
  BY DEF Event
<1>. HIDE DEF o
<1>3. e \in Events /\ o \in Works /\ o.s = [v.s EXCEPT !.n = @ + 1] /\ before \o o.ev = Append(ev, e)
  BY <1>1 DEF Emitted
<1>. HIDE DEF e, ev
<1>4. o.s \in States /\ Alike(v.s, o.s) /\ o.s.final = v.s.final /\ o.s.google = v.s.google
  BY <1>3, Counted DEF Works
<1>5. Owned(o.s)
  BY <1>4, OwnedAlike
<1>6. Adds(st, o.s)
  BY <1>4 DEF Adds, Alike
<1>7. Open(st, ev)
  BY DEF ev
<1>8. Open(o.s, Append(ev, e))
  BY <1>2, <1>3, <1>4, <1>5, <1>6, <1>7, OpenAdded
<1>9. QED  BY <1>3, <1>4, <1>8 DEF Fine, o

LEMMA FineDelta ==
    ASSUME NEW st, NEW before \in Seq(Events), NEW v \in Works, Open(st, before \o v.ev),
           NEW item \in Items, NEW idx \in 0..(st.next - 1), Owned(v.s), Tells(st, v.s, idx, item.body)
    PROVE  LET o == Emit(v, "delta", idx, item)
           IN  Fine(o, before) /\ Alike(v.s, o.s) /\ o.s.google = v.s.google
<1>. DEFINE o == Emit(v, "delta", idx, item)
            e == Event(v, "delta", idx, item)
            ev == before \o v.ev
<1>1. Emitted(v, before, "delta", idx, item, o)
  BY EmitEvent
<1>2. e.type = "delta" /\ e.idx = idx /\ e.item = item
  BY DEF Event
<1>. HIDE DEF o
<1>3. e \in Events /\ o \in Works /\ o.s = [v.s EXCEPT !.n = @ + 1] /\ before \o o.ev = Append(ev, e)
  BY <1>1 DEF Emitted
<1>. HIDE DEF e, ev
<1>4. o.s \in States /\ Alike(v.s, o.s) /\ o.s.final = v.s.final /\ o.s.google = v.s.google
  BY <1>3, Counted DEF Works
<1>5. Owned(o.s)
  BY <1>4, OwnedAlike
<1>6. Tells(st, o.s, idx, item.body)
  BY <1>4 DEF Tells, Alike
<1>7. Open(st, ev)
  BY DEF ev
<1>8. Open(o.s, Append(ev, e))
  BY <1>2, <1>3, <1>4, <1>5, <1>6, <1>7, OpenDelta
<1>9. QED  BY <1>3, <1>4, <1>8 DEF Fine, o

(* The carrier of Google's signature.                                      *)
LEMMA FineCarrier ==
    ASSUME NEW w, NEW before, Fine(w, before), NEW ch \in Chunks
    PROVE  /\ Fine(Carrier(w, ch), before) /\ Carrier(w, ch).s.google = w.s.google
           /\ ~w.s.google => Keeps(w.s, Carrier(w, ch).s)
<1>. DEFINE u == [w EXCEPT !.s.sig = @ \/ ch.sig]
            v == [u EXCEPT !.s.rsn = w.s.next, !.s.next = @ + 1]
            ev == before \o w.ev
<1>0. /\ w \in Works /\ w.s \in States /\ w.ev \in Seq(Events) /\ before \in Seq(Events)
      /\ Open(w.s, ev) /\ Owned(w.s) /\ ~w.s.final
      /\ w.s.next \in Nat /\ ch.sig \in BOOLEAN
  BY ChunksAssumption DEF Fine, Works, Open, States
<1>1. /\ u \in Works /\ u.ev = w.ev /\ u.s \in States /\ Alike(w.s, u.s)
      /\ u.s.google = w.s.google /\ u.s.final = w.s.final
  BY <1>0 DEF Works, States, Alike
<1>. HIDE DEF u
<1>2. CASE ~(u.s.google /\ u.s.sig /\ u.s.rsn = None)
  <2>1. Carrier(w, ch) = u
    BY <1>2 DEF Carrier, u
  <2>2. Owned(u.s)
    BY <1>0, <1>1, OwnedAlike
  <2>3. Open(u.s, ev)
    BY <1>0, <1>1, <2>2, OpenSilent DEF Alike, Hides
  <2>4. QED  BY <1>0, <1>1, <2>1, <2>3 DEF Fine, Keeps, Alike
<1>3. CASE u.s.google /\ u.s.sig /\ u.s.rsn = None
  <2>0. u.s \in States /\ Owned(u.s) /\ u.s.rsn = None /\ u.s.next = w.s.next
    BY <1>0, <1>1, <1>3, OwnedAlike DEF Alike
  <2>1. /\ v \in Works /\ v.ev = w.ev /\ v.s \in States /\ v.s.google = w.s.google /\ v.s.final = w.s.final
        /\ v.s.next = w.s.next + 1 /\ v.s.rsn = w.s.next /\ v.s.msg = w.s.msg
        /\ v.s.text = w.s.text /\ v.s.reason = w.s.reason /\ v.s.calls = w.s.calls /\ Owned(v.s)
    <3>1. v = [s |-> TakenRsn(u.s), ev |-> u.ev]
      <4>. DEFINE a == [u EXCEPT !.s.rsn = w.s.next]
      <4>1. a = [s |-> [u.s EXCEPT !.rsn = w.s.next], ev |-> u.ev]
        BY <1>1 DEF Works
      <4>2. u.s.next = w.s.next
        BY <2>0
      <4>3. v = [a EXCEPT !.s.next = @ + 1]
        OBVIOUS
      <4>. HIDE DEF a, v
      <4>4. \A x, y : [[s |-> x, ev |-> y] EXCEPT !.s.next = @ + 1] = [s |-> [x EXCEPT !.next = @ + 1], ev |-> y]
        OBVIOUS
      <4>5. v = [s |-> [[u.s EXCEPT !.rsn = w.s.next] EXCEPT !.next = @ + 1], ev |-> u.ev]
        BY <4>1, <4>3, <4>4
      <4>6. TakenRsn(u.s) = [[u.s EXCEPT !.rsn = w.s.next] EXCEPT !.next = @ + 1]
        BY <4>2 DEF TakenRsn
      <4>7. QED  BY <4>5, <4>6
    <3>. DEFINE r == TakenRsn(u.s)
    <3>2. /\ r \in States /\ Owned(r) /\ r.next = u.s.next + 1 /\ r.rsn = u.s.next /\ r.msg = u.s.msg
          /\ r.text = u.s.text /\ r.reason = u.s.reason /\ r.calls = u.s.calls
          /\ r.google = u.s.google /\ r.final = u.s.final
      BY <2>0, TakenRsnOwned
    <3>. HIDE DEF r, v
    <3>3. v.s = r /\ v.ev = w.ev /\ v \in Works
      BY <1>0, <1>1, <3>1, <3>2 DEF Works, r
    <3>4. QED  BY <1>1, <3>2, <3>3 DEF Alike
  <2>. HIDE DEF v
  <2>2. Carrier(w, ch) = Emit(v, "added", w.s.next, Reasoning(<<>>))
    BY <1>3 DEF Carrier, u, v
  <2>3. Reasoning(<<>>) \in Items
    BY Bodies
  <2>4. w.s.rsn = None
    BY <1>1, <1>3 DEF Alike
  <2>5. Adds(w.s, v.s)
    BY <1>0, <2>1, <2>4 DEF Adds
  <2>6. Open(w.s, before \o v.ev)
    BY <1>0, <2>1
  <2>7. Fine(Carrier(w, ch), before) /\ Carrier(w, ch).s.google = w.s.google
    BY <1>0, <2>1, <2>2, <2>3, <2>5, <2>6, FineAdded
  <2>8. w.s.google
    BY <1>1, <1>3
  <2>9. QED  BY <2>7, <2>8
<1>4. QED  BY <1>2, <1>3
---------------------------------------------------------------------------
(* Calls.                                                                  *)
LEMMA SlotOf ==
    ASSUME NEW st \in States, Owned(st), NEW d \in Tools
    PROVE  /\ Slot(st, d) \in Nat
           /\ st.google /\ Slot(st, d) \in DOMAIN st.calls => st.calls[Slot(st, d)].id = d.id
<1>. DEFINE known == {k \in DOMAIN st.calls : st.calls[k].id = d.id}
<1>0. DOMAIN st.calls \subseteq Nat /\ d.slot \in Nat
  BY DEF States, AllCalls, Tools
<1>1. CASE ~st.google
  BY <1>0, <1>1 DEF Slot
<1>2. CASE st.google /\ known # {}
  <2>1. Slot(st, d) = CHOOSE k \in known : TRUE
    BY <1>2 DEF Slot
  <2>2. (CHOOSE k \in known : TRUE) \in known
    BY <1>2
  <2>3. QED  BY <1>0, <2>1, <2>2
<1>3. CASE st.google /\ known = {} /\ d.slot \in DOMAIN st.calls
  <2>. DEFINE last == CHOOSE k \in DOMAIN st.calls : \A j \in DOMAIN st.calls : j <= k
  <2>1. Slot(st, d) = 1 + last
    BY <1>3 DEF Slot
  <2>2. last \in DOMAIN st.calls /\ \A j \in DOMAIN st.calls : j <= last
    BY <1>3 DEF Owned
  <2>. HIDE DEF last
  <2>3. 1 + last \in Nat /\ ~(1 + last <= last)
    BY <1>0, <2>2
  <2>4. QED  BY <2>1, <2>2, <2>3
<1>4. CASE st.google /\ known = {} /\ d.slot \notin DOMAIN st.calls
  BY <1>0, <1>4 DEF Slot
<1>5. QED  BY <1>1, <1>2, <1>3, <1>4

LEMMA FineOpenCall ==
    ASSUME NEW w, NEW before, Fine(w, before), NEW k \in Nat, NEW d \in Tools
    PROVE  LET o == OpenCall(w, k, d)
           IN  /\ Fine(o, before) /\ k \in DOMAIN o.s.calls /\ Keeps(w.s, o.s)
               /\ k \in DOMAIN w.s.calls => o = w
               /\ k \notin DOMAIN w.s.calls => o.s.calls[k].id = d.id
<1>1. CASE k \in DOMAIN w.s.calls
  BY <1>1 DEF OpenCall, Keeps
<1>2. CASE k \notin DOMAIN w.s.calls
  <2>. DEFINE c == [idx |-> w.s.next, id |-> d.id, args |-> <<>>]
              r == TakenCall(w.s, k, d.id)
              v == [w EXCEPT !.s.calls = [j \in DOMAIN @ \cup {k} |-> IF j = k THEN c ELSE @[j]],
                             !.s.next = @ + 1]
              o == Emit(v, "added", w.s.next, Call(d.id, <<>>))
  <2>1. OpenCall(w, k, d) = o
    BY <1>2 DEF OpenCall
  <2>2. /\ w \in Works /\ w.s \in States /\ w.ev \in Seq(Events) /\ before \in Seq(Events)
        /\ Open(w.s, before \o w.ev) /\ Owned(w.s) /\ ~w.s.final /\ w.s.next \in Nat
    BY DEF Fine, Works, Open, States
  <2>3. d.id \in Ids
    BY DEF Tools, Ids
  <2>4. v = [s |-> r, ev |-> w.ev]
    <3>. DEFINE a == [w EXCEPT !.s.calls = [j \in DOMAIN @ \cup {k} |-> IF j = k THEN c ELSE @[j]]]
    <3>1. a = [s |-> [w.s EXCEPT !.calls = WithCall(@, k, c)], ev |-> w.ev]
      BY <2>2 DEF Works, WithCall
    <3>2. v = [a EXCEPT !.s.next = @ + 1]
      OBVIOUS
    <3>3. r = [[w.s EXCEPT !.calls = WithCall(@, k, c)] EXCEPT !.next = @ + 1]
      BY DEF TakenCall
    <3>. HIDE DEF a, v, r, c
    <3>4. \A x, y : [[s |-> x, ev |-> y] EXCEPT !.s.next = @ + 1] = [s |-> [x EXCEPT !.next = @ + 1], ev |-> y]
      OBVIOUS
    <3>5. QED  BY <3>1, <3>2, <3>3, <3>4
  <2>5. /\ r \in States /\ Owned(r) /\ r.next = w.s.next + 1 /\ r.msg = w.s.msg /\ r.rsn = w.s.rsn
        /\ r.text = w.s.text /\ r.reason = w.s.reason /\ r.calls = WithCall(w.s.calls, k, c)
        /\ r.google = w.s.google /\ r.final = w.s.final
    BY <1>2, <2>2, <2>3, TakenCallOwned
  <2>. HIDE DEF r, v
  <2>6. v.s = r /\ v.ev = w.ev /\ v \in Works
    BY <2>2, <2>4, <2>5 DEF Works
  <2>7. k \in DOMAIN r.calls /\ r.calls[k].id = d.id
    BY <2>5 DEF WithCall
  <2>8. Adds(w.s, r)
    BY <2>2, <2>5 DEF Adds, WithCall
  <2>. HIDE DEF o
  <2>9. Fine(o, before) /\ Alike(v.s, o.s) /\ o.s.google = v.s.google
    <3>1. Call(d.id, <<>>) \in Items
      BY <2>3, Bodies
    <3>2. Open(w.s, before \o v.ev) /\ Owned(v.s) /\ Adds(w.s, v.s)
      BY <2>2, <2>5, <2>6, <2>8
    <3>3. QED  BY <2>2, <2>6, <3>1, <3>2, FineAdded DEF o
  <2>10. QED  BY <1>2, <2>1, <2>5, <2>6, <2>7, <2>9 DEF Alike, Keeps
<1>3. QED  BY <1>1, <1>2

WithArgs(st, k, args) == [st EXCEPT !.calls[k].args = args]

LEMMA ArgsOwned ==
    ASSUME NEW st \in States, Owned(st), NEW k \in DOMAIN st.calls, NEW args \in Seq(Frags)
    PROVE  LET t == WithArgs(st, k, args)
           IN  /\ t \in States /\ Owned(t) /\ t.next = st.next /\ t.msg = st.msg /\ t.rsn = st.rsn
               /\ t.text = st.text /\ t.reason = st.reason /\ t.google = st.google /\ t.final = st.final
               /\ DOMAIN t.calls = DOMAIN st.calls
               /\ \A j \in DOMAIN st.calls :
                    /\ t.calls[j].idx = st.calls[j].idx /\ t.calls[j].id = st.calls[j].id
                    /\ t.calls[j].args = IF j = k THEN args ELSE st.calls[j].args
<1>. DEFINE cs == [st.calls EXCEPT ![k].args = args]
            t == WithArgs(st, k, args)
<1>1. PICK D \in SUBSET Nat : st.calls \in [D -> Calls]
  BY DEF States, AllCalls
<1>2. k \in D /\ DOMAIN st.calls = D /\ st.calls[k] \in Calls
  BY <1>1
<1>3. [st.calls[k] EXCEPT !.args = args] \in Calls
  BY <1>2 DEF Calls
<1>4. cs \in [D -> Calls]
  BY <1>1, <1>3
<1>5. cs \in AllCalls
  BY <1>4 DEF AllCalls
<1>6. /\ DOMAIN cs = DOMAIN st.calls
      /\ \A j \in DOMAIN st.calls :
           /\ cs[j].idx = st.calls[j].idx /\ cs[j].id = st.calls[j].id
           /\ cs[j].args = IF j = k THEN args ELSE st.calls[j].args
  <2>1. \A j \in D : st.calls[j] \in Calls /\ cs[j] = IF j = k THEN [st.calls[k] EXCEPT !.args = args] ELSE st.calls[j]
    BY <1>1
  <2>. HIDE DEF cs
  <2>2. QED  BY <1>2, <1>4, <2>1 DEF Calls
<1>7. t = [st EXCEPT !.calls = cs]
  BY DEF WithArgs
<1>. HIDE DEF cs, t
<1>8. /\ t \in States /\ t.next = st.next /\ t.msg = st.msg /\ t.rsn = st.rsn
      /\ t.text = st.text /\ t.reason = st.reason /\ t.google = st.google /\ t.final = st.final
      /\ t.calls = cs
  BY <1>5, <1>7 DEF States
<1>9. Owned(t)
  BY <1>6, <1>8 DEF Owned
<1>10. QED  BY <1>6, <1>8, <1>9 DEF t

LEMMA EmitKeeps ==
    ASSUME NEW u \in Works, NEW type, NEW idx, NEW item
    PROVE  Keeps(u.s, Emit(u, type, idx, item).s)
BY DEF Emit, Works, States, Keeps

LEMMA OneMore ==
    ASSUME NEW S, NEW b \in Seq(S), NEW a \in S
    PROVE  Append(b, a) \in Seq(S) /\ <<a>> \in Seq(S) /\ Append(b, a) = b \o <<a>>
<1>1. Append(b, a) \in Seq(S) /\ <<a>> \in Seq(S)
  BY AppendProperties
<1>2. QED  BY <1>1, AppendIsConcat

(* Arguments that arrive for a slot.                                       *)
LEMMA FineArgs ==
    ASSUME NEW o, NEW before, Fine(o, before), NEW k \in DOMAIN o.s.calls,
           NEW a \in {"open", "close", "whole"}, NEW custom \in BOOLEAN,
           custom => o.s.google /\ o.s.calls[k].id \in Custom
    PROVE  LET args == Append(o.s.calls[k].args, a)
               u == [o EXCEPT !.s.calls[k].args = args]
           IN  /\ custom => Fine(u, before)
               /\ Fine(Emit(u, "delta", u.s.calls[k].idx,
                            Call(u.s.calls[k].id, IF custom THEN args ELSE <<a>>)), before)
               /\ u \in Works /\ Keeps(o.s, u.s)
<1>. DEFINE args == Append(o.s.calls[k].args, a)
            u == [o EXCEPT !.s.calls[k].args = args]
            r == WithArgs(o.s, k, args)
            x == o.s.calls[k].idx
            item == Call(o.s.calls[k].id, IF custom THEN args ELSE <<a>>)
<1>1. /\ o \in Works /\ o.s \in States /\ o.ev \in Seq(Events) /\ before \in Seq(Events)
      /\ Open(o.s, before \o o.ev) /\ Owned(o.s) /\ ~o.s.final /\ o.s.next \in Nat
  BY DEF Fine, Works, Open, States
<1>2. o.s.calls[k] \in Calls
  <2>1. o.s.calls \in AllCalls
    BY <1>1 DEF States
  <2>2. QED  BY <2>1 DEF AllCalls
<1>3. o.s.calls[k].id \in Ids /\ o.s.calls[k].args \in Seq(Frags) /\ a \in Frags /\ x \in 0..(o.s.next - 1)
  BY <1>1, <1>2, Bodies DEF Calls, Owned
<1>4. args \in Seq(Frags) /\ <<a>> \in Seq(Frags) /\ args = o.s.calls[k].args \o <<a>>
  BY <1>3, OneMore
<1>. HIDE DEF args
<1>5. u = [s |-> r, ev |-> o.ev]
  <2>1. o = [s |-> o.s, ev |-> o.ev]
    BY <1>1 DEF Works
  <2>2. \A x1, y1 : [[s |-> x1, ev |-> y1] EXCEPT !.s.calls[k].args = args]
                    = [s |-> [x1 EXCEPT !.calls[k].args = args], ev |-> y1]
    OBVIOUS
  <2>3. [[s |-> o.s, ev |-> o.ev] EXCEPT !.s.calls[k].args = args] = [s |-> r, ev |-> o.ev]
    BY <2>2 DEF WithArgs
  <2>4. QED  BY <2>1, <2>3
<1>6. item \in Items /\ item.body = IF custom THEN args ELSE <<a>>
  BY <1>3, <1>4, Bodies DEF Call
<1>. HIDE DEF u, r
<1>7. /\ r \in States /\ Owned(r) /\ r.next = o.s.next /\ r.msg = o.s.msg /\ r.rsn = o.s.rsn
      /\ r.text = o.s.text /\ r.reason = o.s.reason /\ r.google = o.s.google /\ r.final = o.s.final
      /\ DOMAIN r.calls = DOMAIN o.s.calls
      /\ \A j \in DOMAIN o.s.calls :
           /\ r.calls[j].idx = o.s.calls[j].idx /\ r.calls[j].id = o.s.calls[j].id
           /\ r.calls[j].args = IF j = k THEN args ELSE o.s.calls[j].args
  BY <1>1, <1>4, ArgsOwned DEF r
<1>8. u \in Works /\ u.s = r /\ u.ev = o.ev
  BY <1>1, <1>5, <1>7 DEF Works
<1>9. custom => Fine(u, before)
  <2>1. SUFFICES ASSUME custom  PROVE Fine(u, before)
    OBVIOUS
  <2>2. Hides(o.s, r)
    BY <1>1, <1>7, <2>1 DEF Hides, Plainly
  <2>3. Open(r, before \o o.ev)
    BY <1>1, <1>7, <2>2, OpenSilent
  <2>4. QED  BY <1>1, <1>8, <2>3 DEF Fine
<1>10. Tells(o.s, r, x, item.body)
  <2>1. x # o.s.msg /\ x # o.s.rsn /\ \A j \in DOMAIN o.s.calls : j # k => o.s.calls[j].idx # x
    BY <1>1 DEF Owned
  <2>2. \A j \in DOMAIN o.s.calls :
          Plainly(o.s, j) => r.calls[j].args = IF x = o.s.calls[j].idx THEN o.s.calls[j].args \o item.body
                                               ELSE o.s.calls[j].args
    <3>1. TAKE j \in DOMAIN o.s.calls
    <3>2. CASE j = k
      BY <1>4, <1>6, <1>7, <3>2 DEF Plainly
    <3>3. CASE j # k
      BY <1>7, <2>1, <3>3
    <3>4. QED  BY <3>2, <3>3
  <2>3. QED  BY <1>1, <1>7, <2>1, <2>2 DEF Tells
<1>. HIDE DEF item, x
<1>11. Fine(Emit(u, "delta", x, item), before)
  BY <1>1, <1>3, <1>6, <1>7, <1>8, <1>10, FineDelta
<1>12. u.s.calls[k].idx = x /\ u.s.calls[k].id = o.s.calls[k].id
  BY <1>7, <1>8 DEF x
<1>13. QED  BY <1>7, <1>8, <1>9, <1>11, <1>12 DEF u, args, item, Keeps

LEMMA FineToolDelta ==
    ASSUME NEW w, NEW before, Fine(w, before), NEW d \in Tools
    PROVE  Fine(ToolDelta(w, d), before) /\ Keeps(w.s, ToolDelta(w, d).s)
<1>. DEFINE k == Slot(w.s, d)
            o == OpenCall(w, k, d)
            args == Append(o.s.calls[k].args, d.args)
            u == [o EXCEPT !.s.calls[k].args = args]
            custom == w.s.google /\ d.id \in Custom
            item == Call(u.s.calls[k].id, IF custom THEN args ELSE <<d.args>>)
<1>1. w.s \in States /\ Owned(w.s) /\ w.s.google \in BOOLEAN
  BY DEF Fine, Works, Open, States
<1>2. k \in Nat /\ (w.s.google /\ k \in DOMAIN w.s.calls => w.s.calls[k].id = d.id)
  BY <1>1, SlotOf
<1>3. ToolDelta(w, d) = IF d.args = "" THEN o ELSE IF custom /\ ~Whole(args) THEN u
                        ELSE Emit(u, "delta", u.s.calls[k].idx, item)
  BY DEF ToolDelta
<1>. HIDE DEF k
<1>4. /\ Fine(o, before) /\ k \in DOMAIN o.s.calls /\ Keeps(w.s, o.s)
      /\ w.s.google => o.s.calls[k].id = d.id
  BY <1>2, FineOpenCall
<1>. HIDE DEF o
<1>5. CASE d.args = ""
  BY <1>3, <1>4, <1>5
<1>6. CASE d.args # ""
  <2>1. d.args \in {"open", "close", "whole"}
    BY <1>6 DEF Tools
  <2>2. custom \in BOOLEAN /\ (custom => o.s.google /\ o.s.calls[k].id \in Custom)
    BY <1>1, <1>4 DEF Keeps
  <2>. HIDE DEF custom
  <2>3. /\ custom => Fine(u, before)
        /\ Fine(Emit(u, "delta", u.s.calls[k].idx, item), before)
        /\ Keeps(o.s, u.s)
        /\ Keeps(o.s, Emit(u, "delta", u.s.calls[k].idx, item).s)
    <3>1. /\ Fine(o, before) /\ k \in DOMAIN o.s.calls /\ d.args \in {"open", "close", "whole"}
          /\ custom \in BOOLEAN /\ (custom => o.s.google /\ o.s.calls[k].id \in Custom)
      BY <1>4, <2>1, <2>2
    <3>2. custom => Fine(u, before)
      BY <3>1, FineArgs
    <3>3. Fine(Emit(u, "delta", u.s.calls[k].idx, item), before)
      BY <3>1, FineArgs
    <3>4. u \in Works /\ Keeps(o.s, u.s)
      BY <3>1, FineArgs
    <3>. HIDE DEF u, item, args
    <3>5. Keeps(o.s, Emit(u, "delta", u.s.calls[k].idx, item).s)
      BY <3>4, EmitKeeps DEF Keeps
    <3>6. QED  BY <3>2, <3>3, <3>4, <3>5
  <2>. HIDE DEF u, item, args
  <2>4. QED  BY <1>3, <1>4, <1>6, <2>3 DEF Keeps
<1>7. QED  BY <1>5, <1>6

ToolsUpTo(g, n, w, tools) ==
    g = [i \in 0..n |-> IF i = 0 THEN w ELSE ToolDelta(g[i - 1], tools[i])]

LEMMA ToolsExist ==
    ASSUME NEW n \in Nat, NEW w, NEW tools
    PROVE  \E g : ToolsUpTo(g, n, w, tools)
<1>. DEFINE G == {m \in Nat : \E g : ToolsUpTo(g, m, w, tools)}
<1>1. 0 \in G
  <2>. DEFINE g == [i \in 0..0 |-> w]
  <2>1. g = [i \in 0..0 |-> IF i = 0 THEN w ELSE ToolDelta(g[i - 1], tools[i])]
    OBVIOUS
  <2>2. QED  BY <2>1 DEF ToolsUpTo
<1>2. ASSUME NEW m \in Nat, m \in G  PROVE m + 1 \in G
  <2>1. PICK g : g = [i \in 0..m |-> IF i = 0 THEN w ELSE ToolDelta(g[i - 1], tools[i])]
    BY <1>2 DEF ToolsUpTo
  <2>. DEFINE h == [i \in 0..(m + 1) |-> IF i <= m THEN g[i] ELSE ToolDelta(g[m], tools[m + 1])]
  <2>2. \A i \in 0..(m + 1) : h[i] = IF i = 0 THEN w ELSE ToolDelta(h[i - 1], tools[i])
    <3>1. TAKE i \in 0..(m + 1)
    <3>2. CASE i = 0
      BY <3>2, <2>1
    <3>3. CASE i \in 1..m
      <4>1. g[i] = ToolDelta(g[i - 1], tools[i])
        BY <2>1, <3>3
      <4>2. h[i] = g[i] /\ h[i - 1] = g[i - 1]
        BY <3>3
      <4>3. QED  BY <4>1, <4>2, <3>3
    <3>4. CASE i = m + 1
      <4>1. h[i] = ToolDelta(g[m], tools[m + 1]) /\ h[i - 1] = g[m]
        BY <3>4
      <4>2. QED  BY <4>1, <3>4
    <3>5. QED  BY <3>2, <3>3, <3>4
  <2>3. h = [i \in 0..(m + 1) |-> h[i]]
    OBVIOUS
  <2>. HIDE DEF h
  <2>4. ToolsUpTo(h, m + 1, w, tools)
    BY <2>2, <2>3 DEF ToolsUpTo
  <2>5. QED  BY <2>4
<1>. HIDE DEF G
<1>3. Nat \subseteq G
  BY <1>1, <1>2, Induction
<1>4. QED  BY <1>3 DEF G

(* The calls of a frame, one after the other.                              *)
LEMMA FineToolDeltas ==
    ASSUME NEW w, NEW before, Fine(w, before), NEW tools \in Seq(Tools)
    PROVE  Fine(ToolDeltas(w, tools), before) /\ Keeps(w.s, ToolDeltas(w, tools).s)
<1>0. Len(tools) \in Nat /\ \A i \in 1..Len(tools) : tools[i] \in Tools
  BY LenProperties, ElementOfSeq
<1>. DEFINE after == CHOOSE g : g = [i \in 0..Len(tools) |-> IF i = 0 THEN w ELSE ToolDelta(g[i - 1], tools[i])]
<1>1. \E g : g = [i \in 0..Len(tools) |-> IF i = 0 THEN w ELSE ToolDelta(g[i - 1], tools[i])]
  <2>1. \E g : ToolsUpTo(g, Len(tools), w, tools)
    BY <1>0, ToolsExist
  <2>2. QED  BY <2>1 DEF ToolsUpTo
<1>2. after = [i \in 0..Len(tools) |-> IF i = 0 THEN w ELSE ToolDelta(after[i - 1], tools[i])]
  BY <1>1
<1>3. ToolDeltas(w, tools) = after[Len(tools)]
  BY DEF ToolDeltas
<1>. HIDE DEF after
<1>. DEFINE G == {m \in Nat : m <= Len(tools) => Fine(after[m], before) /\ Keeps(w.s, after[m].s)}
<1>4. 0 \in G
  <2>1. after[0] = w
    BY <1>0, <1>2
  <2>2. QED  BY <2>1 DEF Keeps
<1>5. ASSUME NEW m \in Nat, m \in G  PROVE m + 1 \in G
  <2>1. SUFFICES ASSUME m + 1 <= Len(tools)
                 PROVE  Fine(after[m + 1], before) /\ Keeps(w.s, after[m + 1].s)
    OBVIOUS
  <2>2. m + 1 \in 0..Len(tools) /\ m + 1 \in 1..Len(tools) /\ m + 1 # 0 /\ (m + 1) - 1 = m
    BY <1>0, <2>1
  <2>3. after[m + 1] = ToolDelta(after[m], tools[m + 1])
    BY <1>2, <2>2
  <2>4. Fine(after[m], before) /\ Keeps(w.s, after[m].s)
    BY <1>0, <1>5, <2>1
  <2>5. tools[m + 1] \in Tools
    BY <1>0, <2>2
  <2>6. Fine(after[m + 1], before) /\ Keeps(after[m].s, after[m + 1].s)
    BY <2>3, <2>4, <2>5, FineToolDelta
  <2>7. QED  BY <2>4, <2>6 DEF Keeps
<1>. HIDE DEF G
<1>6. Nat \subseteq G
  BY <1>4, <1>5, Induction
<1>7. QED  BY <1>0, <1>3, <1>6 DEF G
---------------------------------------------------------------------------
(* Reasoning and text: an item that is new is added and told at once.      *)
LEMMA FineNew ==
    ASSUME NEW w, NEW before, Fine(w, before),
           NEW t0 \in States, Owned(t0), Adds(w.s, t0),
           NEW t1 \in States, Owned(t1), t1.n = t0.n,
           NEW item \in Items, NEW told \in Items, Tells(t0, t1, w.s.next, told.body)
    PROVE  LET o == Emit([s |-> t1, ev |-> w.ev], "added", w.s.next, item)
           IN  /\ Fine(Emit(o, "delta", w.s.next, told), before)
               /\ Emit(o, "delta", w.s.next, told).s.google = t1.google
               /\ Alike(t1, Emit(o, "delta", w.s.next, told).s)
               /\ Alike(t1, o.s)
<1>. DEFINE v0 == [s |-> t0, ev |-> w.ev]
            v1 == [s |-> t1, ev |-> w.ev]
            o0 == Emit(v0, "added", w.s.next, item)
            o1 == Emit(v1, "added", w.s.next, item)
<1>1. /\ w.s \in States /\ w.ev \in Seq(Events) /\ before \in Seq(Events)
      /\ Open(w.s, before \o w.ev) /\ Owned(w.s) /\ ~w.s.final /\ w.s.next \in Nat
  BY DEF Fine, Works, Open, States
<1>2. v0 \in Works /\ v1 \in Works /\ v0.s = t0 /\ v1.s = t1 /\ v0.ev = w.ev /\ v1.ev = w.ev
  BY <1>1 DEF Works
<1>3. Event(v0, "added", w.s.next, item) = Event(v1, "added", w.s.next, item)
  BY <1>2 DEF Event
<1>. HIDE DEF v0, v1
<1>4. Fine(o0, before) /\ Alike(t0, o0.s) /\ o0.s.google = t0.google
  BY <1>1, <1>2, FineAdded
<1>5. Emitted(v0, before, "added", w.s.next, item, o0)
  BY <1>1, <1>2, EmitEvent
<1>6. Emitted(v1, before, "added", w.s.next, item, o1)
  BY <1>1, <1>2, EmitEvent
<1>. HIDE DEF o0, o1
<1>7. before \o o1.ev = before \o o0.ev /\ o1 \in Works /\ o1.s = [t1 EXCEPT !.n = @ + 1]
  BY <1>2, <1>3, <1>5, <1>6 DEF Emitted
<1>8. Open(o0.s, before \o o1.ev)
  BY <1>4, <1>7 DEF Fine
<1>9. Alike(t1, o1.s) /\ o1.s.google = t1.google /\ o1.s.final = t1.final
  BY <1>7, Counted
<1>10. Owned(o1.s)
  BY <1>9, OwnedAlike
<1>11. Tells(o0.s, o1.s, w.s.next, told.body)
  BY <1>4, <1>9 DEF Tells, Alike, Plainly
<1>12. w.s.next \in 0..(o0.s.next - 1)
  BY <1>1, <1>4 DEF Alike, Adds
<1>. DEFINE o2 == Emit(o1, "delta", w.s.next, told)
<1>13. Fine(o2, before) /\ Alike(o1.s, o2.s) /\ o2.s.google = o1.s.google
  <2>1. /\ before \in Seq(Events) /\ o1 \in Works /\ Open(o0.s, before \o o1.ev) /\ Owned(o1.s)
        /\ Tells(o0.s, o1.s, w.s.next, told.body) /\ w.s.next \in 0..(o0.s.next - 1)
    BY <1>1, <1>7, <1>8, <1>10, <1>11, <1>12
  <2>2. QED  BY <2>1, FineDelta
<1>14. QED  BY <1>9, <1>13 DEF o1, v1, Alike

WithReason(st, b) == [st EXCEPT !.reason = b]
WithText(st, b) == [st EXCEPT !.text = b]

LEMMA ReasonOwned ==
    ASSUME NEW st \in States, Owned(st), st.rsn # None, NEW b \in Seq(Frags)
    PROVE  LET t == WithReason(st, b)
           IN  /\ t \in States /\ Owned(t) /\ t.next = st.next /\ t.msg = st.msg /\ t.rsn = st.rsn
               /\ t.text = st.text /\ t.reason = b /\ t.calls = st.calls /\ t.n = st.n
               /\ t.google = st.google /\ t.final = st.final
<1>. DEFINE t == WithReason(st, b)
<1>1. /\ t \in States /\ t.next = st.next /\ t.msg = st.msg /\ t.rsn = st.rsn
      /\ t.text = st.text /\ t.reason = b /\ t.calls = st.calls /\ t.n = st.n
      /\ t.google = st.google /\ t.final = st.final
  BY DEF States, WithReason
<1>. HIDE DEF t
<1>2. Owned(t)
  BY <1>1 DEF Owned
<1>3. QED  BY <1>1, <1>2 DEF t

LEMMA TextOwned ==
    ASSUME NEW st \in States, Owned(st), st.msg # None, NEW b \in Seq(Frags)
    PROVE  LET t == WithText(st, b)
           IN  /\ t \in States /\ Owned(t) /\ t.next = st.next /\ t.msg = st.msg /\ t.rsn = st.rsn
               /\ t.text = b /\ t.reason = st.reason /\ t.calls = st.calls /\ t.n = st.n
               /\ t.google = st.google /\ t.final = st.final
<1>. DEFINE t == WithText(st, b)
<1>1. /\ t \in States /\ t.next = st.next /\ t.msg = st.msg /\ t.rsn = st.rsn
      /\ t.text = b /\ t.reason = st.reason /\ t.calls = st.calls /\ t.n = st.n
      /\ t.google = st.google /\ t.final = st.final
  BY DEF States, WithText
<1>. HIDE DEF t
<1>2. Owned(t)
  BY <1>1 DEF Owned
<1>3. QED  BY <1>1, <1>2 DEF t

LEMMA FineReasonDelta ==
    ASSUME NEW w, NEW before, Fine(w, before), NEW ch
    PROVE  /\ Fine(ReasonDelta(w, ch), before) /\ ReasonDelta(w, ch).s.google = w.s.google
           /\ Reasoned(w.s) => Reasoned(ReasonDelta(w, ch).s)
<1>. DEFINE told == Reasoning(<<"r">>)
            b == Append(w.s.reason, "r")
            u == [w EXCEPT !.s.reason = Append(@, "r")]
            v == [u EXCEPT !.s.rsn = w.s.next, !.s.next = @ + 1]
            o == Emit(v, "added", w.s.next, Reasoning(<<>>))
<1>0. /\ w \in Works /\ w.s \in States /\ w.ev \in Seq(Events) /\ before \in Seq(Events)
      /\ Open(w.s, before \o w.ev) /\ Owned(w.s) /\ ~w.s.final /\ w.s.next \in Nat
      /\ w.s.reason \in Seq(Frags)
  BY DEF Fine, Works, Open, States
<1>1. told \in Items /\ told.body = <<"r">> /\ Reasoning(<<>>) \in Items
  BY Bodies DEF Reasoning
<1>2. b \in Seq(Frags) /\ b = w.s.reason \o <<"r">> /\ b # <<>>
  <2>1. "r" \in Frags
    BY DEF Frags
  <2>2. b \in Seq(Frags) /\ b = w.s.reason \o <<"r">>
    BY <1>0, <2>1, OneMore
  <2>3. b # <<>>
    BY <1>0, <2>1, AppendProperties
  <2>4. QED  BY <2>2, <2>3
<1>3. u = [s |-> WithReason(w.s, b), ev |-> w.ev]
  <2>1. w = [s |-> w.s, ev |-> w.ev]
    BY <1>0 DEF Works
  <2>2. \A x, y : [[s |-> x, ev |-> y] EXCEPT !.s.reason = Append(@, "r")]
                  = [s |-> [x EXCEPT !.reason = Append(@, "r")], ev |-> y]
    OBVIOUS
  <2>3. [[s |-> w.s, ev |-> w.ev] EXCEPT !.s.reason = Append(@, "r")] = [s |-> WithReason(w.s, b), ev |-> w.ev]
    BY <2>2 DEF WithReason
  <2>4. QED  BY <2>1, <2>3
<1>. HIDE DEF told, b
<1>4. CASE ~ch.reason
  BY <1>4 DEF ReasonDelta
<1>5. CASE ch.reason /\ w.s.rsn # None
  <2>. DEFINE r == WithReason(w.s, b)
  <2>1. /\ r \in States /\ Owned(r) /\ r.next = w.s.next /\ r.msg = w.s.msg /\ r.rsn = w.s.rsn
        /\ r.text = w.s.text /\ r.reason = b /\ r.calls = w.s.calls /\ r.n = w.s.n
        /\ r.google = w.s.google /\ r.final = w.s.final
    <3>1. w.s \in States /\ Owned(w.s) /\ w.s.rsn # None /\ b \in Seq(Frags)
      BY <1>0, <1>2, <1>5
    <3>. HIDE DEF u
    <3>2. QED  BY <3>1, ReasonOwned
  <2>. HIDE DEF r, u
  <2>2. u \in Works /\ u.s = r /\ u.ev = w.ev
    BY <1>0, <1>3, <2>1 DEF Works, r
  <2>3. ReasonDelta(w, ch) = Emit(u, "delta", w.s.rsn, told)
    <3>1. ReasonDelta(w, ch) = Emit(u, "delta", u.s.rsn, told)
      BY <1>5 DEF ReasonDelta, u, told
    <3>2. QED  BY <2>1, <2>2, <3>1
  <2>4. w.s.rsn \in 0..(w.s.next - 1) /\ w.s.rsn # w.s.msg
        /\ \A k \in DOMAIN w.s.calls : w.s.calls[k].idx # w.s.rsn
    BY <1>0, <1>5 DEF Owned
  <2>5. Tells(w.s, r, w.s.rsn, told.body)
    BY <1>0, <1>1, <1>2, <2>1, <2>4 DEF Tells
  <2>6. Fine(Emit(u, "delta", w.s.rsn, told), before)
        /\ Emit(u, "delta", w.s.rsn, told).s.google = u.s.google
        /\ Alike(r, Emit(u, "delta", w.s.rsn, told).s)
    BY <1>0, <1>1, <2>1, <2>2, <2>4, <2>5, FineDelta
  <2>7. QED  BY <1>2, <2>1, <2>2, <2>3, <2>6 DEF Reasoned, Alike
<1>6. CASE ch.reason /\ w.s.rsn = None
  <2>. DEFINE t0 == TakenRsn(w.s)
              t1 == WithReason(t0, b)
  <2>1. v = [s |-> t1, ev |-> w.ev]
    <3>1. [u EXCEPT !.s.rsn = w.s.next] = [s |-> [WithReason(w.s, b) EXCEPT !.rsn = w.s.next], ev |-> w.ev]
      <4>. HIDE DEF u
      <4>1. \A x, y : [[s |-> x, ev |-> y] EXCEPT !.s.rsn = w.s.next] = [s |-> [x EXCEPT !.rsn = w.s.next], ev |-> y]
        OBVIOUS
      <4>2. QED  BY <1>3, <4>1
    <3>. DEFINE a == [u EXCEPT !.s.rsn = w.s.next]
    <3>2. v = [a EXCEPT !.s.next = @ + 1]
      OBVIOUS
    <3>3. \A x, y : [[s |-> x, ev |-> y] EXCEPT !.s.next = @ + 1] = [s |-> [x EXCEPT !.next = @ + 1], ev |-> y]
      OBVIOUS
    <3>4. a = [s |-> [WithReason(w.s, b) EXCEPT !.rsn = w.s.next], ev |-> w.ev]
      BY <3>1
    <3>. HIDE DEF a, v, u
    <3>5. v = [s |-> [[WithReason(w.s, b) EXCEPT !.rsn = w.s.next] EXCEPT !.next = @ + 1], ev |-> w.ev]
      BY <3>2, <3>3, <3>4
    <3>6. t1 = [[WithReason(w.s, b) EXCEPT !.rsn = w.s.next] EXCEPT !.next = @ + 1]
      BY <1>0 DEF WithReason, TakenRsn, States
    <3>7. QED  BY <3>5, <3>6
  <2>. HIDE DEF v
  <2>2. /\ t0 \in States /\ Owned(t0) /\ t0.next = w.s.next + 1 /\ t0.rsn = w.s.next /\ t0.msg = w.s.msg
        /\ t0.text = w.s.text /\ t0.reason = w.s.reason /\ t0.calls = w.s.calls
        /\ t0.google = w.s.google /\ t0.final = w.s.final
    BY <1>0, <1>6, TakenRsnOwned
  <2>. HIDE DEF t0
  <2>3. t0.rsn # None
    BY <1>0, <2>2 DEF None
  <2>4. /\ t1 \in States /\ Owned(t1) /\ t1.next = t0.next /\ t1.msg = t0.msg /\ t1.rsn = t0.rsn
        /\ t1.text = t0.text /\ t1.reason = b /\ t1.calls = t0.calls /\ t1.n = t0.n
        /\ t1.google = t0.google /\ t1.final = t0.final
    BY <1>2, <2>2, <2>3, ReasonOwned
  <2>. HIDE DEF t1
  <2>5. Adds(w.s, t0)
    BY <1>0, <1>6, <2>2 DEF Adds
  <2>6. Tells(t0, t1, w.s.next, told.body)
    <3>1. t0.msg # t0.rsn \/ t0.msg = None
      BY <2>2 DEF Owned
    <3>2. \A k \in DOMAIN t0.calls : t0.calls[k].idx # w.s.next
      BY <2>2 DEF Owned
    <3>3. QED  BY <1>0, <1>1, <1>2, <2>2, <2>4, <3>1, <3>2 DEF Tells
  <2>7. Fine(Emit(o, "delta", w.s.next, told), before) /\ Alike(t1, o.s)
        /\ Emit(o, "delta", w.s.next, told).s.google = t1.google
        /\ Alike(t1, Emit(o, "delta", w.s.next, told).s)
    BY <1>1, <2>1, <2>2, <2>4, <2>5, <2>6, FineNew
  <2>8. ReasonDelta(w, ch) = Emit(o, "delta", o.s.rsn, told)
    BY <1>6 DEF ReasonDelta, told, v
  <2>. HIDE DEF o
  <2>9. o.s.rsn = w.s.next
    BY <2>2, <2>4, <2>7 DEF Alike
  <2>10. QED  BY <1>2, <2>2, <2>4, <2>7, <2>8, <2>9 DEF Reasoned, Alike
<1>7. QED  BY <1>4, <1>5, <1>6

LEMMA FineTextDelta ==
    ASSUME NEW w, NEW before, Fine(w, before), NEW ch
    PROVE  Fine(TextDelta(w, ch), before) /\ Keeps(w.s, TextDelta(w, ch).s)
<1>. DEFINE told == Message(<<"t">>)
            b == Append(w.s.text, "t")
            u == [w EXCEPT !.s.text = Append(@, "t")]
            v == [u EXCEPT !.s.msg = w.s.next, !.s.next = @ + 1]
            o == Emit(v, "added", w.s.next, Message(<<>>))
<1>0. /\ w \in Works /\ w.s \in States /\ w.ev \in Seq(Events) /\ before \in Seq(Events)
      /\ Open(w.s, before \o w.ev) /\ Owned(w.s) /\ ~w.s.final /\ w.s.next \in Nat
      /\ w.s.text \in Seq(Frags)
  BY DEF Fine, Works, Open, States
<1>1. told \in Items /\ told.body = <<"t">> /\ Message(<<>>) \in Items
  BY Bodies DEF Message
<1>2. b \in Seq(Frags) /\ b = w.s.text \o <<"t">>
  <2>1. "t" \in Frags
    BY DEF Frags
  <2>2. QED  BY <1>0, <2>1, OneMore
<1>3. u = [s |-> WithText(w.s, b), ev |-> w.ev]
  <2>1. w = [s |-> w.s, ev |-> w.ev]
    BY <1>0 DEF Works
  <2>2. \A x, y : [[s |-> x, ev |-> y] EXCEPT !.s.text = Append(@, "t")]
                  = [s |-> [x EXCEPT !.text = Append(@, "t")], ev |-> y]
    OBVIOUS
  <2>3. [[s |-> w.s, ev |-> w.ev] EXCEPT !.s.text = Append(@, "t")] = [s |-> WithText(w.s, b), ev |-> w.ev]
    BY <2>2 DEF WithText
  <2>4. QED  BY <2>1, <2>3
<1>. HIDE DEF told, b
<1>4. CASE ~ch.text
  BY <1>4 DEF TextDelta, Keeps
<1>5. CASE ch.text /\ w.s.msg # None
  <2>. DEFINE r == WithText(w.s, b)
  <2>1. /\ r \in States /\ Owned(r) /\ r.next = w.s.next /\ r.rsn = w.s.rsn /\ r.msg = w.s.msg
        /\ r.reason = w.s.reason /\ r.text = b /\ r.calls = w.s.calls /\ r.n = w.s.n
        /\ r.google = w.s.google /\ r.final = w.s.final
    <3>1. w.s \in States /\ Owned(w.s) /\ w.s.msg # None /\ b \in Seq(Frags)
      BY <1>0, <1>2, <1>5
    <3>. HIDE DEF u
    <3>2. QED  BY <3>1, TextOwned
  <2>. HIDE DEF r, u
  <2>2. u \in Works /\ u.s = r /\ u.ev = w.ev
    BY <1>0, <1>3, <2>1 DEF Works, r
  <2>3. TextDelta(w, ch) = Emit(u, "delta", w.s.msg, told)
    <3>1. TextDelta(w, ch) = Emit(u, "delta", u.s.msg, told)
      BY <1>5 DEF TextDelta, u, told
    <3>2. QED  BY <2>1, <2>2, <3>1
  <2>4. w.s.msg \in 0..(w.s.next - 1) /\ w.s.msg # w.s.rsn
        /\ \A k \in DOMAIN w.s.calls : w.s.calls[k].idx # w.s.msg
    BY <1>0, <1>5 DEF Owned
  <2>5. Tells(w.s, r, w.s.msg, told.body)
    BY <1>0, <1>1, <1>2, <2>1, <2>4 DEF Tells
  <2>6. Fine(Emit(u, "delta", w.s.msg, told), before)
        /\ Emit(u, "delta", w.s.msg, told).s.google = u.s.google
        /\ Alike(r, Emit(u, "delta", w.s.msg, told).s)
    BY <1>0, <1>1, <2>1, <2>2, <2>4, <2>5, FineDelta
  <2>7. QED  BY <2>1, <2>2, <2>3, <2>6 DEF Keeps, Alike
<1>6. CASE ch.text /\ w.s.msg = None
  <2>. DEFINE t0 == TakenMsg(w.s)
              t1 == WithText(t0, b)
  <2>1. v = [s |-> t1, ev |-> w.ev]
    <3>1. [u EXCEPT !.s.msg = w.s.next] = [s |-> [WithText(w.s, b) EXCEPT !.msg = w.s.next], ev |-> w.ev]
      <4>. HIDE DEF u
      <4>1. \A x, y : [[s |-> x, ev |-> y] EXCEPT !.s.msg = w.s.next] = [s |-> [x EXCEPT !.msg = w.s.next], ev |-> y]
        OBVIOUS
      <4>2. QED  BY <1>3, <4>1
    <3>. DEFINE a == [u EXCEPT !.s.msg = w.s.next]
    <3>2. v = [a EXCEPT !.s.next = @ + 1]
      OBVIOUS
    <3>3. \A x, y : [[s |-> x, ev |-> y] EXCEPT !.s.next = @ + 1] = [s |-> [x EXCEPT !.next = @ + 1], ev |-> y]
      OBVIOUS
    <3>4. a = [s |-> [WithText(w.s, b) EXCEPT !.msg = w.s.next], ev |-> w.ev]
      BY <3>1
    <3>. HIDE DEF a, v, u
    <3>5. v = [s |-> [[WithText(w.s, b) EXCEPT !.msg = w.s.next] EXCEPT !.next = @ + 1], ev |-> w.ev]
      BY <3>2, <3>3, <3>4
    <3>6. t1 = [[WithText(w.s, b) EXCEPT !.msg = w.s.next] EXCEPT !.next = @ + 1]
      BY <1>0 DEF WithText, TakenMsg, States
    <3>7. QED  BY <3>5, <3>6
  <2>. HIDE DEF v
  <2>2. /\ t0 \in States /\ Owned(t0) /\ t0.next = w.s.next + 1 /\ t0.msg = w.s.next /\ t0.rsn = w.s.rsn
        /\ t0.reason = w.s.reason /\ t0.text = w.s.text /\ t0.calls = w.s.calls
        /\ t0.google = w.s.google /\ t0.final = w.s.final
    BY <1>0, <1>6, TakenMsgOwned
  <2>. HIDE DEF t0
  <2>3. t0.msg # None
    BY <1>0, <2>2 DEF None
  <2>4. /\ t1 \in States /\ Owned(t1) /\ t1.next = t0.next /\ t1.rsn = t0.rsn /\ t1.msg = t0.msg
        /\ t1.reason = t0.reason /\ t1.text = b /\ t1.calls = t0.calls /\ t1.n = t0.n
        /\ t1.google = t0.google /\ t1.final = t0.final
    BY <1>2, <2>2, <2>3, TextOwned
  <2>. HIDE DEF t1
  <2>5. Adds(w.s, t0)
    BY <1>0, <1>6, <2>2 DEF Adds
  <2>6. Tells(t0, t1, w.s.next, told.body)
    <3>1. t0.rsn # t0.msg \/ t0.rsn = None
      BY <2>2 DEF Owned
    <3>2. \A k \in DOMAIN t0.calls : t0.calls[k].idx # w.s.next
      BY <2>2 DEF Owned
    <3>3. QED  BY <1>0, <1>1, <1>2, <2>2, <2>4, <3>1, <3>2 DEF Tells
  <2>7. Fine(Emit(o, "delta", w.s.next, told), before) /\ Alike(t1, o.s)
        /\ Emit(o, "delta", w.s.next, told).s.google = t1.google
        /\ Alike(t1, Emit(o, "delta", w.s.next, told).s)
    BY <1>1, <2>1, <2>2, <2>4, <2>5, <2>6, FineNew
  <2>8. TextDelta(w, ch) = Emit(o, "delta", o.s.msg, told)
    BY <1>6 DEF TextDelta, told, v
  <2>. HIDE DEF o
  <2>9. o.s.msg = w.s.next
    BY <2>2, <2>4, <2>7 DEF Alike
  <2>10. QED  BY <2>2, <2>4, <2>7, <2>8, <2>9 DEF Keeps, Alike
<1>7. QED  BY <1>4, <1>5, <1>6
---------------------------------------------------------------------------
(* The beginning of an answer, and a frame of it.                          *)
LEMMA FineWork ==
    ASSUME NEW st, NEW ev, Open(st, ev)
    PROVE  Fine(Work(st), ev)
<1>1. st \in States /\ ev \in Seq(Events)
  BY DEF Open, Hist
<1>2. <<>> \in Seq(Events) /\ ev \o <<>> = ev
  BY <1>1, ConcatEmptySeq
<1>3. Work(st).s = st /\ Work(st).ev = <<>> /\ Work(st) \in Works
  BY <1>1, <1>2 DEF Work, Works
<1>4. QED  BY <1>1, <1>2, <1>3 DEF Fine

LEMMA FineHandleChunk ==
    ASSUME NEW st, NEW ev, Open(st, ev), NEW ch \in Chunks
    PROVE  /\ Fine(HandleChunk(st, ch), ev) /\ HandleChunk(st, ch).s.google = st.google
           /\ Reasoned(st) => Reasoned(HandleChunk(st, ch).s)
<1>. DEFINE st2 == [st EXCEPT !.usage = @ \/ ch.usage]
            w == Carrier(Work(st2), ch)
<1>1. st \in States /\ ~st.final /\ Owned(st)
  BY DEF Open
<1>2. ch.usage \in BOOLEAN /\ ch.tools \in Seq(Tools)
  BY ChunksAssumption DEF Tools
<1>3. st2 \in States /\ Alike(st, st2) /\ st2.final = st.final /\ st2.google = st.google
  BY <1>1, <1>2 DEF States, Alike
<1>. HIDE DEF st2
<1>4. Owned(st2)
  BY <1>1, <1>3, OwnedAlike
<1>5. Hides(st, st2)
  BY <1>1, <1>3 DEF Hides, Alike
<1>6. Open(st2, ev)
  BY <1>3, <1>4, <1>5, OpenSilent
<1>7. Fine(Work(st2), ev) /\ Work(st2).s.google = st.google /\ (Reasoned(st) => Reasoned(Work(st2).s))
  BY <1>3, <1>6, FineWork DEF Work, Reasoned, Alike
<1>8. Fine(w, ev) /\ w.s.google = st.google /\ (Reasoned(st) => Reasoned(w.s))
  <2>1. Fine(w, ev) /\ w.s.google = st.google /\ (~st.google => Keeps(Work(st2).s, w.s))
    BY <1>7, FineCarrier
  <2>. HIDE DEF w
  <2>2. QED  BY <1>7, <2>1 DEF Keeps, Reasoned
<1>9. HandleChunk(st, ch) = TextDelta(ReasonDelta(ToolDeltas(w, ch.tools), ch), ch)
  BY <1>1 DEF HandleChunk, st2
<1>. HIDE DEF w
<1>10. /\ Fine(ToolDeltas(w, ch.tools), ev) /\ ToolDeltas(w, ch.tools).s.google = st.google
       /\ Reasoned(st) => Reasoned(ToolDeltas(w, ch.tools).s)
  <2>1. Fine(ToolDeltas(w, ch.tools), ev) /\ Keeps(w.s, ToolDeltas(w, ch.tools).s)
    BY <1>2, <1>8, FineToolDeltas
  <2>2. QED  BY <1>8, <2>1 DEF Keeps, Reasoned
<1>11. /\ Fine(ReasonDelta(ToolDeltas(w, ch.tools), ch), ev)
       /\ ReasonDelta(ToolDeltas(w, ch.tools), ch).s.google = st.google
       /\ Reasoned(st) => Reasoned(ReasonDelta(ToolDeltas(w, ch.tools), ch).s)
  BY <1>10, FineReasonDelta
<1>. DEFINE v == ReasonDelta(ToolDeltas(w, ch.tools), ch)
<1>12. /\ Fine(TextDelta(v, ch), ev) /\ TextDelta(v, ch).s.google = st.google
       /\ Reasoned(st) => Reasoned(TextDelta(v, ch).s)
  <2>1. Fine(v, ev) /\ v.s.google = st.google /\ (Reasoned(st) => Reasoned(v.s))
    BY <1>11
  <2>. HIDE DEF v
  <2>2. Fine(TextDelta(v, ch), ev) /\ Keeps(v.s, TextDelta(v, ch).s)
    BY <2>1, FineTextDelta
  <2>3. QED  BY <2>1, <2>2 DEF Keeps, Reasoned
<1>13. QED  BY <1>9, <1>12

LEMMA Renumbered ==
    ASSUME NEW st \in States, NEW m \in Nat
    PROVE  /\ [st EXCEPT !.n = m] \in States
           /\ Alike(st, [st EXCEPT !.n = m])
           /\ [st EXCEPT !.n = m].final = st.final
           /\ [st EXCEPT !.n = m].google = st.google
BY DEF States, Alike

LEMMA FineCreated ==
    ASSUME NEW st, NEW ev, Open(st, ev)
    PROVE  Fine(EmitCreated(st), ev) /\ EmitCreated(st).s.google = st.google /\ Alike(st, EmitCreated(st).s)
<1>. DEFINE w == Work(st)
            o == Emit(w, "created", None, <<>>)
            e == Event(w, "created", None, <<>>)
            r == [o EXCEPT !.s.n = st.n]
<1>1. st \in States /\ ev \in Seq(Events) /\ Fine(w, ev) /\ w.s = st /\ w.ev = <<>> /\ st.n \in Nat
  BY FineWork DEF Open, Hist, Work, States
<1>2. Emitted(w, ev, "created", None, <<>>, o)
  <2>1. None \in Int /\ <<>> \in Seq(Items) /\ w \in Works
    BY <1>1 DEF None, Fine
  <2>. HIDE DEF w
  <2>2. QED  BY <1>1, <2>1, EmitEvent
<1>3. e.type = "created"
  BY DEF Event
<1>4. EmitCreated(st) = IF st.google THEN o ELSE r
  BY DEF EmitCreated
<1>. HIDE DEF w, o, e
<1>5. e \in Events /\ o \in Works /\ o.s = [st EXCEPT !.n = @ + 1] /\ ev \o o.ev = Append(ev \o w.ev, e)
  BY <1>1, <1>2 DEF Emitted, e
<1>6. Open(st, Append(ev \o w.ev, e))
  <2>1. Open(st, ev \o w.ev)
    BY <1>1 DEF Fine
  <2>2. QED  BY <1>3, <1>5, <2>1, OpenCreated
<1>7. Owned(st) /\ ~st.final
  BY DEF Open
<1>8. ASSUME NEW t \in States, Alike(st, t), t.final = st.final, t.google = st.google
      PROVE  Open(t, ev \o o.ev)
  <2>1. Owned(t) /\ Hides(st, t)
    BY <1>7, <1>8, OwnedAlike DEF Hides, Alike
  <2>2. QED  BY <1>5, <1>6, <1>8, <2>1, OpenSilent
<1>9. Fine(o, ev) /\ o.s.google = st.google /\ Alike(st, o.s)
  <2>1. o.s \in States /\ Alike(st, o.s) /\ o.s.final = st.final /\ o.s.google = st.google
    BY <1>1, <1>5, Counted
  <2>2. QED  BY <1>1, <1>5, <1>8, <2>1 DEF Fine
<1>10. Fine(r, ev) /\ r.s.google = st.google /\ Alike(st, r.s)
  <2>1. o.s \in States /\ Alike(st, o.s) /\ o.s.final = st.final /\ o.s.google = st.google
    BY <1>1, <1>5, Counted
  <2>. DEFINE t == [o.s EXCEPT !.n = st.n]
  <2>2. t \in States /\ Alike(o.s, t) /\ t.final = o.s.final /\ t.google = o.s.google
    BY <1>1, <2>1, Renumbered
  <2>3. r = [s |-> t, ev |-> o.ev]
    BY <1>5 DEF Works
  <2>. HIDE DEF t, r
  <2>4. r.s = t /\ r.ev = o.ev /\ r \in Works
    BY <1>5, <2>2, <2>3 DEF Works
  <2>5. Alike(st, t) /\ t.final = st.final /\ t.google = st.google
    BY <2>1, <2>2 DEF Alike
  <2>6. Open(t, ev \o o.ev)
    BY <1>8, <2>2, <2>5
  <2>7. QED  BY <1>1, <2>4, <2>5, <2>6 DEF Fine
<1>11. QED  BY <1>4, <1>9, <1>10

LEMMA OpenNew ==
    ASSUME NEW g \in BOOLEAN
    PROVE  Open(NewState(g), <<>>) /\ NewState(g).google = g
<1>. DEFINE st == NewState(g)
<1>1. <<>> \in AllCalls
  <2>1. <<>> \in [{} -> Calls] /\ {} \in SUBSET Nat
    OBVIOUS
  <2>2. QED  BY <2>1 DEF AllCalls
<1>2. /\ st.n = 0 /\ st.next = 0 /\ st.msg = None /\ st.text = <<>> /\ st.rsn = None
      /\ st.reason = <<>> /\ DOMAIN st.calls = {} /\ ~st.final /\ st.google = g
  BY DEF NewState
<1>3. st \in States
  BY <1>1 DEF NewState, States, None
<1>. HIDE DEF st
<1>4. Owned(st)
  <2>1. 0..(0 - 1) = {}
    OBVIOUS
  <2>2. QED  BY <1>2, <2>1 DEF Owned
<1>5. Hist(st.next, <<>>)
  <2>1. 0..(0 - 1) = {} /\ <<>> \in Seq(Events) /\ Len(<<>>) = 0 /\ 1..0 = {}
    OBVIOUS
  <2>2. QED  BY <1>2, <2>1 DEF Hist
<1>6. \A x : Text(<<>>, x) = <<>>
  <2>1. TAKE x
  <2>2. <<>> \in Seq(Events) /\ Len(<<>>) = 0
    OBVIOUS
  <2>3. Told(<<>>, x)[0] = <<>>
    BY <2>2, ToldSteps
  <2>4. QED  BY <2>2, <2>3 DEF Text
<1>7. Texts(st, <<>>)
  BY <1>2, <1>6 DEF Texts
<1>8. QED  BY <1>2, <1>3, <1>4, <1>5, <1>7 DEF Open, st
---------------------------------------------------------------------------
(* The items that are open are as many as the indices given out, and they  *)
(* can be put in the order of the indices.                                 *)
Shut(st, p) ==
    \/ st.msg # None /\ p = <<st.msg, Message(st.text)>>
    \/ st.rsn # None /\ p = <<st.rsn, Reasoning(st.reason)>>
    \/ \E k \in DOMAIN st.calls : p = <<st.calls[k].idx, Call(st.calls[k].id, st.calls[k].args)>>

LEMMA OpenItemsAre ==
    ASSUME NEW st, NEW p
    PROVE  p \in OpenItems(st) <=> Shut(st, p)
<1>1. p \in OpenItems(st) <=>
        \/ p \in IF st.msg = None THEN {} ELSE {<<st.msg, Message(st.text)>>}
        \/ p \in IF st.rsn = None THEN {} ELSE {<<st.rsn, Reasoning(st.reason)>>}
        \/ p \in {<<st.calls[k].idx, Call(st.calls[k].id, st.calls[k].args)>> : k \in DOMAIN st.calls}
  BY DEF OpenItems
<1>2. (p \in IF st.msg = None THEN {} ELSE {<<st.msg, Message(st.text)>>})
        <=> st.msg # None /\ p = <<st.msg, Message(st.text)>>
  OBVIOUS
<1>3. (p \in IF st.rsn = None THEN {} ELSE {<<st.rsn, Reasoning(st.reason)>>})
        <=> st.rsn # None /\ p = <<st.rsn, Reasoning(st.reason)>>
  OBVIOUS
<1>4. p \in {<<st.calls[k].idx, Call(st.calls[k].id, st.calls[k].args)>> : k \in DOMAIN st.calls}
        <=> \E k \in DOMAIN st.calls : p = <<st.calls[k].idx, Call(st.calls[k].id, st.calls[k].args)>>
  OBVIOUS
<1>5. QED  BY <1>1, <1>2, <1>3, <1>4 DEF Shut

LEMMA OpenItemAt ==
    ASSUME NEW st \in States, Owned(st)
    PROVE  /\ \A p \in OpenItems(st) : p[1] \in 0..(st.next - 1) /\ p[2] \in Items
           /\ \A p, q \in OpenItems(st) : p[1] = q[1] => p = q
           /\ \A x \in 0..(st.next - 1) : \E p \in OpenItems(st) : p[1] = x
<1>1. /\ st.next \in Nat /\ st.text \in Seq(Frags) /\ st.reason \in Seq(Frags)
      /\ \A k \in DOMAIN st.calls : st.calls[k].id \in Ids /\ st.calls[k].args \in Seq(Frags)
  BY DEF States, AllCalls, Calls
<1>2. Message(st.text) \in Items /\ Reasoning(st.reason) \in Items
      /\ \A k \in DOMAIN st.calls : Call(st.calls[k].id, st.calls[k].args) \in Items
  BY <1>1, Bodies
<1>3. ASSUME NEW p \in OpenItems(st)  PROVE p[1] \in 0..(st.next - 1) /\ p[2] \in Items
  <2>1. Shut(st, p)
    BY OpenItemsAre
  <2>2. QED  BY <1>2, <2>1 DEF Shut, Owned
<1>4. ASSUME NEW p \in OpenItems(st), NEW q \in OpenItems(st), p[1] = q[1]  PROVE p = q
  <2>1. Shut(st, p) /\ Shut(st, q)
    BY OpenItemsAre
  <2>2. QED  BY <1>4, <2>1 DEF Shut, Owned
<1>5. ASSUME NEW x \in 0..(st.next - 1)  PROVE \E p \in OpenItems(st) : p[1] = x
  <2>0. x # None
    BY <1>1 DEF None
  <2>1. x = st.msg \/ x = st.rsn \/ \E k \in DOMAIN st.calls : st.calls[k].idx = x
    BY DEF Owned
  <2>2. \E p : Shut(st, p) /\ p[1] = x
    <3>1. CASE x = st.msg
      <4>. DEFINE p == <<st.msg, Message(st.text)>>
      <4>1. Shut(st, p) /\ p[1] = x
        BY <2>0, <3>1 DEF Shut
      <4>2. QED  BY <4>1
    <3>2. CASE x = st.rsn
      <4>. DEFINE p == <<st.rsn, Reasoning(st.reason)>>
      <4>1. Shut(st, p) /\ p[1] = x
        BY <2>0, <3>2 DEF Shut
      <4>2. QED  BY <4>1
    <3>3. CASE \E k \in DOMAIN st.calls : st.calls[k].idx = x
      <4>1. PICK k \in DOMAIN st.calls : st.calls[k].idx = x
        BY <3>3
      <4>. DEFINE p == <<st.calls[k].idx, Call(st.calls[k].id, st.calls[k].args)>>
      <4>2. Shut(st, p) /\ p[1] = x
        BY <4>1 DEF Shut
      <4>3. QED  BY <4>2
    <3>4. QED  BY <2>1, <3>1, <3>2, <3>3
  <2>3. QED  BY <2>2, OpenItemsAre
<1>6. QED  BY <1>3, <1>4, <1>5

InOrder(q, st) ==
    /\ q \in [1..st.next -> OpenItems(st)]
    /\ Range(q) = OpenItems(st)
    /\ \A i, j \in 1..st.next : i < j => q[i][1] < q[j][1]

LEMMA ItemsCounted ==
    ASSUME NEW st \in States, Owned(st)
    PROVE  Cardinality(OpenItems(st)) = st.next /\ \E q : InOrder(q, st)
<1>. DEFINE S == OpenItems(st)
            f == [i \in 1..st.next |-> CHOOSE p \in S : p[1] = i - 1]
<1>0. st.next \in Nat
  BY DEF States
<1>1. /\ \A p \in S : p[1] \in 0..(st.next - 1)
      /\ \A p, q \in S : p[1] = q[1] => p = q
      /\ \A x \in 0..(st.next - 1) : \E p \in S : p[1] = x
  BY OpenItemAt
<1>. HIDE DEF S
<1>2. \A i \in 1..st.next : f[i] \in S /\ f[i][1] = i - 1
  <2>1. TAKE i \in 1..st.next
  <2>2. i - 1 \in 0..(st.next - 1)
    BY <1>0
  <2>3. \E p \in S : p[1] = i - 1
    BY <1>1, <2>2
  <2>4. QED  BY <2>3
<1>3. f \in [1..st.next -> S]
  <2>1. f = [i \in 1..st.next |-> f[i]]
    OBVIOUS
  <2>. HIDE DEF f
  <2>2. QED  BY <1>2, <2>1
<1>. HIDE DEF f
<1>4. \A p \in S : \E i \in 1..st.next : f[i] = p
  <2>1. TAKE p \in S
  <2>2. p[1] \in 0..(st.next - 1)
    BY <1>1
  <2>3. p[1] + 1 \in 1..st.next /\ (p[1] + 1) - 1 = p[1]
    BY <1>0, <2>2
  <2>4. f[p[1] + 1] \in S /\ f[p[1] + 1][1] = p[1]
    BY <1>2, <2>3
  <2>5. QED  BY <1>1, <2>3, <2>4
<1>5. \A i, j \in 1..st.next : f[i] = f[j] => i = j
  BY <1>0, <1>2
<1>6. f \in Bijection(1..st.next, S)
  BY <1>3, <1>4, <1>5, Fun_IsBij
<1>7. ExistsBijection(1..st.next, S)
  BY <1>6, Fun_ExistsBij
<1>8. Cardinality(S) = st.next
  BY <1>0, <1>7, FS_CountingElements
<1>9. Range(f) = S
  BY <1>3, <1>4 DEF Range
<1>10. \A i, j \in 1..st.next : i < j => f[i][1] < f[j][1]
  BY <1>0, <1>2
<1>11. QED  BY <1>3, <1>8, <1>9, <1>10 DEF InOrder, S

LEMMA ClosingInOrder ==
    ASSUME NEW st \in States, Owned(st)
    PROVE  InOrder(Closing(st), st)
<1>. DEFINE open == OpenItems(st)
            Fits(q) == /\ Range(q) = open
                       /\ \A i, j \in DOMAIN q : i < j => q[i][1] < q[j][1]
            Q == [1..Cardinality(open) -> open]
<1>1. Closing(st) = CHOOSE q \in Q : Fits(q)
  BY DEF Closing
<1>2. Cardinality(open) = st.next
  BY ItemsCounted
<1>3. PICK f : InOrder(f, st)
  BY ItemsCounted
<1>4. f \in Q /\ Fits(f)
  BY <1>2, <1>3 DEF InOrder
<1>5. Closing(st) \in Q /\ Fits(Closing(st))
  <2>. HIDE DEF Q, Fits
  <2>1. QED  BY <1>1, <1>4
<1>6. QED  BY <1>2, <1>5 DEF InOrder

LEMMA OutputOf ==
    ASSUME NEW st \in States, Owned(st)
    PROVE  /\ Output(st) \in Seq(Items)
           /\ DOMAIN Output(st) = 1..st.next
           /\ \A i \in 1..st.next : Output(st)[i] = Closing(st)[i][2]
           /\ \A i \in 1..st.next : \E p \in OpenItems(st) : Output(st)[i] = p[2]
           /\ \A p \in OpenItems(st) : \E i \in 1..st.next : Output(st)[i] = p[2]
<1>. DEFINE q == Closing(st)
            o == Output(st)
<1>0. st.next \in Nat
  BY DEF States
<1>1. InOrder(q, st)
  BY ClosingInOrder
<1>2. o = [i \in DOMAIN q |-> q[i][2]]
  BY DEF Output
<1>. HIDE DEF q, o
<1>3. DOMAIN q = 1..st.next /\ \A i \in 1..st.next : q[i] \in OpenItems(st)
  BY <1>1 DEF InOrder
<1>4. \A i \in 1..st.next : o[i] = q[i][2] /\ o[i] \in Items
  BY <1>2, <1>3, OpenItemAt
<1>5. DOMAIN o = 1..st.next /\ o \in [1..st.next -> Items]
  BY <1>2, <1>3, <1>4
<1>6. o \in Seq(Items)
  BY <1>0, <1>5
<1>7. \A p \in OpenItems(st) : \E i \in 1..st.next : q[i] = p
  BY <1>1, <1>3 DEF InOrder, Range
<1>8. QED  BY <1>3, <1>4, <1>5, <1>6, <1>7 DEF q, o
---------------------------------------------------------------------------
(* The end of an answer: the items are closed, and then it is over.        *)
Closed(st, ev, D) ==
    /\ D \in Seq(Events)
    /\ \A i \in 1..Len(D) :
         /\ D[i].type = "done" /\ D[i].idx \in 0..(st.next - 1)
         /\ D[i].item.id \notin Custom \/ ~st.google => Text(ev, D[i].idx) = D[i].item.body
    /\ \A i, j \in 1..Len(D) : i < j => D[i].idx < D[j].idx

LEMMA WellOpen ==
    ASSUME NEW st, NEW ev, Open(st, ev)
    PROVE  WellFormed(ev, st.google)
<1>1. ev \in Seq(Events) /\ \A i \in 1..Len(ev) : HistAt(st.next, ev, i)
  BY DEF Open, Hist
<1>2. Len(ev) \in Nat
  BY <1>1, LenProperties
<1>3. \A i \in 1..Len(ev) : ev[i].type \notin Terminals /\ ev[i].type # "done"
  BY <1>1 DEF HistAt, Terminals
<1>4. ASSUME NEW i \in 1..Len(ev), NEW j \in 1..Len(ev), i < j, ev[i].idx = ev[j].idx,
             ev[i].type \in Kinds, ev[j].type \in Kinds
      PROVE  ev[j].type # "added"
  <2>1. i \in 1..(j - 1) /\ ev[i].type # "created"
    BY <1>2, <1>4 DEF Kinds
  <2>2. HistAt(st.next, ev, j)
    BY <1>1
  <2>3. QED  BY <1>4, <2>1, <2>2 DEF HistAt
<1>5. \A i \in 1..Len(ev) : ev[i].type = "delta" =>
        \E j \in 1..(i - 1) : ev[j].type = "added" /\ ev[j].idx = ev[i].idx
  BY <1>1 DEF HistAt
<1>6. QED  BY <1>3, <1>4, <1>5 DEF WellFormed

LEMMA WellEnded ==
    ASSUME NEW st, NEW ev, Open(st, ev), NEW D, Closed(st, ev, D),
           NEW e \in Events, e.type \in Terminals
    PROVE  WellFormed(ev \o Append(D, e), st.google)
<1>. DEFINE h == ev \o Append(D, e)
            m == Len(ev)
            d == Len(D)
<1>1. /\ ev \in Seq(Events) /\ D \in Seq(Events) /\ Append(D, e) \in Seq(Events)
      /\ Len(Append(D, e)) = d + 1 /\ Append(D, e)[d + 1] = e
      /\ \A i \in 1..d : Append(D, e)[i] = D[i]
  BY AppendProperties DEF Open, Hist, Closed
<1>2. m \in Nat /\ d \in Nat /\ st.next \in Nat
  BY <1>1, LenProperties DEF Open, States
<1>3. /\ h \in Seq(Events) /\ Len(h) = m + (d + 1)
      /\ \A i \in 1..(m + (d + 1)) : h[i] = IF i <= m THEN ev[i] ELSE Append(D, e)[i - m]
  <2>. DEFINE a == Append(D, e)
  <2>1. a \in Seq(Events) /\ Len(a) = d + 1
    BY <1>1
  <2>. HIDE DEF a
  <2>2. ev \o a \in Seq(Events) /\ Len(ev \o a) = Len(ev) + Len(a)
        /\ \A i \in 1..(Len(ev) + Len(a)) : (ev \o a)[i] = IF i <= Len(ev) THEN ev[i] ELSE a[i - Len(ev)]
    BY <1>1, <2>1, ConcatProperties
  <2>3. QED  BY <2>1, <2>2 DEF a
<1>. HIDE DEF h, m, d
<1>4. /\ \A i \in 1..m : h[i] = ev[i] /\ i \in 1..Len(ev)
      /\ \A i \in (m + 1)..(m + d) : h[i] = D[i - m] /\ i - m \in 1..Len(D)
      /\ h[m + d + 1] = e
      /\ \A i \in 1..Len(h) : i \in 1..m \/ i \in (m + 1)..(m + d) \/ i = Len(h)
      /\ Len(h) = m + d + 1
  <2>1. \A i \in 1..m : h[i] = ev[i] /\ i \in 1..Len(ev)
    BY <1>2, <1>3 DEF m
  <2>2. \A i \in (m + 1)..(m + d) : h[i] = D[i - m] /\ i - m \in 1..Len(D)
    <3>1. TAKE i \in (m + 1)..(m + d)
    <3>2. i \in 1..(m + (d + 1)) /\ ~(i <= m) /\ i - m \in 1..d
      BY <1>2
    <3>3. h[i] = Append(D, e)[i - m] /\ Append(D, e)[i - m] = D[i - m]
      BY <1>1, <1>3, <3>2
    <3>4. QED  BY <3>2, <3>3 DEF d
  <2>3. h[m + d + 1] = e
    <3>1. m + d + 1 \in 1..(m + (d + 1)) /\ ~(m + d + 1 <= m) /\ (m + d + 1) - m = d + 1
      BY <1>2
    <3>2. QED  BY <1>1, <1>3, <3>1
  <2>4. Len(h) = m + d + 1 /\ \A i \in 1..Len(h) : i \in 1..m \/ i \in (m + 1)..(m + d) \/ i = Len(h)
    BY <1>2, <1>3
  <2>5. QED  BY <2>1, <2>2, <2>3, <2>4
<1>5. /\ \A i \in 1..m : h[i].type \in {"created", "added", "delta"}
      /\ \A i \in (m + 1)..(m + d) : h[i].type = "done" /\ h[i].idx \in 0..(st.next - 1)
      /\ h[Len(h)].type \in Terminals
  <2>1. \A i \in 1..m : HistAt(st.next, ev, i)
    BY <1>4 DEF Open, Hist
  <2>2. QED  BY <1>4, <2>1 DEF HistAt, Closed
<1>6. /\ \A i \in 1..Len(h) : h[i].type \in Terminals => i = Len(h)
      /\ \A i \in 1..Len(h) : h[i].type = "done" => i \in (m + 1)..(m + d)
      /\ \A i \in 1..Len(h) : h[i].type \in {"added", "delta"} => i \in 1..m
      /\ \A i \in 1..Len(h) : h[i].type \in Kinds => i \in 1..(m + d)
  <2>1. \A i \in 1..m : h[i].type \notin Terminals /\ h[i].type # "done" /\ i \in 1..(m + d)
    BY <1>2, <1>5 DEF Terminals
  <2>2. \A i \in (m + 1)..(m + d) : h[i].type \notin Terminals \cup {"added", "delta"} /\ i \in 1..(m + d)
    BY <1>2, <1>5 DEF Terminals
  <2>3. h[Len(h)].type \notin Kinds \cup {"done", "added", "delta"}
    BY <1>5 DEF Terminals, Kinds
  <2>4. QED  BY <1>4, <2>1, <2>2, <2>3
<1>7. ASSUME NEW i \in 1..Len(h), NEW j \in 1..Len(h), i < j, h[i].type = "done", h[j].type = "done"
      PROVE  h[i].idx < h[j].idx
  <2>1. i \in (m + 1)..(m + d) /\ j \in (m + 1)..(m + d)
    BY <1>6, <1>7
  <2>2. i - m < j - m
    BY <1>2, <1>7, <2>1
  <2>3. QED  BY <1>4, <2>1, <2>2 DEF Closed
<1>8. ASSUME NEW i \in 1..Len(h), NEW j \in 1..Len(h), i < j, h[i].idx = h[j].idx,
             h[i].type \in Kinds, h[j].type \in Kinds
      PROVE  h[i].type # "done" /\ h[j].type # "added"
  <2>1. CASE h[i].type = "done"
    <3>1. i \in (m + 1)..(m + d) /\ j \in 1..(m + d)
      BY <1>6, <1>8, <2>1
    <3>2. j \in (m + 1)..(m + d)
      BY <1>2, <1>8, <3>1
    <3>3. h[j].type = "done"
      BY <1>5, <3>2
    <3>4. h[i].idx < h[j].idx
      BY <1>7, <1>8, <2>1, <3>3
    <3>5. h[i].idx \in Int
      BY <1>2, <1>5, <3>1
    <3>6. QED  BY <1>8, <3>4, <3>5
  <2>2. CASE h[j].type = "added"
    <3>1. j \in 1..m /\ i \in 1..(j - 1) /\ i \in 1..m
      BY <1>2, <1>4, <1>6, <1>8, <2>2
    <3>2. HistAt(st.next, ev, j) /\ h[j] = ev[j] /\ h[i] = ev[i]
      BY <1>4, <3>1 DEF Open, Hist
    <3>3. h[i].type # "created"
      BY <1>8 DEF Kinds
    <3>4. QED  BY <1>8, <2>2, <3>1, <3>2, <3>3 DEF HistAt
  <2>3. QED  BY <2>1, <2>2
<1>9. ASSUME NEW i \in 1..Len(h), h[i].type \in {"delta", "done"}
      PROVE  \E j \in 1..(i - 1) : h[j].type = "added" /\ h[j].idx = h[i].idx
  <2>1. CASE h[i].type = "delta"
    <3>1. i \in 1..m /\ HistAt(st.next, ev, i)
      BY <1>4, <1>6, <2>1 DEF Open, Hist
    <3>2. \A j \in 1..(i - 1) : h[j] = ev[j]
      BY <1>2, <1>4, <3>1
    <3>3. QED  BY <1>4, <2>1, <3>1, <3>2 DEF HistAt
  <2>2. CASE h[i].type = "done"
    <3>1. i \in (m + 1)..(m + d) /\ h[i].idx \in 0..(st.next - 1)
      BY <1>5, <1>6, <2>2
    <3>2. PICK j \in 1..Len(ev) : ev[j].type = "added" /\ ev[j].idx = h[i].idx
      BY <3>1 DEF Open, Hist
    <3>3. j \in 1..m /\ j \in 1..(i - 1)
      BY <1>2, <3>1 DEF m
    <3>4. QED  BY <1>4, <3>2, <3>3
  <2>3. QED  BY <1>9, <2>1, <2>2
<1>10. ASSUME NEW i \in 1..Len(h), h[i].type = "done", h[i].item.id \notin Custom \/ ~st.google,
              NEW n \in i..Len(h)
       PROVE  Told(h, h[i].idx)[n] = h[i].item.body
  <2>1. i \in (m + 1)..(m + d)
    BY <1>6, <1>10
  <2>2. Text(ev, h[i].idx) = h[i].item.body
    BY <1>4, <1>10, <2>1 DEF Closed
  <2>3. m \in 0..Len(h) /\ m \in 0..Len(ev) /\ n \in m..Len(h) /\ Len(ev) <= Len(h)
    BY <1>2, <1>4, <2>1 DEF m
  <2>4. \A k \in 1..Len(ev) : h[k] = ev[k]
    BY <1>4 DEF m
  <2>5. \A k \in (m + 1)..Len(h) : h[k].type # "delta"
    BY <1>2, <1>4, <1>6
  <2>6. Told(h, h[i].idx)[n] = Told(h, h[i].idx)[m]
    BY <1>3, <2>3, <2>5, ToldQuiet
  <2>7. Told(h, h[i].idx)[m] = Told(ev, h[i].idx)[m]
    BY <1>1, <1>3, <2>3, <2>4, ToldBefore
  <2>8. QED  BY <2>2, <2>6, <2>7 DEF Text, m
<1>11. WellFormed(h, st.google)
  BY <1>6, <1>7, <1>8, <1>9, <1>10 DEF WellFormed
<1>12. QED  BY <1>11 DEF h

(* How a step that ends an answer leaves it.                               *)
Over(o, st, ev, type, item) ==
    /\ o \in Works /\ o.s.final /\ o.s.google = st.google /\ Alike(st, o.s)
    /\ WellFormed(ev \o o.ev, st.google)
    /\ ev \o o.ev \in Seq(Events) /\ ev \o o.ev # <<>>
    /\ (ev \o o.ev)[Len(ev \o o.ev)].type = type
    /\ (ev \o o.ev)[Len(ev \o o.ev)].item = item

LEMMA TerminalOver ==
    ASSUME NEW st, NEW ev, Open(st, ev), NEW w \in Works, Closed(st, ev, w.ev),
           Alike(st, w.s), w.s.google = st.google, NEW type \in Terminals,
           NEW item \in Seq(Items) \cup {WithoutCalls(q) : q \in Seq(Items)}
    PROVE  Over(Terminal(w, type, item), st, ev, type, item)
<1>. DEFINE u == [w EXCEPT !.s.final = TRUE]
            e == Event(u, type, None, item)
            o == Emit(u, type, None, item)
            h == ev \o o.ev
<1>1. ev \in Seq(Events)
  BY DEF Open, Hist
<1>2. u \in Works /\ u.ev = w.ev /\ u.s.final /\ u.s.google = w.s.google /\ Alike(w.s, u.s)
  BY DEF Works, States, Alike
<1>3. Terminal(w, type, item) = o
  BY DEF Terminal
<1>4. e.type = type /\ e.item = item
  BY DEF Event
<1>. HIDE DEF u, o
<1>5. Emitted(u, ev, type, None, item, o)
  <2>1. None \in Int
    BY DEF None
  <2>2. type \in {"created", "added", "delta"} \cup Terminals
        /\ item \in Items \cup Seq(Items) \cup {WithoutCalls(q) : q \in Seq(Items)}
    OBVIOUS
  <2>3. QED  BY <1>1, <1>2, <2>1, <2>2, EmitEvent DEF o
<1>6. /\ e \in Events /\ o \in Works /\ o.s = [u.s EXCEPT !.n = @ + 1]
      /\ o.ev = Append(w.ev, e) /\ h = Append(ev \o w.ev, e)
  BY <1>2, <1>5 DEF Emitted
<1>. HIDE DEF e
<1>7. Alike(u.s, o.s) /\ o.s.final = u.s.final /\ o.s.google = u.s.google
  BY <1>2, <1>6, Counted DEF Works
<1>8. Alike(st, o.s) /\ o.s.final /\ o.s.google = st.google
  BY <1>2, <1>7 DEF Alike
<1>9. WellFormed(h, st.google)
  <2>1. WellFormed(ev \o Append(w.ev, e), st.google)
    BY <1>4, <1>6, WellEnded
  <2>2. QED  BY <1>6, <2>1
<1>10. ev \o w.ev \in Seq(Events)
  <2>1. w.ev \in Seq(Events)
    BY DEF Works
  <2>2. QED  BY <1>1, <2>1, ConcatProperties
<1>. DEFINE b == ev \o w.ev
<1>. HIDE DEF b
<1>11. Append(b, e) \in Seq(Events) /\ Append(b, e) # <<>>
       /\ Append(b, e)[Len(Append(b, e))] = e
  <2>1. b \in Seq(Events)
    BY <1>10 DEF b
  <2>2. Append(b, e) \in Seq(Events) /\ Len(Append(b, e)) = Len(b) + 1
        /\ Append(b, e)[Len(b) + 1] = e
    BY <1>6, <2>1, AppendProperties
  <2>3. QED  BY <1>6, <2>1, <2>2
<1>12. h \in Seq(Events) /\ h # <<>> /\ h[Len(h)] = e
  BY <1>6, <1>11 DEF b
<1>13. QED  BY <1>3, <1>4, <1>6, <1>8, <1>9, <1>12 DEF Over
---------------------------------------------------------------------------
(* The ways to end.                                                        *)
LEMMA Pairs2 ==
    ASSUME NEW x, NEW y
    PROVE  <<x, y>>[1] = x /\ <<x, y>>[2] = y
OBVIOUS

LEMMA BodiesAre ==
    ASSUME NEW b
    PROVE  /\ Message(b).body = b /\ Message(b).kind = "message"
           /\ Reasoning(b).body = b /\ Reasoning(b).kind = "reasoning"
BY DEF Message, Reasoning

LEMMA PlainOver ==
    ASSUME NEW st, NEW ev, Open(st, ev), NEW type \in Terminals,
           NEW item \in Seq(Items) \cup {WithoutCalls(q) : q \in Seq(Items)}
    PROVE  Over(Terminal(Work(st), type, item), st, ev, type, item)
<1>1. Work(st) \in Works /\ Work(st).ev = <<>> /\ Work(st).s = st
  BY FineWork DEF Fine, Work
<1>2. <<>> \in Seq(Events) /\ Len(<<>>) = 0 /\ 1..0 = {}
  OBVIOUS
<1>3. Closed(st, ev, <<>>)
  BY <1>2 DEF Closed
<1>4. Alike(st, st)
  BY DEF Alike
<1>5. QED  BY <1>1, <1>3, <1>4, TerminalOver

LEMMA FailedOver ==
    ASSUME NEW st, NEW ev, Open(st, ev)
    PROVE  Over(EmitFailed(st), st, ev, "failed", <<>>)
<1>1. ~st.final /\ "failed" \in Terminals /\ <<>> \in Seq(Items)
  BY DEF Open, Terminals
<1>2. EmitFailed(st) = Terminal(Work(st), "failed", <<>>)
  BY <1>1 DEF EmitFailed
<1>3. QED  BY <1>1, <1>2, PlainOver

LEMMA IncompleteOver ==
    ASSUME NEW st, NEW ev, Open(st, ev)
    PROVE  Over(EmitIncomplete(st), st, ev, "incomplete", WithoutCalls(Output(st)))
<1>1. ~st.final /\ "incomplete" \in Terminals /\ st \in States /\ Owned(st)
  BY DEF Open, Terminals
<1>2. Output(st) \in Seq(Items)
  BY <1>1, OutputOf
<1>3. EmitIncomplete(st) = Terminal(Work(st), "incomplete", WithoutCalls(Output(st)))
  BY <1>1 DEF EmitIncomplete
<1>4. QED  BY <1>1, <1>2, <1>3, PlainOver

LEMMA ErrorOver ==
    ASSUME NEW st, NEW ev, Open(st, ev)
    PROVE  Over(Terminal(Work(st), "error", <<>>), st, ev, "error", <<>>)
<1>1. "error" \in Terminals /\ <<>> \in Seq(Items)
  BY DEF Terminals
<1>2. QED  BY <1>1, PlainOver

DoneEvents(st) ==
    [i \in DOMAIN Closing(st) |-> [type |-> "done", idx |-> Closing(st)[i][1],
                                   n |-> st.n + i, item |-> Closing(st)[i][2]]]

LEMMA DonesClosed ==
    ASSUME NEW st, NEW ev, Open(st, ev)
    PROVE  Closed(st, ev, DoneEvents(st)) /\ Len(DoneEvents(st)) = st.next
<1>. DEFINE q == Closing(st)
            D == DoneEvents(st)
<1>1. st \in States /\ Owned(st) /\ Texts(st, ev) /\ st.next \in Nat /\ st.n \in Nat
  BY DEF Open, States
<1>2. InOrder(q, st)
  BY <1>1, ClosingInOrder
<1>3. D = [i \in DOMAIN q |-> [type |-> "done", idx |-> q[i][1], n |-> st.n + i, item |-> q[i][2]]]
  BY DEF DoneEvents
<1>. HIDE DEF q, D
<1>4. DOMAIN q = 1..st.next /\ \A i \in 1..st.next : q[i] \in OpenItems(st)
  BY <1>2 DEF InOrder
<1>5. \A i \in 1..st.next : /\ D[i].type = "done" /\ D[i].idx = q[i][1] /\ D[i].item = q[i][2]
                            /\ D[i] \in Events
  <2>1. TAKE i \in 1..st.next
  <2>2. D[i] = [type |-> "done", idx |-> q[i][1], n |-> st.n + i, item |-> q[i][2]]
    BY <1>3, <1>4
  <2>3. q[i][1] \in Int /\ q[i][2] \in Items /\ st.n + i \in Nat
    BY <1>1, <1>4, OpenItemAt
  <2>4. QED  BY <2>2, <2>3 DEF Events, Kinds
<1>6. D \in [1..st.next -> Events]
  BY <1>3, <1>4, <1>5
<1>7. D \in Seq(Events) /\ Len(D) = st.next
  BY <1>1, <1>6, LenProperties
<1>8. \A i \in 1..st.next : q[i][1] \in 0..(st.next - 1)
  BY <1>1, <1>4, OpenItemAt
<1>9. ASSUME NEW i \in 1..st.next, q[i][2].id \notin Custom \/ ~st.google
      PROVE  Text(ev, q[i][1]) = q[i][2].body
  <2>1. Shut(st, q[i])
    BY <1>4, OpenItemsAre
  <2>2. CASE st.msg # None /\ q[i] = <<st.msg, Message(st.text)>>
    <3>1. q[i][1] = st.msg /\ q[i][2].body = st.text
      BY <2>2, Pairs2, BodiesAre
    <3>2. Text(ev, st.msg) = st.text
      BY <1>1, <2>2 DEF Texts
    <3>3. QED  BY <3>1, <3>2
  <2>3. CASE st.rsn # None /\ q[i] = <<st.rsn, Reasoning(st.reason)>>
    <3>1. q[i][1] = st.rsn /\ q[i][2].body = st.reason
      BY <2>3, Pairs2, BodiesAre
    <3>2. Text(ev, st.rsn) = st.reason
      BY <1>1, <2>3 DEF Texts
    <3>3. QED  BY <3>1, <3>2
  <2>4. CASE \E k \in DOMAIN st.calls : q[i] = <<st.calls[k].idx, Call(st.calls[k].id, st.calls[k].args)>>
    BY <1>1, <1>9, <2>4 DEF Texts, Call
  <2>5. QED  BY <2>1, <2>2, <2>3, <2>4 DEF Shut
<1>10. \A i, j \in 1..st.next : i < j => D[i].idx < D[j].idx
  BY <1>2, <1>5 DEF InOrder
<1>11. QED  BY <1>5, <1>7, <1>8, <1>9, <1>10 DEF Closed, D

LEMMA CompletedOver ==
    ASSUME NEW st, NEW ev, Open(st, ev)
    PROVE  Over(EmitCompleted(st), st, ev, "completed", Output(st))
<1>. DEFINE D == DoneEvents(st)
            t == [st EXCEPT !.n = @ + Len(D)]
            w == [s |-> t, ev |-> D]
<1>1. ~st.final /\ "completed" \in Terminals /\ st \in States /\ Owned(st) /\ st.n \in Nat /\ st.next \in Nat
  BY DEF Open, Terminals, States
<1>2. Closed(st, ev, D) /\ Len(D) = st.next
  BY DonesClosed
<1>3. Output(st) \in Seq(Items)
  BY <1>1, OutputOf
<1>4. EmitCompleted(st) = Terminal(w, "completed", Output(st))
  BY <1>1 DEF EmitCompleted, DoneEvents
<1>. HIDE DEF D
<1>5. t = [st EXCEPT !.n = st.n + Len(D)] /\ st.n + Len(D) \in Nat
  BY <1>1, <1>2
<1>. HIDE DEF t
<1>6. t \in States /\ Alike(st, t) /\ t.google = st.google
  BY <1>1, <1>5, Renumbered
<1>7. w \in Works /\ w.s = t /\ w.ev = D
  BY <1>2, <1>6 DEF Works, Closed
<1>. HIDE DEF w
<1>8. QED  BY <1>1, <1>2, <1>3, <1>4, <1>6, <1>7, TerminalOver

(* An answer of Google's that is complete has calls that are whole, and    *)
(* something else than reasoning.                                          *)
Good(items) ==
    /\ \A i \in DOMAIN items :
         items[i].kind = "call" => items[i].id \in Declared /\ Whole(items[i].body)
    /\ \E i \in DOMAIN items : items[i].kind # "reasoning"

LEMMA GoodOutput ==
    ASSUME NEW st \in States, Owned(st), ValidCalls(st), st.text # <<>> \/ DOMAIN st.calls # {}
    PROVE  Good(Output(st))
<1>1. /\ DOMAIN Output(st) = 1..st.next
      /\ \A i \in 1..st.next : \E p \in OpenItems(st) : Output(st)[i] = p[2]
      /\ \A p \in OpenItems(st) : \E i \in 1..st.next : Output(st)[i] = p[2]
  BY OutputOf
<1>2. ASSUME NEW i \in DOMAIN Output(st), Output(st)[i].kind = "call"
      PROVE  Output(st)[i].id \in Declared /\ Whole(Output(st)[i].body)
  <2>1. PICK p \in OpenItems(st) : Output(st)[i] = p[2]
    BY <1>1
  <2>2. Shut(st, p)
    BY OpenItemsAre
  <2>3. \E k \in DOMAIN st.calls : p = <<st.calls[k].idx, Call(st.calls[k].id, st.calls[k].args)>>
    <3>1. p[2].kind = "call"
      BY <1>2, <2>1
    <3>2. p # <<st.msg, Message(st.text)>>
      BY <3>1, Pairs2, BodiesAre
    <3>3. p # <<st.rsn, Reasoning(st.reason)>>
      BY <3>1, Pairs2, BodiesAre
    <3>4. QED  BY <2>2, <3>2, <3>3 DEF Shut
  <2>4. QED  BY <2>1, <2>3 DEF Call, ValidCalls
<1>3. \E p : Shut(st, p) /\ p[2].kind # "reasoning"
  <2>1. CASE st.text # <<>>
    <3>. DEFINE p == <<st.msg, Message(st.text)>>
    <3>1. Shut(st, p) /\ p[2].kind # "reasoning"
      BY <2>1 DEF Shut, Message, Owned
    <3>2. QED  BY <3>1
  <2>2. CASE DOMAIN st.calls # {}
    <3>1. PICK k \in DOMAIN st.calls : TRUE
      BY <2>2
    <3>. DEFINE p == <<st.calls[k].idx, Call(st.calls[k].id, st.calls[k].args)>>
    <3>2. Shut(st, p) /\ p[2].kind # "reasoning"
      BY DEF Shut, Call
    <3>3. QED  BY <3>2
  <2>3. QED  BY <2>1, <2>2
<1>4. PICK p \in OpenItems(st) : p[2].kind # "reasoning"
  BY <1>3, OpenItemsAre
<1>5. \E i \in DOMAIN Output(st) : Output(st)[i].kind # "reasoning"
  BY <1>1, <1>4
<1>6. QED  BY <1>2, <1>5 DEF Good

LEMMA GoogleOver ==
    ASSUME NEW st, NEW ev, Open(st, ev), NEW reason
    PROVE  \E type, item : Over(FinishGoogle(st, reason), st, ev, type, item)
                           /\ (type = "completed" => Good(item))
<1>1. st \in States /\ Owned(st)
  BY DEF Open
<1>. DEFINE bad == \/ reason # "stop" /\ ~(reason = "none" /\ DOMAIN st.calls # {} /\ st.usage)
                   \/ ~ValidCalls(st)
                   \/ st.text = <<>> /\ DOMAIN st.calls = {}
<1>2. CASE reason = "max"
  <2>1. FinishGoogle(st, reason) = EmitIncomplete(st)
    BY <1>2 DEF FinishGoogle
  <2>2. QED  BY <2>1, IncompleteOver
<1>3. CASE reason # "max" /\ bad
  <2>1. FinishGoogle(st, reason) = EmitFailed(st)
    BY <1>3 DEF FinishGoogle
  <2>2. QED  BY <2>1, FailedOver
<1>4. CASE reason # "max" /\ ~bad
  <2>1. FinishGoogle(st, reason) = EmitCompleted(st)
    BY <1>4 DEF FinishGoogle
  <2>2. Good(Output(st))
    BY <1>1, <1>4, GoodOutput
  <2>3. QED  BY <2>1, <2>2, CompletedOver
<1>5. QED  BY <1>2, <1>3, <1>4

LEMMA OutputSendable ==
    ASSUME NEW st \in States, Owned(st), Reasoned(st), ~st.google
    PROVE  Sendable(Output(st))
<1>. DEFINE o == Output(st)
            n == st.next
<1>1. /\ o \in Seq(Items) /\ DOMAIN o = 1..n /\ n \in Nat
      /\ \A i \in 1..n : \E p \in OpenItems(st) : o[i] = p[2]
  BY OutputOf DEF States
<1>. HIDE DEF o, n
<1>2. Len(o) \in Nat /\ \A i \in 1..n : o[i] \in Items
  BY <1>1, LenProperties, ElementOfSeq
<1>3. ASSUME NEW i \in 1..n, o[i].kind = "reasoning"  PROVE o[i].body # <<>>
  <2>1. PICK p \in OpenItems(st) : o[i] = p[2]
    BY <1>1
  <2>2. Shut(st, p)
    BY OpenItemsAre
  <2>3. CASE p = <<st.msg, Message(st.text)>>
    BY <1>3, <2>1, <2>3, Pairs2, BodiesAre
  <2>4. CASE st.rsn # None /\ p = <<st.rsn, Reasoning(st.reason)>>
    <3>1. o[i].body = st.reason
      BY <2>1, <2>4, Pairs2, BodiesAre
    <3>2. QED  BY <2>4, <3>1 DEF Reasoned
  <2>5. CASE \E k \in DOMAIN st.calls : p = <<st.calls[k].idx, Call(st.calls[k].id, st.calls[k].args)>>
    BY <1>3, <2>1, <2>5 DEF Call
  <2>6. QED  BY <2>2, <2>3, <2>4, <2>5 DEF Shut
<1>4. \A i \in 1..n : o[i] \in Full
  BY <1>2, <1>3 DEF Full
<1>5. o = [i \in 1..n |-> o[i]]
  BY <1>1, LenProperties
<1>6. o \in [1..n -> Full]
  BY <1>4, <1>5
<1>7. QED  BY <1>1, <1>6 DEF Sendable, o

(* What is complete.                                                       *)
LEMMA OpenNotComplete ==
    ASSUME NEW st, NEW ev, Open(st, ev), NEW g
    PROVE  Complete(ev, g) /\ ~(ev # <<>> /\ ev[Len(ev)].type = "completed")
<1>1. ev \in Seq(Events) /\ \A i \in 1..Len(ev) : HistAt(st.next, ev, i)
  BY DEF Open, Hist
<1>2. ev # <<>> => Len(ev) \in 1..Len(ev)
  BY <1>1, EmptySeq
<1>3. ev # <<>> => ev[Len(ev)].type # "completed"
  BY <1>1, <1>2 DEF HistAt
<1>4. QED  BY <1>3 DEF Complete

LEMMA OverComplete ==
    ASSUME NEW o, NEW st, NEW ev, NEW type, NEW item, Over(o, st, ev, type, item),
           NEW g, type = "completed" /\ g => Good(item)
    PROVE  Complete(ev \o o.ev, g)
<1>. DEFINE h == ev \o o.ev
<1>1. h[Len(h)].type = type /\ h[Len(h)].item = item
  BY DEF Over
<1>. HIDE DEF h
<1>2. Complete(h, g)
  BY <1>1 DEF Complete, Good
<1>3. QED  BY <1>2 DEF h
---------------------------------------------------------------------------
(* The invariant of the answer, where the translator is not at work.       *)
Stays ==
    /\ UNCHANGED <<mode, s, out, seen>> /\ (task' = "reading" => task = "reading")
    /\ up' = "waiting" => up = "waiting" /\ wire' = wire
    /\ mode = "direct" => /\ buf' = buf
                          /\ up = "error" /\ wire = <<>> => up' = "error" /\ wire' = <<>>
    /\ up = "eof" => up' = "eof"
    /\ HasDone(taken) => HasDone(taken')

LEMMA AnswerStays ==
    ASSUME AnswerInv, EndedInv, Stays
    PROVE  AnswerInv' /\ EndedInv'
<1>1. UNCHANGED <<mode, s, out, seen>> /\ History' = History
  BY DEF Stays, History
<1>2. AnswerInv'
  BY <1>1 DEF AnswerInv, Stays
<1>3. EndedInv'
  BY <1>1 DEF EndedInv, Stays
<1>4. QED  BY <1>2, <1>3

LEMMA DoneKept ==
    ASSUME NEW tk \in Seq(Chunks), NEW f \in Chunks
    PROVE  /\ HasDone(tk) => HasDone(Append(tk, f))
           /\ f.k = "done" => HasDone(Append(tk, f))
<1>1. /\ DOMAIN tk = 1..Len(tk) /\ Len(tk) \in Nat
      /\ DOMAIN Append(tk, f) = 1..(Len(tk) + 1) /\ Append(tk, f)[Len(tk) + 1] = f
      /\ \A i \in 1..Len(tk) : Append(tk, f)[i] = tk[i]
  BY AppendProperties, LenProperties
<1>2. QED  BY <1>1 DEF HasDone

LEMMA Regroup ==
    ASSUME NEW S, NEW a \in Seq(S), NEW b \in Seq(S), NEW c \in Seq(S)
    PROVE  a \o (b \o c) = (a \o b) \o c
BY ConcatAssociative

(* A step of the translator.                                               *)
Puts(w) ==
    /\ s' = w.s /\ out' = out \o w.ev /\ seen' = seen /\ mode' = mode
    /\ mode # "direct" /\ up' # "waiting"

LEMMA HistoryGrows ==
    ASSUME AnswerInv, NEW w \in Works, Puts(w)
    PROVE  History' = History \o w.ev /\ out' \in Seq(Events) /\ History \in Seq(Events)
<1>1. seen \in Seq(Events) /\ out \in Seq(Events) /\ w.ev \in Seq(Events)
  BY DEF AnswerInv, Works
<1>. DEFINE ev == w.ev
<1>2. seen \o (out \o ev) = (seen \o out) \o ev
  <2>1. ev \in Seq(Events)
    BY <1>1
  <2>. HIDE DEF ev
  <2>2. QED  BY <1>1, <2>1, Regroup
<1>3. out \o w.ev \in Seq(Events) /\ seen \o out \in Seq(Events)
  BY <1>1, ConcatProperties
<1>4. QED  BY <1>2, <1>3 DEF History, Puts

LEMMA AnswerGoesOn ==
    ASSUME AnswerInv, NEW w, Fine(w, History), w.s.google = s.google, Reasoned(w.s), Puts(w)
    PROVE  AnswerInv' /\ EndedInv'
<1>1. w \in Works /\ w.s \in States /\ Owned(w.s) /\ Open(w.s, History \o w.ev)
  BY DEF Fine, Works, Open
<1>2. History' = History \o w.ev /\ out' \in Seq(Events)
  BY <1>1, HistoryGrows
<1>3. WellFormed(History \o w.ev, s.google)
  BY <1>1, WellOpen
<1>4. s' = w.s /\ seen' = seen /\ mode' = mode /\ mode # "direct" /\ up' # "waiting"
      /\ s.google = (mode = "google") /\ seen \in Seq(Events)
  BY DEF Puts, AnswerInv
<1>5. Open(s', History') /\ WellFormed(History', mode = "google")
  BY <1>1, <1>2, <1>3, <1>4
<1>6. AnswerInv'
  BY <1>1, <1>2, <1>4, <1>5 DEF AnswerInv
<1>7. Complete(History', mode = "google") /\ ~IsCompleted(History')
  BY <1>5, OpenNotComplete DEF IsCompleted
<1>8. QED  BY <1>4, <1>6, <1>7 DEF EndedInv

LEMMA AnswerIsOver ==
    ASSUME AnswerInv, EndedInv, NEW w, NEW type, NEW item, Over(w, s, History, type, item), Puts(w),
           task' = "over", type = "completed" /\ mode = "google" => Good(item),
           type = "completed" /\ mode # "google" => Sendable(item),
           type = "completed" /\ mode \in {"google", "ws"} => up' = "eof" \/ HasDone(taken')
    PROVE  AnswerInv' /\ EndedInv'
<1>1. w \in Works /\ w.s \in States /\ Alike(s, w.s) /\ w.s.google = s.google /\ Owned(s)
      /\ WellFormed(History \o w.ev, s.google)
  BY DEF Over, Works, AnswerInv
<1>2. History' = History \o w.ev /\ out' \in Seq(Events)
  BY <1>1, HistoryGrows
<1>3. s' = w.s /\ seen' = seen /\ mode' = mode /\ mode # "direct" /\ up' # "waiting"
      /\ s.google = (mode = "google") /\ seen \in Seq(Events)
  BY DEF Puts, AnswerInv
<1>4. Owned(w.s)
  BY <1>1, OwnedAlike
<1>5. AnswerInv'
  BY <1>1, <1>2, <1>3, <1>4 DEF AnswerInv
<1>6. Complete(History', mode = "google")
  BY <1>2, OverComplete
<1>7. /\ IsCompleted(History') => type = "completed"
      /\ History'[Len(History')].item = item
  BY <1>2 DEF Over, IsCompleted
<1>8. Reasoned(w.s)
  BY <1>1 DEF EndedInv, Reasoned, Alike
<1>9. QED  BY <1>3, <1>5, <1>6, <1>7, <1>8 DEF EndedInv

(* The beginning.                                                          *)
LEMMA NothingYet ==
    ASSUME AnswerInv, up = "waiting"
    PROVE  /\ History = <<>> /\ seen = <<>> /\ out = <<>> /\ wire = <<>> /\ Open(s, History)
<1>1. seen = <<>> /\ out = <<>> /\ wire = <<>> /\ Open(s, <<>>)
  BY DEF AnswerInv
<1>2. History = <<>>
  BY <1>1, ConcatEmptySeq DEF History
<1>3. QED  BY <1>1, <1>2

LEMMA AnswerAnswer ==
    ASSUME AnswerInv, EndedInv, Answer
    PROVE  AnswerInv' /\ EndedInv'
<1>1. up = "waiting" /\ up' = "open" /\ UNCHANGED <<mode, seen, wire, buf, task, taken>>
  BY DEF Answer, Quiet
<1>2. CASE mode = "direct"
  <2>1. UNCHANGED <<s, out>>
    BY <1>2 DEF Answer
  <2>2. Stays
    BY <1>1, <2>1 DEF Stays
  <2>3. QED  BY <2>2, AnswerStays
<1>3. CASE mode # "direct"
  <2>1. Open(s, History)
    BY <1>1, NothingYet
  <2>2. /\ Fine(EmitCreated(s), History) /\ EmitCreated(s).s.google = s.google
        /\ Alike(s, EmitCreated(s).s)
    BY <2>1, FineCreated
  <2>2a. Reasoned(EmitCreated(s).s)
    BY <2>2 DEF EndedInv, Reasoned, Alike
  <2>3. Puts(EmitCreated(s))
    BY <1>1, <1>3 DEF Answer, Put, Puts
  <2>4. QED  BY <2>2, <2>2a, <2>3, AnswerGoesOn
<1>4. QED  BY <1>2, <1>3

LEMMA SyncItems ==
    ASSUME NEW ch \in Chunks
    PROVE  SyncOutput(ch) \in Seq(Items) /\ Sendable(SyncOutput(ch))
<1>1. ch.tools \in Seq(Tools)
  BY ChunksAssumption DEF Tools
<1>. DEFINE a == [i \in DOMAIN ch.tools |-> Call(ch.tools[i].id, <<ch.tools[i].args>>)]
            b == IF ch.text THEN <<Message(<<"t">>)>> ELSE <<>>
            c == IF ch.reason THEN <<Reasoning(<<"r">>)>> ELSE <<>>
<1>2. a \in Seq(Full)
  <2>1. Len(ch.tools) \in Nat /\ DOMAIN ch.tools = 1..Len(ch.tools)
        /\ \A i \in 1..Len(ch.tools) : ch.tools[i] \in Tools
    BY <1>1, LenProperties, ElementOfSeq
  <2>2. \A i \in 1..Len(ch.tools) : Call(ch.tools[i].id, <<ch.tools[i].args>>) \in Full
    <3>1. TAKE i \in 1..Len(ch.tools)
    <3>2. ch.tools[i].id \in Ids /\ ch.tools[i].args \in {"", "open", "close", "whole"}
      BY <2>1 DEF Tools, Ids
    <3>3. <<ch.tools[i].args>> \in Seq(Frags)
      BY <3>2, Bodies
    <3>4. Call(ch.tools[i].id, <<ch.tools[i].args>>) \in Items
      BY <3>2, <3>3, Bodies
    <3>5. QED  BY <3>4 DEF Full, Call
  <2>3. a \in [1..Len(ch.tools) -> Full]
    BY <2>1, <2>2
  <2>4. QED  BY <2>1, <2>3
<1>3. b \in Seq(Full) /\ c \in Seq(Full)
  <2>1. Message(<<"t">>) \in Full /\ Reasoning(<<"r">>) \in Full
    <3>1. Message(<<"t">>) \in Items /\ Reasoning(<<"r">>) \in Items /\ <<"r">> # <<>>
      BY Bodies
    <3>2. QED  BY <3>1 DEF Full, Message, Reasoning
  <2>2. \A x \in Full : <<x>> \in Seq(Full)
    OBVIOUS
  <2>3. <<Message(<<"t">>)>> \in Seq(Full) /\ <<Reasoning(<<"r">>)>> \in Seq(Full) /\ <<>> \in Seq(Full)
    BY <2>1, <2>2
  <2>4. QED  BY <2>3
<1>4. SyncOutput(ch) = a \o b \o c
  BY DEF SyncOutput
<1>. HIDE DEF a, b, c
<1>5. a \o b \in Seq(Full)
  BY <1>2, <1>3, ConcatProperties
<1>6. a \o b \o c \in Seq(Full)
  BY <1>3, <1>5, ConcatProperties
<1>7. QED  BY <1>4, <1>6, SeqMonotonic DEF Sendable, Full

LEMMA AnswerSyncs ==
    ASSUME AnswerInv, EndedInv, NEW ch \in Chunks, AnswerSync(ch)
    PROVE  AnswerInv' /\ EndedInv'
<1>. DEFINE created == EmitCreated(s)
            chunk == HandleChunk(created.s, ch)
            sync == Terminal(Work(created.s), "completed", SyncOutput(ch))
            stream == FinishGoogle(chunk.s, ch.fin)
<1>1. up = "waiting" /\ mode # "direct" /\ up' = "eof" /\ task' = "over" /\ UNCHANGED <<mode, seen>>
  BY DEF AnswerSync, Quiet
<1>2. Open(s, <<>>) /\ seen = <<>> /\ s.google = (mode = "google")
  BY <1>1 DEF AnswerInv
<1>3. Fine(created, <<>>) /\ created.s.google = s.google /\ Alike(s, created.s)
  BY <1>2, FineCreated
<1>4. /\ mode = "google" => s' = stream.s /\ out' = created.ev \o chunk.ev \o stream.ev
      /\ mode # "google" => s' = sync.s /\ out' = created.ev \o <<>> \o sync.ev
  BY DEF AnswerSync
<1>. HIDE DEF created
<1>5. created.ev \in Seq(Events) /\ Open(created.s, created.ev)
  <2>1. created.ev \in Seq(Events) /\ Open(created.s, <<>> \o created.ev)
    BY <1>3 DEF Fine, Works
  <2>2. <<>> \o created.ev = created.ev
    BY <2>1, ConcatEmptySeq
  <2>3. QED  BY <2>1, <2>2
<1>6. ASSUME NEW w, NEW st, NEW ev, NEW type, NEW item, Over(w, st, ev, type, item), Owned(st),
             st.google = s.google, s' = w.s, out' = ev \o w.ev,
             type = "completed" /\ mode = "google" => Good(item),
             Reasoned(st), type = "completed" /\ mode # "google" => Sendable(item)
      PROVE  AnswerInv' /\ EndedInv'
  <2>1. w \in Works /\ w.s \in States /\ Alike(st, w.s) /\ w.s.google = s.google
        /\ WellFormed(ev \o w.ev, s.google) /\ ev \o w.ev \in Seq(Events)
    BY <1>6 DEF Over, Works
  <2>2. Owned(w.s)
    BY <1>6, <2>1, OwnedAlike
  <2>3. seen' = <<>> /\ out' \in Seq(Events)
    BY <1>1, <1>2, <1>6, <2>1
  <2>4. History' = ev \o w.ev
    BY <1>6, <2>3, ConcatEmptySeq DEF History
  <2>5. <<>> \in Seq(Events)
    OBVIOUS
  <2>6. AnswerInv'
    BY <1>1, <1>2, <1>6, <2>1, <2>2, <2>3, <2>4, <2>5 DEF AnswerInv
  <2>7. Complete(History', mode = "google")
    BY <1>6, <2>4, OverComplete
  <2>8. Reasoned(w.s)
    BY <1>6, <2>1 DEF Reasoned, Alike
  <2>9. IsCompleted(History') /\ mode # "google" => Sendable(History'[Len(History')].item)
    BY <1>6, <2>4 DEF IsCompleted, Over
  <2>10. QED  BY <1>1, <1>6, <2>6, <2>7, <2>8, <2>9 DEF EndedInv
<1>7. CASE mode = "google"
  <2>1. Fine(chunk, created.ev) /\ chunk.s.google = created.s.google
    BY <1>5, FineHandleChunk
  <2>. HIDE DEF chunk
  <2>2. Open(chunk.s, created.ev \o chunk.ev) /\ Owned(chunk.s)
    BY <2>1 DEF Fine, Open
  <2>3. PICK type, item : Over(stream, chunk.s, created.ev \o chunk.ev, type, item)
                          /\ (type = "completed" => Good(item))
    BY <2>2, GoogleOver
  <2>4. chunk.s.google = s.google /\ Reasoned(chunk.s)
    BY <1>2, <1>3, <1>7, <2>1 DEF Reasoned
  <2>. HIDE DEF stream
  <2>. DEFINE ev == created.ev \o chunk.ev
  <2>5. s' = stream.s /\ out' = ev \o stream.ev
    BY <1>4, <1>7
  <2>6. Over(stream, chunk.s, ev, type, item)
    BY <2>3
  <2>. HIDE DEF ev
  <2>7. QED  BY <1>6, <1>7, <2>2, <2>3, <2>4, <2>5, <2>6
<1>8. CASE mode # "google"
  <2>1. Over(sync, created.s, created.ev, "completed", SyncOutput(ch))
    <3>1. "completed" \in Terminals /\ SyncOutput(ch) \in Seq(Items)
      BY SyncItems DEF Terminals
    <3>2. QED  BY <1>5, <3>1, PlainOver
  <2>2. created.ev \o <<>> = created.ev
    BY <1>5, ConcatEmptySeq
  <2>3. Owned(created.s)
    BY <1>5 DEF Open
  <2>3a. Reasoned(created.s) /\ Sendable(SyncOutput(ch))
    BY <1>3, SyncItems DEF EndedInv, Reasoned, Alike
  <2>. HIDE DEF sync
  <2>4. s' = sync.s /\ out' = created.ev \o sync.ev
    BY <1>4, <1>8, <2>2
  <2>5. QED  BY <1>3, <1>6, <1>8, <2>1, <2>3, <2>3a, <2>4
<1>9. QED  BY <1>7, <1>8
---------------------------------------------------------------------------
LEMMA ErrorIsEvent ==
    ErrorEvent \in Events /\ ErrorEvent.type = "error" /\ <<ErrorEvent>> \in Seq(Events)
<1>1. "error" \in Terminals /\ None \in Int /\ 0 \in Nat
  BY DEF Terminals, None
<1>2. <<>> \in Seq(Items)
  OBVIOUS
<1>3. ErrorEvent \in Events
  BY <1>1, <1>2 DEF ErrorEvent, Events
<1>4. QED  BY <1>3 DEF ErrorEvent

LEMMA ErrorWell ==
    ASSUME NEW g
    PROVE  WellFormed(<<ErrorEvent>>, g) /\ Complete(<<ErrorEvent>>, g) /\ ~IsCompleted(<<ErrorEvent>>)
<1>. DEFINE h == <<ErrorEvent>>
<1>1. Len(h) = 1 /\ h[1] = ErrorEvent /\ \A i \in 1..Len(h) : i = 1
  OBVIOUS
<1>. HIDE DEF h
<1>2. \A i \in 1..Len(h) : h[i].type = "error" /\ i = Len(h)
  BY <1>1, ErrorIsEvent
<1>3. WellFormed(h, g)
  <2>1. \A i, j \in 1..Len(h) : ~(i < j)
    BY <1>1
  <2>2. QED  BY <1>2, <2>1 DEF WellFormed
<1>4. h[Len(h)].type = "error"
  BY <1>1, ErrorIsEvent
<1>5. QED  BY <1>3, <1>4 DEF Complete, IsCompleted, h

LEMMA AnswerRefused ==
    ASSUME AnswerInv, EndedInv, Refuses
    PROVE  AnswerInv' /\ EndedInv'
<1>1. up = "waiting" /\ up' = "error" /\ task' = "over" /\ out' = Append(out, ErrorEvent)
      /\ UNCHANGED <<mode, seen, wire, buf, s>>
  BY DEF Refuses, Quiet
<1>2. seen = <<>> /\ out = <<>> /\ wire = <<>>
  BY <1>1, NothingYet
<1>3. out' = <<ErrorEvent>>
  BY <1>1, <1>2
<1>4. History' = <<ErrorEvent>> /\ out' \in Seq(Events) /\ seen' \in Seq(Events)
  BY <1>1, <1>2, <1>3, ErrorIsEvent, ConcatEmptySeq DEF History
<1>5. WellFormed(History', mode = "google") /\ Complete(History', mode = "google") /\ ~IsCompleted(History')
  BY <1>4, ErrorWell
<1>6. AnswerInv'
  BY <1>1, <1>2, <1>4, <1>5 DEF AnswerInv
<1>7. QED  BY <1>1, <1>5, <1>6 DEF EndedInv, Reasoned

(* A frame is taken.                                                       *)
LEMMA AnswerTakes ==
    ASSUME FrameInv, AnswerInv, EndedInv, Take
    PROVE  AnswerInv' /\ EndedInv'
<1>. DEFINE f == Head(buf).f
            bad == f.k = "error" \/ ~Head(buf).whole \/ (f.k = "data" /\ f.fin = "bad")
<1>1. /\ mode # "direct" /\ task = "reading" /\ up # "waiting" /\ HasFrame
      /\ UNCHANGED <<mode, seen, up, wire>>
  BY DEF Take, Translating, upstream
<1>2. Len(buf) >= 2 /\ FrameEnd = 2
  BY <1>1, FirstFrame
<1>3. f \in Chunks
  <2>1. buf \in Seq(Halves) /\ Len(buf) \in Nat
    BY LenProperties DEF FrameInv
  <2>2. Head(buf) = buf[1] /\ buf[1] \in Halves
    BY <1>2, <2>1
  <2>3. QED  BY <2>2 DEF Halves
<1>4. Open(s, History) /\ s.google = (mode = "google")
  BY <1>1 DEF AnswerInv
<1>5. /\ taken' = Append(taken, f)
      /\ \/ /\ f.k = "comment"
            /\ UNCHANGED <<s, fin, out, task>>
         \/ /\ f.k = "done" /\ mode = "google"
            /\ fin' = IF fin = "none" THEN "stop" ELSE fin
            /\ Put(FinishGoogle(s, fin'))
            /\ task' = "over"
         \/ /\ f.k = "done" /\ mode # "google"
            /\ Put(EmitCompleted(s))
            /\ task' = "over" /\ UNCHANGED fin
         \/ /\ f.k \in {"data", "error"} /\ bad /\ mode = "google"
            /\ Put(EmitFailed(s))
            /\ task' = "over" /\ UNCHANGED fin
         \/ /\ f.k = "error" /\ mode # "google"
            /\ UNCHANGED <<s, fin, out, task>>
         \/ /\ f.k = "data" /\ ~(bad /\ mode = "google")
            /\ Put(HandleChunk(s, f))
            /\ fin' = IF mode = "google" /\ f.fin # "none" THEN f.fin ELSE fin
            /\ UNCHANGED task
  BY <1>2 DEF Take
<1>. HIDE DEF f, bad
<1>6. (HasDone(taken) => HasDone(taken')) /\ (f.k = "done" => HasDone(taken'))
  BY <1>3, <1>5, DoneKept DEF FrameInv
<1>7. CASE UNCHANGED <<s, out, task>>
  <2>1. Stays
    BY <1>1, <1>6, <1>7 DEF Stays
  <2>2. QED  BY <2>1, AnswerStays
<1>8. ASSUME NEW w, Put(w)  PROVE Puts(w)
  BY <1>1, <1>8 DEF Put, Puts
<1>9. CASE f.k = "done" /\ mode = "google" /\ Put(FinishGoogle(s, fin')) /\ task' = "over"
  <2>1. PICK type, item : Over(FinishGoogle(s, fin'), s, History, type, item) /\ (type = "completed" => Good(item))
    BY <1>4, GoogleOver
  <2>2. Puts(FinishGoogle(s, fin'))
    BY <1>8, <1>9
  <2>3. QED  BY <1>6, <1>9, <2>1, <2>2, AnswerIsOver
<1>10. CASE f.k = "done" /\ mode # "google" /\ Put(EmitCompleted(s)) /\ task' = "over"
  <2>1. Over(EmitCompleted(s), s, History, "completed", Output(s))
    BY <1>4, CompletedOver
  <2>2. Puts(EmitCompleted(s))
    BY <1>8, <1>10
  <2>3. Sendable(Output(s))
    BY <1>4, <1>10, OutputSendable DEF AnswerInv, EndedInv
  <2>4. QED  BY <1>6, <1>10, <2>1, <2>2, <2>3, AnswerIsOver
<1>11. CASE Put(EmitFailed(s)) /\ task' = "over"
  <2>1. Over(EmitFailed(s), s, History, "failed", <<>>)
    BY <1>4, FailedOver
  <2>2. Puts(EmitFailed(s))
    BY <1>8, <1>11
  <2>3. "failed" # "completed"
    OBVIOUS
  <2>4. QED  BY <1>11, <2>1, <2>2, <2>3, AnswerIsOver
<1>12. CASE Put(HandleChunk(s, f))
  <2>1. Fine(HandleChunk(s, f), History) /\ HandleChunk(s, f).s.google = s.google /\ Reasoned(HandleChunk(s, f).s)
    BY <1>3, <1>4, FineHandleChunk DEF EndedInv
  <2>2. Puts(HandleChunk(s, f))
    BY <1>8, <1>12
  <2>3. QED  BY <2>1, <2>2, AnswerGoesOn
<1>13. QED  BY <1>5, <1>7, <1>9, <1>10, <1>11, <1>12

(* The stream of the upstream is over.                                     *)
LEMMA AnswerAtEof ==
    ASSUME AnswerInv, EndedInv, AtEof
    PROVE  AnswerInv' /\ EndedInv'
<1>1. /\ mode # "direct" /\ task = "reading" /\ up = "eof" /\ up' = "eof"
      /\ UNCHANGED <<mode, seen, wire, taken>>
  BY DEF AtEof, Drained, Translating, Quiet, upstream
<1>2. Open(s, History)
  BY <1>1 DEF AnswerInv
<1>3. CASE mode = "google" /\ buf # <<>>
  <2>1. UNCHANGED <<s, out, task>>
    BY <1>3 DEF AtEof
  <2>2. Stays
    BY <1>1, <2>1 DEF Stays
  <2>3. QED  BY <2>2, AnswerStays
<1>4. CASE mode = "google" /\ ~(buf # <<>>)
  <2>1. Put(FinishGoogle(s, fin)) /\ task' = "over"
    BY <1>4 DEF AtEof
  <2>2. PICK type, item : Over(FinishGoogle(s, fin), s, History, type, item) /\ (type = "completed" => Good(item))
    BY <1>2, GoogleOver
  <2>3. Puts(FinishGoogle(s, fin))
    BY <1>1, <2>1 DEF Put, Puts
  <2>4. QED  BY <1>1, <1>4, <2>1, <2>2, <2>3, AnswerIsOver
<1>5. CASE mode # "google"
  <2>1. Put(EmitCompleted(s)) /\ task' = "over"
    BY <1>5 DEF AtEof
  <2>2. Over(EmitCompleted(s), s, History, "completed", Output(s))
    BY <1>2, CompletedOver
  <2>3. Puts(EmitCompleted(s))
    BY <1>1, <2>1 DEF Put, Puts
  <2>4. Sendable(Output(s))
    BY <1>5, OutputSendable DEF AnswerInv, EndedInv
  <2>5. QED  BY <1>1, <1>5, <2>1, <2>2, <2>3, <2>4, AnswerIsOver
<1>6. QED  BY <1>3, <1>4, <1>5

LEMMA AnswerAtError ==
    ASSUME AnswerInv, EndedInv, AtError
    PROVE  AnswerInv' /\ EndedInv'
<1>1. /\ mode # "direct" /\ task = "reading" /\ up = "error" /\ up' = "error" /\ task' = "over"
      /\ UNCHANGED <<mode, seen, wire, taken>>
  BY DEF AtError, Drained, Translating, Quiet, upstream
<1>2. Open(s, History)
  BY <1>1 DEF AnswerInv
<1>3. ASSUME NEW w, Put(w)  PROVE Puts(w)
  BY <1>1, <1>3 DEF Put, Puts
<1>4. CASE mode = "http"
  <2>1. Put(EmitCompleted(s))
    BY <1>4 DEF AtError
  <2>2. Over(EmitCompleted(s), s, History, "completed", Output(s))
    BY <1>2, CompletedOver
  <2>3. Puts(EmitCompleted(s))
    BY <1>3, <2>1
  <2>4. ~(mode = "google") /\ ~(mode \in {"google", "ws"})
    BY <1>4
  <2>5. Sendable(Output(s))
    BY <2>4, OutputSendable DEF AnswerInv, EndedInv
  <2>6. QED  BY <1>1, <2>2, <2>3, <2>4, <2>5, AnswerIsOver
<1>5. CASE mode = "google"
  <2>1. Put(EmitFailed(s))
    BY <1>5 DEF AtError
  <2>2. Over(EmitFailed(s), s, History, "failed", <<>>)
    BY <1>2, FailedOver
  <2>3. Puts(EmitFailed(s)) /\ "failed" # "completed"
    BY <1>3, <2>1
  <2>4. QED  BY <1>1, <2>2, <2>3, AnswerIsOver
<1>6. CASE mode # "http" /\ mode # "google"
  <2>1. Put(Terminal(Work(s), "error", <<>>))
    BY <1>6 DEF AtError
  <2>2. Over(Terminal(Work(s), "error", <<>>), s, History, "error", <<>>)
    BY <1>2, ErrorOver
  <2>3. Puts(Terminal(Work(s), "error", <<>>)) /\ "error" # "completed"
    BY <1>3, <2>1
  <2>4. QED  BY <1>1, <2>2, <2>3, AnswerIsOver
<1>7. QED  BY <1>4, <1>5, <1>6

(* What the client reads.                                                  *)
LEMMA MovedOver ==
    ASSUME NEW S, NEW a \in Seq(S), NEW b \in Seq(S), b # <<>>
    PROVE  /\ Append(a, Head(b)) \in Seq(S) /\ Tail(b) \in Seq(S)
           /\ Append(a, Head(b)) \o Tail(b) = a \o b
<1>. DEFINE h == Head(b)
            t == Tail(b)
<1>1. h \in S /\ t \in Seq(S) /\ b = <<h>> \o t
  <2>1. h \in S /\ t \in Seq(S) /\ Len(t) = Len(b) - 1 /\ \A i \in 1..Len(t) : t[i] = b[i + 1]
    BY HeadTailProperties
  <2>2. Len(b) \in Nat /\ Len(b) # 0 /\ h = b[1]
    BY LenProperties
  <2>. HIDE DEF h, t
  <2>3. <<h>> \in Seq(S) /\ Len(<<h>>) = 1 /\ <<h>>[1] = h
    BY <2>1
  <2>. DEFINE o == <<h>>
  <2>4. o \in Seq(S) /\ Len(o) = 1 /\ o[1] = h
    BY <2>3
  <2>. HIDE DEF o
  <2>5. o \o t \in Seq(S) /\ Len(o \o t) = Len(o) + Len(t)
        /\ \A i \in 1..(Len(o) + Len(t)) : (o \o t)[i] = IF i <= Len(o) THEN o[i] ELSE t[i - Len(o)]
    <3>1. o \in Seq(S) /\ t \in Seq(S)
      BY <2>1, <2>4
    <3>2. QED  BY <3>1, ConcatProperties
  <2>6. Len(o \o t) = Len(b) /\ \A i \in 1..Len(b) : (o \o t)[i] = b[i]
    BY <2>1, <2>2, <2>4, <2>5
  <2>7. o \o t = b
    BY <2>5, <2>6, SeqEqual
  <2>8. QED  BY <2>1, <2>7 DEF o
<1>. HIDE DEF h, t
<1>2. Append(a, h) \in Seq(S) /\ <<h>> \in Seq(S) /\ Append(a, h) = a \o <<h>>
  BY <1>1, OneMore
<1>3. a \o (<<h>> \o t) = (a \o <<h>>) \o t
  BY <1>1, <1>2, Regroup
<1>4. QED  BY <1>1, <1>2, <1>3 DEF h, t

LEMMA AnswerPasses ==
    ASSUME AnswerInv, EndedInv, Pass
    PROVE  AnswerInv' /\ EndedInv'
<1>1. /\ out # <<>> /\ seen' = Append(seen, Head(out)) /\ out' = Tail(out)
      /\ UNCHANGED <<mode, up, s, task, taken, wire, buf>>
  BY DEF Pass, Core, upstream
<1>2. seen \in Seq(Events) /\ out \in Seq(Events)
  BY DEF AnswerInv
<1>3. seen' \in Seq(Events) /\ out' \in Seq(Events) /\ History' = History
  BY <1>1, <1>2, MovedOver DEF History
<1>4. up' # "waiting"
  BY <1>1 DEF AnswerInv
<1>5. mode = "direct" => up = "error" /\ wire = <<>> /\ History = <<ErrorEvent>> /\ buf = <<>>
  BY <1>1 DEF AnswerInv
<1>6. AnswerInv'
  BY <1>1, <1>3, <1>4, <1>5 DEF AnswerInv
<1>7. EndedInv'
  BY <1>1, <1>3 DEF EndedInv
<1>8. QED  BY <1>6, <1>7

LEMMA FramesWell ==
    ASSUME NEW ev \in Seq(Events), \A i \in 1..Len(ev) : ev[i].type = "frame", NEW g
    PROVE  WellFormed(ev, g) /\ Complete(ev, g) /\ ~IsCompleted(ev)
<1>1. WellFormed(ev, g)
  BY DEF WellFormed, Terminals, Kinds
<1>2. ev # <<>> => Len(ev) \in 1..Len(ev)
  BY EmptySeq
<1>3. QED  BY <1>1, <1>2 DEF Complete, IsCompleted

LEMMA AnswerPassesBytes ==
    ASSUME AnswerInv, EndedInv, PassBytes
    PROVE  AnswerInv' /\ EndedInv'
<1>. DEFINE e == [type |-> "frame", idx |-> None, n |-> 0, item |-> <<>>]
<1>1. /\ mode = "direct" /\ wire # <<>>
      /\ UNCHANGED <<mode, up, s, task, taken, buf, out>>
      /\ seen' = seen \/ seen' = Append(seen, e)
  BY DEF PassBytes, Core, upstream
<1>2. seen \in Seq(Events) /\ (\A i \in 1..Len(seen) : seen[i].type = "frame") /\ out = <<>> /\ buf = <<>>
      /\ up # "waiting" /\ s.google = (mode = "google") /\ s \in States /\ Owned(s)
  BY <1>1 DEF AnswerInv
<1>3. e \in Events /\ e.type = "frame"
  <2>1. None \in Int /\ 0 \in Nat /\ <<>> \in Seq(Items)
    BY DEF None
  <2>2. QED  BY <2>1 DEF Events
<1>. HIDE DEF e
<1>4. seen' \in Seq(Events) /\ (\A i \in 1..Len(seen') : seen'[i].type = "frame")
  <2>1. CASE seen' = seen
    BY <1>2, <2>1
  <2>2. CASE seen' = Append(seen, e)
    <3>1. /\ seen' \in Seq(Events) /\ Len(seen') = Len(seen) + 1 /\ seen'[Len(seen) + 1] = e
          /\ \A i \in 1..Len(seen) : seen'[i] = seen[i]
      BY <1>2, <1>3, <2>2, AppendProperties
    <3>2. Len(seen) \in Nat
      BY <1>2, LenProperties
    <3>3. \A i \in 1..Len(seen') : i \in 1..Len(seen) \/ i = Len(seen) + 1
      BY <3>1, <3>2
    <3>4. QED  BY <1>2, <1>3, <3>1, <3>3
  <2>3. QED  BY <1>1, <2>1, <2>2
<1>5. History' = seen' /\ out' = <<>> /\ <<>> \in Seq(Events)
  BY <1>1, <1>2, <1>4, ConcatEmptySeq DEF History
<1>6. WellFormed(History', mode = "google") /\ Complete(History', mode = "google") /\ ~IsCompleted(History')
  BY <1>4, <1>5, FramesWell
<1>7. AnswerInv'
  BY <1>1, <1>2, <1>4, <1>5, <1>6 DEF AnswerInv
<1>8. QED  BY <1>1, <1>6, <1>7 DEF EndedInv

(* Every other step leaves the answer as it is.                            *)
LEMMA OthersStay ==
    ASSUME AnswerInv,
           \/ \E f \in Chunks : Send(f) \/ \E whole \in BOOLEAN : EndsInside(f, whole)
           \/ \E how \in {"eof", "error"} : Ends(how)
           \/ \E k \in 1..Len(wire) : Read(k)
           \/ PassEnd \/ Heartbeat \/ Cut \/ Leaves \/ TaskStops \/ Stopped \/ UNCHANGED vars
    PROVE  Stays
<1>1. CASE \E f \in Chunks : Send(f) \/ \E whole \in BOOLEAN : EndsInside(f, whole)
  <2>1. /\ UNCHANGED <<mode, s, out, seen, task, taken, buf>> /\ up = "open" /\ up' \in {"open", "done", "eof"}
    BY <1>1 DEF Send, EndsInside, Quiet
  <2>2. QED  BY <2>1 DEF Stays
<1>2. CASE \E how \in {"eof", "error"} : Ends(how)
  <2>1. /\ UNCHANGED <<mode, s, out, seen, task, taken, buf, wire>> /\ up \in {"open", "done"} /\ up' \in {"eof", "error"}
    BY <1>2 DEF Ends, Quiet
  <2>2. QED  BY <2>1 DEF Stays
<1>3. CASE \E k \in 1..Len(wire) : Read(k)
  <2>1. /\ UNCHANGED <<mode, s, out, seen, task, taken, up>> /\ up # "waiting" /\ mode # "direct"
    BY <1>3 DEF Read, Translating, Quiet, upstream
  <2>2. QED  BY <2>1 DEF Stays
<1>4. CASE PassEnd \/ Heartbeat \/ Cut \/ Leaves \/ TaskStops \/ Stopped \/ UNCHANGED vars
  <2>1. UNCHANGED <<mode, s, out, seen, taken, up, wire, buf>> /\ (task' = "reading" => task = "reading")
    BY <1>4 DEF PassEnd, Heartbeat, Cut, Leaves, TaskStops, Stopped, vars, Core, upstream
  <2>2. QED  BY <2>1 DEF Stays
<1>5. QED  BY <1>1, <1>2, <1>3, <1>4

LEMMA AnswerStep ==
    ASSUME FrameInv, AnswerInv, EndedInv, [Next]_vars
    PROVE  AnswerInv' /\ EndedInv'
<1>1. CASE Answer
  BY <1>1, AnswerAnswer
<1>2. CASE Refuses
  BY <1>2, AnswerRefused
<1>3. CASE \E f \in Chunks : AnswerSync(f)
  BY <1>3, AnswerSyncs
<1>4. CASE Take
  BY <1>4, AnswerTakes
<1>5. CASE AtEof
  BY <1>5, AnswerAtEof
<1>6. CASE AtError
  BY <1>6, AnswerAtError
<1>7. CASE Pass
  BY <1>7, AnswerPasses
<1>8. CASE PassBytes
  BY <1>8, AnswerPassesBytes
<1>9. CASE \/ \E f \in Chunks : Send(f) \/ \E whole \in BOOLEAN : EndsInside(f, whole)
           \/ \E how \in {"eof", "error"} : Ends(how)
           \/ \E k \in 1..Len(wire) : Read(k)
           \/ PassEnd \/ Heartbeat \/ Cut \/ Leaves \/ TaskStops \/ Stopped \/ UNCHANGED vars
  BY <1>9, OthersStay, AnswerStays
<1>10. QED
  BY <1>1, <1>2, <1>3, <1>4, <1>5, <1>6, <1>7, <1>8, <1>9 DEF Next, Upstream, Task, Client

LEMMA AnswerInit == ASSUME Init PROVE AnswerInv /\ EndedInv
<1>1. /\ up = "waiting" /\ wire = <<>> /\ buf = <<>> /\ s = NewState(mode = "google")
      /\ task = "reading" /\ taken = <<>> /\ out = <<>> /\ seen = <<>>
  BY DEF Init
<1>2. Open(s, <<>>) /\ s.google = (mode = "google")
  <2>1. (mode = "google") \in BOOLEAN
    OBVIOUS
  <2>2. QED  BY <1>1, <2>1, OpenNew
<1>3. History = <<>> /\ <<>> \in Seq(Events)
  BY <1>1, ConcatEmptySeq DEF History
<1>4. WellFormed(<<>>, mode = "google") /\ Complete(<<>>, mode = "google") /\ ~IsCompleted(<<>>)
  BY <1>2, WellOpen, OpenNotComplete DEF IsCompleted
<1>5. s \in States /\ Owned(s)
  BY <1>2 DEF Open
<1>6. \A i \in 1..Len(seen) : seen[i].type = "frame"
  <2>1. Len(seen) = 0 /\ 1..0 = {}
    BY <1>1
  <2>2. QED  BY <2>1
<1>7. AnswerInv
  BY <1>1, <1>2, <1>3, <1>4, <1>5, <1>6 DEF AnswerInv
<1>8. Reasoned(s)
  BY <1>1 DEF Reasoned, NewState
<1>9. QED  BY <1>3, <1>4, <1>7, <1>8 DEF EndedInv
---------------------------------------------------------------------------
(* What holds of the whole history holds of the part the client has seen.  *)
LEMMA SeenIsBeginning ==
    ASSUME NEW a \in Seq(Events), NEW b \in Seq(Events)
    PROVE  /\ Len(a) \in Nat /\ Len(b) \in Nat /\ a \o b \in Seq(Events)
           /\ Len(a \o b) = Len(a) + Len(b)
           /\ \A i \in 1..Len(a) : (a \o b)[i] = a[i] /\ i \in 1..Len(a \o b)
<1>1. Len(a) \in Nat /\ Len(b) \in Nat
  BY LenProperties
<1>2. /\ a \o b \in Seq(Events) /\ Len(a \o b) = Len(a) + Len(b)
      /\ \A i \in 1..(Len(a) + Len(b)) : (a \o b)[i] = IF i <= Len(a) THEN a[i] ELSE b[i - Len(a)]
  BY ConcatProperties
<1>3. QED  BY <1>1, <1>2

LEMMA WellSeen ==
    ASSUME AnswerInv
    PROVE  AnswerWellFormed
<1>. DEFINE h == History
<1>1. seen \in Seq(Events) /\ out \in Seq(Events) /\ WellFormed(h, mode = "google")
  BY DEF AnswerInv
<1>2. /\ Len(seen) \in Nat /\ h \in Seq(Events) /\ Len(seen) <= Len(h) /\ Len(h) \in Nat
      /\ \A i \in 1..Len(seen) : h[i] = seen[i] /\ i \in 1..Len(h)
      /\ DOMAIN seen = 1..Len(seen)
  BY <1>1, SeenIsBeginning, LenProperties DEF History
<1>. HIDE DEF h
<1>3. ASSUME NEW i \in DOMAIN seen, seen[i].type \in Terminals  PROVE i = Len(seen)
  <2>1. i = Len(h)
    BY <1>1, <1>2, <1>3 DEF WellFormed
  <2>2. QED  BY <1>2, <2>1
<1>4. ASSUME NEW i \in DOMAIN seen, NEW j \in DOMAIN seen
      PROVE  /\ i < j /\ seen[i].type = "done" /\ seen[j].type = "done" => seen[i].idx < seen[j].idx
             /\ i < j /\ seen[i].idx = seen[j].idx /\ {seen[i].type, seen[j].type} \subseteq Kinds
                  => seen[i].type # "done" /\ seen[j].type # "added"
  <2>1. i \in 1..Len(h) /\ j \in 1..Len(h) /\ h[i] = seen[i] /\ h[j] = seen[j]
    BY <1>2
  <2>2. /\ i < j /\ h[i].type = "done" /\ h[j].type = "done" => h[i].idx < h[j].idx
        /\ i < j /\ h[i].idx = h[j].idx /\ h[i].type \in Kinds /\ h[j].type \in Kinds
             => h[i].type # "done" /\ h[j].type # "added"
    BY <1>1, <2>1 DEF WellFormed
  <2>3. QED  BY <2>1, <2>2
<1>5. ASSUME NEW i \in DOMAIN seen, seen[i].type \in {"delta", "done"}
      PROVE  \E j \in 1..(i - 1) : seen[j].type = "added" /\ seen[j].idx = seen[i].idx
  <2>1. i \in 1..Len(h) /\ h[i] = seen[i]
    BY <1>2
  <2>2. PICK j \in 1..(i - 1) : h[j].type = "added" /\ h[j].idx = h[i].idx
    BY <1>1, <1>5, <2>1 DEF WellFormed
  <2>3. j \in 1..Len(seen)
    BY <1>2
  <2>4. QED  BY <1>2, <2>1, <2>2, <2>3
<1>6. ASSUME NEW i \in DOMAIN seen, seen[i].type = "done", seen[i].item.id \notin Custom \/ mode # "google"
      PROVE  Told(seen, seen[i].idx)[Len(seen)] = seen[i].item.body
  <2>1. i \in 1..Len(h) /\ h[i] = seen[i] /\ Len(seen) \in i..Len(h) /\ Len(seen) \in 0..Len(seen)
    BY <1>2
  <2>2. Told(h, h[i].idx)[Len(seen)] = h[i].item.body
    BY <1>1, <1>6, <2>1 DEF WellFormed
  <2>3. Told(h, h[i].idx)[Len(seen)] = Told(seen, h[i].idx)[Len(seen)]
    BY <1>1, <1>2, <2>1, ToldBefore
  <2>4. QED  BY <2>1, <2>2, <2>3
<1>7. QED  BY <1>3, <1>4, <1>5, <1>6 DEF AnswerWellFormed

(* However the frames of the upstream are made, cut and delivered, however *)
(* the stream ends and whoever leaves first, the client gets the beginning *)
(* of a well-formed answer.                                                *)
THEOREM AnswerWellFormedHolds == Spec => []AnswerWellFormed
<1>1. Init => FrameInv /\ AnswerInv /\ EndedInv
  BY FrameInit, AnswerInit
<1>2. FrameInv /\ AnswerInv /\ EndedInv /\ [Next]_vars => (FrameInv /\ AnswerInv /\ EndedInv)'
  BY FrameStep, AnswerStep
<1>3. FrameInv /\ AnswerInv /\ EndedInv => AnswerWellFormed
  BY WellSeen
<1>4. QED  BY <1>1, <1>2, <1>3, PTL DEF Spec

LEMMA CompletedSeen ==
    ASSUME AnswerInv, Completed
    PROVE  IsCompleted(History) /\ Last(seen) = History[Len(History)]
<1>. DEFINE h == History
<1>1. seen \in Seq(Events) /\ out \in Seq(Events) /\ WellFormed(h, mode = "google")
  BY DEF AnswerInv
<1>2. /\ Len(seen) \in Nat /\ Len(out) \in Nat /\ h \in Seq(Events) /\ Len(h) = Len(seen) + Len(out)
      /\ \A i \in 1..Len(seen) : h[i] = seen[i] /\ i \in 1..Len(h)
  BY <1>1, SeenIsBeginning DEF History
<1>3. Len(seen) \in 1..Len(seen) /\ seen[Len(seen)].type = "completed" /\ Last(seen) = seen[Len(seen)]
  BY <1>1, <1>2, EmptySeq DEF Completed, Last
<1>. HIDE DEF h
<1>4. h[Len(seen)].type \in Terminals /\ Len(seen) \in 1..Len(h)
  BY <1>2, <1>3 DEF Terminals
<1>5. Len(seen) = Len(h)
  BY <1>1, <1>4 DEF WellFormed
<1>6. h # <<>>
  BY <1>2, <1>3, <1>5, EmptySeq
<1>7. QED  BY <1>2, <1>3, <1>5, <1>6 DEF IsCompleted, h

LEMMA EndedSeen ==
    ASSUME AnswerInv, EndedInv, up \in {"waiting", "open", "done", "eof", "error"}
    PROVE  UnfinishedNotCompleted
<1>1. SUFFICES ASSUME Completed  PROVE UnfinishedNotCompleted
  BY DEF UnfinishedNotCompleted
<1>2. IsCompleted(History) /\ Last(seen) = History[Len(History)]
  BY <1>1, CompletedSeen
<1>3. mode \in {"google", "ws"} => up = "eof" \/ HasDone(taken)
  BY <1>2 DEF EndedInv
<1>4. mode = "google" => Good(Last(seen).item)
  BY <1>2 DEF EndedInv, IsCompleted, Complete, Good
<1>5. QED  BY <1>3, <1>4 DEF UnfinishedNotCompleted, Good, HasDone
---------------------------------------------------------------------------
(* The small variables.                                                    *)
SmallInv ==
    /\ mode \in Modes
    /\ up \in {"waiting", "open", "done", "eof", "error"}
    /\ fin \in {"none", "stop", "max"}
    /\ task \in {"reading", "over"}
    /\ end \in {"open", "eof", "cut", "gone"}

LEMMA SmallStep ==
    ASSUME FrameInv, SmallInv, [Next]_vars
    PROVE  SmallInv'
<1>1. CASE Upstream
  BY <1>1 DEF Upstream, Answer, AnswerSync, Refuses, Send, Ends, EndsInside, Quiet, watch, SmallInv
<1>2. CASE (\E k \in 1..Len(wire) : Read(k)) \/ AtEof \/ AtError
  BY <1>2 DEF Read, AtEof, AtError, Quiet, upstream, watch, SmallInv
<1>3. CASE Take
  <2>1. UNCHANGED <<mode, up, end>> /\ task' \in {"reading", "over"}
    BY <1>3 DEF Take, upstream, watch, SmallInv
  <2>2. mode # "direct" /\ HasFrame
    BY <1>3 DEF Take, Translating
  <2>3. Len(buf) >= 2 /\ FrameEnd = 2
    BY <2>2, FirstFrame
  <2>4. Head(buf).f.fin \in {"none", "stop", "max", "bad"}
    <3>1. buf \in Seq(Halves) /\ Len(buf) \in Nat
      BY LenProperties DEF FrameInv
    <3>2. Head(buf) = buf[1] /\ buf[1] \in Halves
      BY <2>3, <3>1
    <3>3. Head(buf).f \in Chunks
      BY <3>2 DEF Halves
    <3>4. QED  BY <3>3, ChunksAssumption
  <2>5. \/ fin' \in {fin, "stop"}
        \/ fin' = Head(buf).f.fin /\ Head(buf).f.fin # "bad"
    BY <1>3, <2>3 DEF Take
  <2>6. fin' \in {"none", "stop", "max"}
    BY <2>4, <2>5 DEF SmallInv
  <2>7. QED  BY <2>1, <2>6 DEF SmallInv
<1>4. CASE Client \/ Leaves \/ TaskStops \/ Stopped \/ UNCHANGED vars
  BY <1>4 DEF Client, Pass, PassBytes, PassEnd, Heartbeat, Cut, Leaves, TaskStops, Stopped, Core,
              vars, upstream, watch, SmallInv
<1>5. QED  BY <1>1, <1>2, <1>3, <1>4 DEF Next, Task

LEMMA SmallInit == ASSUME Init PROVE SmallInv
BY DEF Init, SmallInv

(* An answer that its upstream did not end is not complete for the client. *)
THEOREM UnfinishedNotCompletedHolds == Spec => []UnfinishedNotCompleted
<1>1. Init => FrameInv /\ SmallInv /\ AnswerInv /\ EndedInv
  BY FrameInit, SmallInit, AnswerInit
<1>2. FrameInv /\ SmallInv /\ AnswerInv /\ EndedInv /\ [Next]_vars
        => (FrameInv /\ SmallInv /\ AnswerInv /\ EndedInv)'
  BY FrameStep, SmallStep, AnswerStep
<1>3. FrameInv /\ SmallInv /\ AnswerInv /\ EndedInv => UnfinishedNotCompleted
  BY EndedSeen DEF SmallInv
<1>4. QED  BY <1>1, <1>2, <1>3, PTL DEF Spec

LEMMA OneHalf ==
    ASSUME FrameInv, AnswerInv, ~HasFrame
    PROVE  Len(buf) <= 1
<1>0. /\ wire \in Seq(Halves) /\ buf \in Seq(Halves) /\ DOMAIN buf = 1..Len(buf)
      /\ Len(wire) \in Nat /\ Len(buf) \in Nat /\ Len(sent) \in Nat /\ Len(taken) \in Nat
  BY LenProperties DEF FrameInv
<1>1. SUFFICES ASSUME Len(buf) >= 2  PROVE FALSE
  BY <1>0
<1>2. mode # "direct"
  <2>1. buf # <<>>
    BY <1>0, <1>1
  <2>2. QED  BY <2>1 DEF AnswerInv
<1>3. /\ Len(Queue) = Len(buf) + Len(wire)
      /\ \A i \in 1..Len(buf) : Queue[i] = buf[i]
  BY <1>0, ConcatProperties DEF Queue
<1>4. Pairs(Queue, taken, sent) /\ (Even(Queue, taken, sent) \/ Odd(Queue, taken, sent))
  BY <1>2 DEF FrameInv
<1>5. 1 \in 1..(Len(sent) - Len(taken))
  BY <1>0, <1>1, <1>3, <1>4 DEF Even, Odd
<1>6. 2 * 1 <= Len(Queue) => Queue[2 * 1].ends
  BY <1>4, <1>5 DEF Pairs
<1>7. 2 \in 1..Len(buf) /\ buf[2].ends
  BY <1>0, <1>1, <1>3, <1>6
<1>8. QED  BY <1>0, <1>7 DEF HasFrame

(* The type invariant; the output indices that were given out are those of *)
(* the items that are open.                                                *)
THEOREM TypeOKHolds == Spec => []TypeOK
<1>1. Init => WatchInv /\ FrameInv /\ SmallInv /\ AnswerInv /\ EndedInv
  BY WatchInit, FrameInit, SmallInit, AnswerInit
<1>2. WatchInv /\ FrameInv /\ SmallInv /\ AnswerInv /\ EndedInv /\ [Next]_vars
        => (WatchInv /\ FrameInv /\ SmallInv /\ AnswerInv /\ EndedInv)'
  BY WatchStep, Watches, FrameStep, SmallStep, AnswerStep
<1>3. WatchInv /\ FrameInv /\ SmallInv /\ AnswerInv /\ EndedInv => TypeOK
  <2>1. SUFFICES ASSUME WatchInv, FrameInv, SmallInv, AnswerInv  PROVE TypeOK
    OBVIOUS
  <2>2. idle \in 0..Cutoff /\ half \in BOOLEAN /\ active \in BOOLEAN
    BY <2>1, CutoffAssumption DEF WatchInv, Cutoff
  <2>3. s.next = Cardinality(OpenItems(s))
    BY <2>1, ItemsCounted DEF AnswerInv
  <2>4. ~HasFrame => Len(buf) <= 1
    BY <2>1, OneHalf
  <2>5. QED  BY <2>1, <2>2, <2>3, <2>4 DEF TypeOK, SmallInv, FrameInv
<1>4. QED  BY <1>1, <1>2, <1>3, PTL DEF Spec
---------------------------------------------------------------------------
(* A recursive function over a set is defined.                             *)
Steps(n, S, a, F) == n \in Nat /\ a \in S /\ F \in [1..n -> [S -> S]]
Stepwise(n, S, a, F, g) ==
    g \in [0..n -> S] /\ g[0] = a /\ \A i \in 1..n : g[i] = F[i][g[i - 1]]

LEMMA Recursion ==
    ASSUME NEW n, NEW S, NEW a, NEW F, Steps(n, S, a, F)
    PROVE  \E g : Stepwise(n, S, a, F, g)
<1>. DEFINE Upto(m, g) == g \in [0..m -> S] /\ g[0] = a /\ \A i \in 1..m : g[i] = F[i][g[i - 1]]
            G == {m \in Nat : m <= n => \E g : Upto(m, g)}
<1>0. n \in Nat /\ a \in S /\ F \in [1..n -> [S -> S]]
  BY DEF Steps
<1>1. 0 \in G
  <2>. DEFINE g == [i \in 0..0 |-> a]
  <2>1. Upto(0, g)
    BY <1>0
  <2>2. QED  BY <2>1
<1>2. ASSUME NEW m \in Nat, m \in G  PROVE m + 1 \in G
  <2>1. SUFFICES ASSUME m + 1 <= n  PROVE \E g : Upto(m + 1, g)
    OBVIOUS
  <2>2. m <= n /\ m + 1 \in 1..n
    BY <1>0, <2>1
  <2>3. PICK g : Upto(m, g)
    BY <1>2, <2>2
  <2>. DEFINE h == [i \in 0..(m + 1) |-> IF i <= m THEN g[i] ELSE F[m + 1][g[m]]]
  <2>4. g[m] \in S /\ F[m + 1] \in [S -> S]
    BY <1>0, <2>2, <2>3
  <2>5. F[m + 1][g[m]] \in S
    BY <2>4
  <2>6. \A i \in 0..m : g[i] \in S /\ h[i] = g[i]
    BY <2>3
  <2>7. h[m + 1] = F[m + 1][g[m]] /\ h[m] = g[m] /\ h[0] = g[0]
    OBVIOUS
  <2>8. h \in [0..(m + 1) -> S]
    BY <2>3, <2>5
  <2>. HIDE DEF h
  <2>9. \A i \in 1..(m + 1) : h[i] = F[i][h[i - 1]]
    <3>1. TAKE i \in 1..(m + 1)
    <3>2. CASE i \in 1..m
      <4>1. i \in 0..m /\ i - 1 \in 0..m
        BY <3>2
      <4>2. QED  BY <2>3, <2>6, <3>2, <4>1
    <3>3. CASE i = m + 1
      <4>1. i - 1 = m
        BY <3>3
      <4>2. QED  BY <2>7, <3>3, <4>1
    <3>4. QED  BY <3>2, <3>3
  <2>10. Upto(m + 1, h)
    BY <2>3, <2>7, <2>8, <2>9
  <2>11. QED  BY <2>10
<1>. HIDE DEF G
<1>3. Nat \subseteq G
  BY <1>1, <1>2, Induction
<1>4. n \in G
  BY <1>0, <1>3
<1>5. QED  BY <1>4 DEF G, Stepwise

(* The functions behind CallsOf, BodyOf and Messages.                      *)
CallsUpto(items, g) ==
    g = [i \in 0..Len(items) |-> IF i = 0 THEN <<>> ELSE WithCallOf(g[i - 1], items[i])]
BodyUpto(items, kind, g) ==
    g = [i \in 0..Len(items) |-> IF i = 0 THEN <<>> ELSE WithBodyOf(g[i - 1], items[i], kind)]
MessagesUpto(input, g) ==
    g = [i \in 0..Len(input) |-> IF i = 0 THEN <<User>> ELSE InputItem(g[i - 1], input[i])]

LEMMA CallsAre ==
    ASSUME NEW items \in Seq(Items)
    PROVE  \E g : CallsUpto(items, g) /\ CallsOf(items) = g[Len(items)]
<1>. DEFINE n == Len(items)
            S == Seq(Items)
            F == [i \in 1..n |-> [c \in S |-> WithCallOf(c, items[i])]]
<1>1. n \in Nat /\ <<>> \in S /\ \A i \in 1..n : items[i] \in Items
  BY LenProperties, ElementOfSeq
<1>2. \A i \in 1..n : \A c \in S : WithCallOf(c, items[i]) \in S
  BY <1>1, AppendProperties DEF WithCallOf
<1>3. F \in [1..n -> [S -> S]]
  BY <1>2
<1>. HIDE DEF n
<1>4. PICK g : Stepwise(n, S, <<>>, F, g)
  <2>1. Steps(n, S, <<>>, F)
    BY <1>1, <1>3 DEF Steps
  <2>2. QED  BY <2>1, Recursion
<1>5. \A i \in 1..n : g[i] = WithCallOf(g[i - 1], items[i])
  <2>1. \A i \in 1..n : i - 1 \in 0..n
    BY <1>1
  <2>2. \A i \in 1..n : g[i - 1] \in S
    BY <1>4, <2>1 DEF Stepwise
  <2>3. QED  BY <1>4, <2>2 DEF Stepwise
<1>6. g = [i \in 0..n |-> IF i = 0 THEN <<>> ELSE WithCallOf(g[i - 1], items[i])]
  <2>1. \A i \in 0..n : g[i] = IF i = 0 THEN <<>> ELSE WithCallOf(g[i - 1], items[i])
    BY <1>1, <1>4, <1>5 DEF Stepwise
  <2>2. g = [i \in 0..n |-> g[i]]
    BY <1>4 DEF Stepwise
  <2>3. QED  BY <2>1, <2>2
<1>7. \E h : CallsUpto(items, h)
  BY <1>6 DEF CallsUpto, n
<1>8. QED  BY <1>7 DEF CallsUpto, CallsOf

LEMMA BodyIs ==
    ASSUME NEW items \in Seq(Items), NEW kind
    PROVE  \E g : BodyUpto(items, kind, g) /\ BodyOf(items, kind) = g[Len(items)]
<1>. DEFINE n == Len(items)
            S == Seq(Frags)
            F == [i \in 1..n |-> [c \in S |-> WithBodyOf(c, items[i], kind)]]
<1>1. n \in Nat /\ <<>> \in S /\ \A i \in 1..n : items[i] \in Items /\ items[i].body \in S
  <2>1. n \in Nat /\ \A i \in 1..n : items[i] \in Items
    BY LenProperties, ElementOfSeq
  <2>2. <<>> \in S /\ \A x \in Items : x.body \in S
    BY DEF Items
  <2>3. QED  BY <2>1, <2>2
<1>2. \A i \in 1..n : \A c \in S : WithBodyOf(c, items[i], kind) \in S
  BY <1>1, ConcatProperties DEF WithBodyOf
<1>3. F \in [1..n -> [S -> S]]
  BY <1>2
<1>. HIDE DEF n
<1>4. PICK g : Stepwise(n, S, <<>>, F, g)
  <2>1. Steps(n, S, <<>>, F)
    BY <1>1, <1>3 DEF Steps
  <2>2. QED  BY <2>1, Recursion
<1>5. \A i \in 1..n : g[i] = WithBodyOf(g[i - 1], items[i], kind)
  <2>1. \A i \in 1..n : i - 1 \in 0..n
    BY <1>1
  <2>2. \A i \in 1..n : g[i - 1] \in S
    BY <1>4, <2>1 DEF Stepwise
  <2>3. QED  BY <1>4, <2>2 DEF Stepwise
<1>6. g = [i \in 0..n |-> IF i = 0 THEN <<>> ELSE WithBodyOf(g[i - 1], items[i], kind)]
  <2>1. \A i \in 0..n : g[i] = IF i = 0 THEN <<>> ELSE WithBodyOf(g[i - 1], items[i], kind)
    BY <1>1, <1>4, <1>5 DEF Stepwise
  <2>2. g = [i \in 0..n |-> g[i]]
    BY <1>4 DEF Stepwise
  <2>3. QED  BY <2>1, <2>2
<1>7. \E h : BodyUpto(items, kind, h)
  BY <1>6 DEF BodyUpto, n
<1>8. QED  BY <1>7 DEF BodyUpto, BodyOf

(* The messages of the next request.                                       *)
Parts == Frags \cup Ids
Turns == [role : {"user", "assistant", "tool"}, text : Seq(Parts), reason : Seq(Parts), calls : Seq(Parts)]
Inputs == [kind : {"message", "reasoning", "call", "output"}, id : Ids, body : Seq(Frags)]
NoTurn == [role |-> "assistant", text |-> <<>>, reason |-> <<>>, calls |-> <<>>]
Tool(x) == [role |-> "tool", text |-> <<x.id>>, reason |-> <<>>, calls |-> <<>>]

LEMMA TurnsAre ==
    /\ User \in Turns /\ NoTurn \in Turns
    /\ \A x \in Inputs : Tool(x) \in Turns
    /\ \A x \in Inputs : x.body \in Seq(Parts) /\ x.id \in Parts
    /\ \A x \in Items : x \in Inputs
<1>1. <<>> \in Seq(Parts)
  OBVIOUS
<1>2. \A x \in Inputs : x.id \in Parts
  BY DEF Inputs, Parts
<1>3. ASSUME NEW x \in Inputs  PROVE x.body \in Seq(Parts)
  <2>1. x.body \in Seq(Frags)
    BY DEF Inputs
  <2>2. Seq(Frags) \subseteq Seq(Parts)
    BY DEF Parts
  <2>3. QED  BY <2>1, <2>2
<1>4. User \in Turns /\ NoTurn \in Turns
  BY <1>1 DEF User, NoTurn, Turns
<1>5. ASSUME NEW x \in Inputs  PROVE Tool(x) \in Turns
  <2>1. <<x.id>> \in Seq(Parts)
    BY <1>2
  <2>2. QED  BY <1>1, <2>1 DEF Tool, Turns
<1>6. \A x \in Items : x \in Inputs
  BY DEF Items, Inputs
<1>7. QED  BY <1>2, <1>3, <1>4, <1>5, <1>6

LEMMA LastAssistantTurns ==
    ASSUME NEW msgs \in Seq(Turns)
    PROVE  LastAssistant(msgs) \in Seq(Turns) /\ Len(LastAssistant(msgs)) \in Nat
           /\ Len(LastAssistant(msgs)) # 0
<1>1. CASE msgs # <<>> /\ Last(msgs).role = "assistant"
  BY <1>1, EmptySeq, LenProperties DEF LastAssistant
<1>2. CASE ~(msgs # <<>> /\ Last(msgs).role = "assistant")
  <2>1. LastAssistant(msgs) = Append(msgs, NoTurn)
    BY <1>2 DEF LastAssistant, NoTurn
  <2>2. Append(msgs, NoTurn) \in Seq(Turns) /\ Len(Append(msgs, NoTurn)) = Len(msgs) + 1 /\ Len(msgs) \in Nat
    BY TurnsAre, AppendProperties, LenProperties
  <2>3. QED  BY <2>1, <2>2
<1>3. QED  BY <1>1, <1>2

LEMMA InputItemTurns ==
    ASSUME NEW msgs \in Seq(Turns), NEW x \in Inputs
    PROVE  InputItem(msgs, x) \in Seq(Turns)
<1>. DEFINE m == LastAssistant(msgs)
            k == Len(m)
<1>1. m \in Seq(Turns) /\ k \in 1..Len(m) /\ Len(m) \in Nat
  BY LastAssistantTurns
<1>2. m[k] \in Turns /\ m \in [1..Len(m) -> Turns]
  BY <1>1, ElementOfSeq
<1>3. /\ m[k].text \in Seq(Parts) /\ m[k].reason \in Seq(Parts) /\ m[k].calls \in Seq(Parts)
      /\ x.body \in Seq(Parts) /\ x.id \in Parts
  BY <1>2, TurnsAre DEF Turns
<1>4. /\ m[k].text \o x.body \in Seq(Parts) /\ m[k].reason \o x.body \in Seq(Parts)
      /\ Append(m[k].calls, x.id) \in Seq(Parts)
  BY <1>3, ConcatProperties, AppendProperties
<1>5. /\ [m[k] EXCEPT !.text = m[k].text \o x.body] \in Turns
      /\ [m[k] EXCEPT !.reason = m[k].reason \o x.body] \in Turns
      /\ [m[k] EXCEPT !.calls = Append(m[k].calls, x.id)] \in Turns
  BY <1>2, <1>4 DEF Turns
<1>6. \A t \in Turns : [m EXCEPT ![k] = t] \in Seq(Turns)
  <2>1. TAKE t \in Turns
  <2>2. [m EXCEPT ![k] = t] \in [1..Len(m) -> Turns]
    BY <1>2
  <2>3. QED  BY <1>1, <2>2
<1>7. /\ [m EXCEPT ![k].text = @ \o x.body] = [m EXCEPT ![k] = [m[k] EXCEPT !.text = m[k].text \o x.body]]
      /\ [m EXCEPT ![k].reason = @ \o x.body] = [m EXCEPT ![k] = [m[k] EXCEPT !.reason = m[k].reason \o x.body]]
      /\ [m EXCEPT ![k].calls = Append(@, x.id)] = [m EXCEPT ![k] = [m[k] EXCEPT !.calls = Append(m[k].calls, x.id)]]
  OBVIOUS
<1>8. Append(msgs, Tool(x)) \in Seq(Turns)
  BY TurnsAre, AppendProperties
<1>9. InputItem(msgs, x) \in {msgs, Append(msgs, Tool(x)), [m EXCEPT ![k].text = @ \o x.body],
                              [m EXCEPT ![k].reason = @ \o x.body], [m EXCEPT ![k].calls = Append(@, x.id)]}
  BY DEF InputItem, Tool
<1>. HIDE DEF m, k
<1>10. QED  BY <1>5, <1>6, <1>7, <1>8, <1>9

LEMMA MessagesAre ==
    ASSUME NEW input \in Seq(Inputs)
    PROVE  \E g : MessagesUpto(input, g) /\ Messages(input) = g[Len(input)]
<1>. DEFINE n == Len(input)
            S == Seq(Turns)
            F == [i \in 1..n |-> [c \in S |-> InputItem(c, input[i])]]
<1>1. n \in Nat /\ <<User>> \in S /\ \A i \in 1..n : input[i] \in Inputs
  BY TurnsAre, LenProperties, ElementOfSeq
<1>2. \A i \in 1..n : \A c \in S : InputItem(c, input[i]) \in S
  BY <1>1, InputItemTurns
<1>3. F \in [1..n -> [S -> S]]
  BY <1>2
<1>. HIDE DEF n
<1>4. PICK g : Stepwise(n, S, <<User>>, F, g)
  <2>1. Steps(n, S, <<User>>, F)
    BY <1>1, <1>3 DEF Steps
  <2>2. QED  BY <2>1, Recursion
<1>5. \A i \in 1..n : g[i] = InputItem(g[i - 1], input[i])
  <2>1. \A i \in 1..n : i - 1 \in 0..n
    BY <1>1
  <2>2. \A i \in 1..n : g[i - 1] \in S
    BY <1>4, <2>1 DEF Stepwise
  <2>3. QED  BY <1>4, <2>2 DEF Stepwise
<1>6. g = [i \in 0..n |-> IF i = 0 THEN <<User>> ELSE InputItem(g[i - 1], input[i])]
  <2>0. g[0] = <<User>> /\ \A i \in 0..n : i = 0 \/ i \in 1..n
    BY <1>1, <1>4 DEF Stepwise
  <2>1. \A i \in 0..n : g[i] = IF i = 0 THEN <<User>> ELSE InputItem(g[i - 1], input[i])
    BY <1>5, <2>0
  <2>2. g = [i \in 0..n |-> g[i]]
    BY <1>4 DEF Stepwise
  <2>3. QED  BY <2>1, <2>2
<1>7. \E h : MessagesUpto(input, h)
  BY <1>6 DEF MessagesUpto, n
<1>8. QED  BY <1>7 DEF MessagesUpto, Messages
---------------------------------------------------------------------------
(* An item of the answer joins the turn of the assistant.                  *)
Joined(t, x) ==
    [role |-> "assistant", text |-> WithBodyOf(t.text, x, "message"),
     reason |-> WithBodyOf(t.reason, x, "reasoning"),
     calls |-> IF x.kind = "call" THEN Append(t.calls, x.id) ELSE t.calls]

LEMMA AssistantTurn ==
    ASSUME NEW t \in Turns, t.role = "assistant"
    PROVE  LastAssistant(<<User>>) = <<User, NoTurn>> /\ LastAssistant(<<User, t>>) = <<User, t>>
<1>1. Last(<<User>>) = User /\ User.role = "user" /\ <<User>> # <<>>
  <2>. DEFINE u == <<User>>
  <2>1. Len(u) = 1 /\ u[1] = User /\ u # <<>>
    OBVIOUS
  <2>2. User.role = "user"
    BY DEF User
  <2>. HIDE DEF u
  <2>3. Last(u) = User
    BY <2>1 DEF Last
  <2>4. QED  BY <2>1, <2>2, <2>3 DEF u
<1>2. Append(<<User>>, NoTurn) = <<User, NoTurn>>
  <2>. DEFINE u == <<User>>
              v == Append(u, NoTurn)
              w == <<User, NoTurn>>
  <2>1. u \in Seq(Turns) /\ Len(u) = 1 /\ u[1] = User
    BY TurnsAre
  <2>2. w \in Seq(Turns) /\ Len(w) = 2 /\ w[1] = User /\ w[2] = NoTurn
    BY TurnsAre
  <2>. HIDE DEF u, w
  <2>3. v \in Seq(Turns) /\ Len(v) = 2 /\ v[1] = User /\ v[2] = NoTurn
    <3>0. \A q \in Seq(Turns) : \A y \in Turns :
              /\ Append(q, y) \in Seq(Turns) /\ Len(Append(q, y)) = Len(q) + 1 /\ Append(q, y)[Len(q) + 1] = y
              /\ \A i \in 1..Len(q) : Append(q, y)[i] = q[i]
      BY AppendProperties
    <3>1. /\ v \in Seq(Turns) /\ Len(v) = Len(u) + 1 /\ v[Len(u) + 1] = NoTurn
          /\ \A i \in 1..Len(u) : v[i] = u[i]
      BY <2>1, <3>0, TurnsAre
    <3>. HIDE DEF v
    <3>2. Len(u) + 1 = 2 /\ 1 \in 1..Len(u)
      BY <2>1
    <3>3. Len(v) = 2 /\ v[2] = NoTurn
      BY <3>1, <3>2
    <3>4. v[1] = User
      BY <2>1, <3>1, <3>2
    <3>5. QED  BY <3>1, <3>3, <3>4
  <2>. HIDE DEF v
  <2>4. v = w
    BY <2>2, <2>3, SeqEqual
  <2>5. QED  BY <2>4 DEF u, v, w
<1>3. LastAssistant(<<User>>) = Append(<<User>>, NoTurn)
  BY <1>1 DEF LastAssistant, NoTurn
<1>. DEFINE m == <<User, t>>
<1>4. m # <<>> /\ Len(m) = 2 /\ m[2] = t
  OBVIOUS
<1>. HIDE DEF m
<1>5. Last(m) = t
  BY <1>4 DEF Last
<1>6. LastAssistant(m) = m
  BY <1>4, <1>5 DEF LastAssistant
<1>7. QED  BY <1>2, <1>3, <1>6 DEF m

LEMMA ItemJoins ==
    ASSUME NEW msgs, NEW t \in Turns, t.role = "assistant", LastAssistant(msgs) = <<User, t>>,
           NEW x \in Items, x.kind = "reasoning" => x.body # <<>>
    PROVE  InputItem(msgs, x) = <<User, Joined(t, x)>> /\ Joined(t, x) \in Turns
<1>. DEFINE m == <<User, t>>
<1>1. x \in Inputs /\ x.body \in Seq(Parts) /\ x.id \in Parts /\ x.kind \in {"message", "reasoning", "call"}
  BY TurnsAre DEF Items
<1>2. t.text \in Seq(Parts) /\ t.reason \in Seq(Parts) /\ t.calls \in Seq(Parts)
      /\ t = [role |-> "assistant", text |-> t.text, reason |-> t.reason, calls |-> t.calls]
  BY DEF Turns
<1>3. t.text \o x.body \in Seq(Parts) /\ t.reason \o x.body \in Seq(Parts) /\ Append(t.calls, x.id) \in Seq(Parts)
  BY <1>1, <1>2, ConcatProperties, AppendProperties
<1>4. Joined(t, x) \in Turns
  BY <1>2, <1>3 DEF Joined, WithBodyOf, Turns
<1>5. Len(m) = 2 /\ m[2] = t /\ DOMAIN m = 1..2
  OBVIOUS
<1>6. \A y : [m EXCEPT ![2] = y] = <<User, y>>
  OBVIOUS
<1>7. InputItem(msgs, x) = IF x.kind = "message" THEN [m EXCEPT ![2].text = @ \o x.body]
                           ELSE IF x.kind = "reasoning" THEN [m EXCEPT ![2].reason = @ \o x.body]
                           ELSE [m EXCEPT ![2].calls = Append(@, x.id)]
  BY <1>1, <1>5 DEF InputItem
<1>8. /\ [m EXCEPT ![2].text = @ \o x.body] = [m EXCEPT ![2] = [m[2] EXCEPT !.text = m[2].text \o x.body]]
      /\ [m EXCEPT ![2].reason = @ \o x.body] = [m EXCEPT ![2] = [m[2] EXCEPT !.reason = m[2].reason \o x.body]]
      /\ [m EXCEPT ![2].calls = Append(@, x.id)] = [m EXCEPT ![2] = [m[2] EXCEPT !.calls = Append(m[2].calls, x.id)]]
  OBVIOUS
<1>8a. /\ \A a, b, c, y : [[role |-> "assistant", text |-> a, reason |-> b, calls |-> c] EXCEPT !.text = y]
                            = [role |-> "assistant", text |-> y, reason |-> b, calls |-> c]
       /\ \A a, b, c, y : [[role |-> "assistant", text |-> a, reason |-> b, calls |-> c] EXCEPT !.reason = y]
                            = [role |-> "assistant", text |-> a, reason |-> y, calls |-> c]
       /\ \A a, b, c, y : [[role |-> "assistant", text |-> a, reason |-> b, calls |-> c] EXCEPT !.calls = y]
                            = [role |-> "assistant", text |-> a, reason |-> b, calls |-> y]
  OBVIOUS
<1>8b. /\ \A y : [t EXCEPT !.text = y] = [role |-> "assistant", text |-> y, reason |-> t.reason, calls |-> t.calls]
       /\ \A y : [t EXCEPT !.reason = y] = [role |-> "assistant", text |-> t.text, reason |-> y, calls |-> t.calls]
       /\ \A y : [t EXCEPT !.calls = y] = [role |-> "assistant", text |-> t.text, reason |-> t.reason, calls |-> y]
  BY <1>2, <1>8a
<1>8c. /\ x.kind = "message" =>
            Joined(t, x) = [role |-> "assistant", text |-> t.text \o x.body, reason |-> t.reason, calls |-> t.calls]
       /\ x.kind = "reasoning" =>
            Joined(t, x) = [role |-> "assistant", text |-> t.text, reason |-> t.reason \o x.body, calls |-> t.calls]
       /\ x.kind = "call" =>
            Joined(t, x) = [role |-> "assistant", text |-> t.text, reason |-> t.reason, calls |-> Append(t.calls, x.id)]
  BY DEF Joined, WithBodyOf
<1>. HIDE DEF m
<1>9. CASE x.kind = "message"
  <2>1. Joined(t, x) = [t EXCEPT !.text = t.text \o x.body]
    BY <1>9, <1>8b, <1>8c
  <2>2. QED  BY <1>4, <1>5, <1>6, <1>7, <1>8, <1>9, <2>1
<1>10. CASE x.kind = "reasoning"
  <2>1. Joined(t, x) = [t EXCEPT !.reason = t.reason \o x.body]
    BY <1>10, <1>8b, <1>8c
  <2>2. QED  BY <1>4, <1>5, <1>6, <1>7, <1>8, <1>10, <2>1
<1>11. CASE x.kind = "call"
  <2>1. Joined(t, x) = [t EXCEPT !.calls = Append(t.calls, x.id)]
    BY <1>11, <1>8b, <1>8c
  <2>2. QED  BY <1>4, <1>5, <1>6, <1>7, <1>8, <1>11, <2>1
<1>12. QED  BY <1>1, <1>9, <1>10, <1>11

(* The turn that the first items make.                                     *)
IdsOf(calls) == [i \in DOMAIN calls |-> calls[i].id]
Turn(text, reason, calls) == [role |-> "assistant", text |-> text, reason |-> reason, calls |-> IdsOf(calls)]

LEMMA TurnJoins ==
    ASSUME NEW text, NEW reason, NEW calls \in Seq(Items), NEW x \in Items
    PROVE  Joined(Turn(text, reason, calls), x)
             = Turn(WithBodyOf(text, x, "message"), WithBodyOf(reason, x, "reasoning"), WithCallOf(calls, x))
<1>1. IdsOf(Append(calls, x)) = Append(IdsOf(calls), x.id)
  <2>. DEFINE a == Append(calls, x)
              n == Len(calls)
              ids == IdsOf(calls)
  <2>1. n \in Nat /\ DOMAIN calls = 1..n /\ DOMAIN a = 1..(n + 1) /\ a[n + 1] = x
        /\ \A i \in 1..n : a[i] = calls[i] /\ calls[i] \in Items
    BY AppendProperties, LenProperties, ElementOfSeq
  <2>. HIDE DEF a, n
  <2>2. ids = [i \in 1..n |-> calls[i].id] /\ \A i \in 1..n : calls[i].id \in Ids
    BY <2>1 DEF IdsOf, Items
  <2>3. ids \in Seq(Ids) /\ Len(ids) = n /\ \A i \in 1..n : ids[i] = calls[i].id
    BY <2>1, <2>2
  <2>4. x.id \in Ids
    BY DEF Items
  <2>. DEFINE y == x.id
  <2>. HIDE DEF ids, y
  <2>5. /\ Append(ids, y) \in Seq(Ids) /\ Len(Append(ids, y)) = n + 1 /\ Append(ids, y)[n + 1] = y
        /\ \A i \in 1..n : Append(ids, y)[i] = ids[i]
    BY <2>3, <2>4, AppendProperties DEF y
  <2>6. IdsOf(a) = [i \in 1..(n + 1) |-> a[i].id]
    BY <2>1 DEF IdsOf
  <2>7. \A i \in 1..(n + 1) : a[i].id = Append(ids, y)[i]
    BY <2>1, <2>3, <2>5 DEF y
  <2>8. Append(ids, y) = [i \in 1..(n + 1) |-> Append(ids, y)[i]]
    BY <2>1, <2>5, LenProperties
  <2>9. IdsOf(a) = Append(ids, y)
    BY <2>6, <2>7, <2>8
  <2>10. QED  BY <2>9 DEF a, ids, y
<1>2. QED  BY <1>1 DEF Joined, Turn, WithCallOf
---------------------------------------------------------------------------
(* What the four functions behind a request have after m items.            *)
Traced(items, input, g, c, b, r) ==
    /\ Sendable(items) /\ input \in Seq(Inputs) /\ Len(items) <= Len(input)
    /\ \A i \in 1..Len(items) : input[i] = items[i]
    /\ MessagesUpto(input, g) /\ CallsUpto(items, c)
    /\ BodyUpto(items, "message", b) /\ BodyUpto(items, "reasoning", r)

JoinedAt(g, c, b, r, m) ==
    /\ c[m] \in Seq(Items) /\ b[m] \in Seq(Frags) /\ r[m] \in Seq(Frags)
    /\ LastAssistant(g[m]) = <<User, Turn(b[m], r[m], c[m])>>
    /\ m # 0 => g[m] = <<User, Turn(b[m], r[m], c[m])>>

LEMMA SendableItems ==
    ASSUME NEW items, Sendable(items)
    PROVE  /\ items \in Seq(Items)
           /\ \A i \in 1..Len(items) : items[i].kind = "reasoning" => items[i].body # <<>>
<1>1. items \in Seq(Items)
  BY SeqMonotonic DEF Sendable, Full
<1>2. \A i \in 1..Len(items) : items[i] \in Full
  BY ElementOfSeq DEF Sendable
<1>3. QED  BY <1>1, <1>2 DEF Full

LEMMA TurnIs ==
    ASSUME NEW text \in Seq(Frags), NEW reason \in Seq(Frags), NEW calls \in Seq(Items)
    PROVE  Turn(text, reason, calls) \in Turns /\ Turn(text, reason, calls).role = "assistant"
<1>1. text \in Seq(Parts) /\ reason \in Seq(Parts)
  BY SeqMonotonic DEF Parts
<1>2. IdsOf(calls) \in Seq(Parts)
  <2>1. Len(calls) \in Nat /\ DOMAIN calls = 1..Len(calls) /\ \A i \in 1..Len(calls) : calls[i] \in Items
    BY LenProperties, ElementOfSeq
  <2>2. \A i \in 1..Len(calls) : calls[i].id \in Parts
    BY <2>1 DEF Items, Parts
  <2>3. IdsOf(calls) \in [1..Len(calls) -> Parts]
    BY <2>1, <2>2 DEF IdsOf
  <2>. HIDE DEF IdsOf
  <2>4. QED  BY <2>1, <2>3
<1>3. QED  BY <1>1, <1>2 DEF Turn, Turns

LEMMA Unfolded ==
    ASSUME NEW items, NEW input, NEW g, NEW c, NEW b, NEW r, Traced(items, input, g, c, b, r)
    PROVE  /\ items \in Seq(Items) /\ Len(items) \in Nat /\ Len(input) \in Nat
           /\ \A i \in 1..Len(items) : items[i] \in Items /\ (items[i].kind = "reasoning" => items[i].body # <<>>)
           /\ g[0] = <<User>> /\ c[0] = <<>> /\ b[0] = <<>> /\ r[0] = <<>>
           /\ \A i \in 1..Len(input) : g[i] = InputItem(g[i - 1], input[i])
           /\ \A i \in 1..Len(items) :
                /\ c[i] = WithCallOf(c[i - 1], items[i])
                /\ b[i] = WithBodyOf(b[i - 1], items[i], "message")
                /\ r[i] = WithBodyOf(r[i - 1], items[i], "reasoning")
<1>1. items \in Seq(Items) /\ input \in Seq(Inputs)
      /\ \A i \in 1..Len(items) : items[i].kind = "reasoning" => items[i].body # <<>>
  BY SendableItems DEF Traced
<1>2. Len(items) \in Nat /\ Len(input) \in Nat /\ \A i \in 1..Len(items) : items[i] \in Items
  BY <1>1, LenProperties, ElementOfSeq
<1>3. g[0] = <<User>> /\ \A i \in 1..Len(input) : g[i] = InputItem(g[i - 1], input[i])
  <2>1. g = [i \in 0..Len(input) |-> IF i = 0 THEN <<User>> ELSE InputItem(g[i - 1], input[i])]
    BY DEF Traced, MessagesUpto
  <2>2. QED  BY <1>2, <2>1
<1>4. c[0] = <<>> /\ \A i \in 1..Len(items) : c[i] = WithCallOf(c[i - 1], items[i])
  <2>1. c = [i \in 0..Len(items) |-> IF i = 0 THEN <<>> ELSE WithCallOf(c[i - 1], items[i])]
    BY DEF Traced, CallsUpto
  <2>2. QED  BY <1>2, <2>1
<1>5. b[0] = <<>> /\ \A i \in 1..Len(items) : b[i] = WithBodyOf(b[i - 1], items[i], "message")
  <2>1. b = [i \in 0..Len(items) |-> IF i = 0 THEN <<>> ELSE WithBodyOf(b[i - 1], items[i], "message")]
    BY DEF Traced, BodyUpto
  <2>2. QED  BY <1>2, <2>1
<1>6. r[0] = <<>> /\ \A i \in 1..Len(items) : r[i] = WithBodyOf(r[i - 1], items[i], "reasoning")
  <2>1. r = [i \in 0..Len(items) |-> IF i = 0 THEN <<>> ELSE WithBodyOf(r[i - 1], items[i], "reasoning")]
    BY DEF Traced, BodyUpto
  <2>2. QED  BY <1>2, <2>1
<1>7. QED  BY <1>1, <1>2, <1>3, <1>4, <1>5, <1>6

LEMMA JoinsOne ==
    ASSUME NEW items, NEW input, NEW g, NEW c, NEW b, NEW r, Traced(items, input, g, c, b, r),
           NEW m \in Nat, m < Len(items), JoinedAt(g, c, b, r, m)
    PROVE  JoinedAt(g, c, b, r, m + 1)
<1>. DEFINE k == m + 1
            x == items[k]
            t == Turn(b[m], r[m], c[m])
<1>1. k \in 1..Len(items) /\ k \in 1..Len(input) /\ k - 1 = m /\ k # 0
  BY Unfolded DEF Traced
<1>2. /\ g[k] = InputItem(g[m], x) /\ c[k] = WithCallOf(c[m], x)
      /\ b[k] = WithBodyOf(b[m], x, "message") /\ r[k] = WithBodyOf(r[m], x, "reasoning")
      /\ x \in Items /\ (x.kind = "reasoning" => x.body # <<>>)
  BY <1>1, Unfolded DEF Traced
<1>. HIDE DEF k, x
<1>3. c[m] \in Seq(Items) /\ b[m] \in Seq(Frags) /\ r[m] \in Seq(Frags) /\ LastAssistant(g[m]) = <<User, t>>
  BY DEF JoinedAt
<1>4. t \in Turns /\ t.role = "assistant"
  BY <1>3, TurnIs
<1>5. Joined(t, x) = Turn(b[k], r[k], c[k])
  BY <1>2, <1>3, TurnJoins
<1>. HIDE DEF t
<1>6. g[k] = <<User, Joined(t, x)>>
  BY <1>2, <1>3, <1>4, ItemJoins
<1>7. c[k] \in Seq(Items) /\ b[k] \in Seq(Frags) /\ r[k] \in Seq(Frags)
  <2>1. x.body \in Seq(Frags)
    BY <1>2 DEF Items
  <2>2. QED  BY <1>2, <1>3, <2>1, AppendProperties, ConcatProperties DEF WithCallOf, WithBodyOf
<1>8. LastAssistant(g[k]) = <<User, Turn(b[k], r[k], c[k])>>
  BY <1>5, <1>6, <1>7, TurnIs, AssistantTurn
<1>9. JoinedAt(g, c, b, r, k)
  BY <1>5, <1>6, <1>7, <1>8 DEF JoinedAt
<1>10. QED  BY <1>9 DEF k

LEMMA ItemsJoin ==
    ASSUME NEW items, NEW input, NEW g, NEW c, NEW b, NEW r, Traced(items, input, g, c, b, r)
    PROVE  JoinedAt(g, c, b, r, Len(items))
<1>. DEFINE G == {m \in Nat : m <= Len(items) => JoinedAt(g, c, b, r, m)}
<1>1. 0 \in G
  <2>1. g[0] = <<User>> /\ c[0] = <<>> /\ b[0] = <<>> /\ r[0] = <<>>
    BY Unfolded
  <2>2. Turn(<<>>, <<>>, <<>>) = NoTurn
    BY DEF Turn, NoTurn, IdsOf
  <2>3. LastAssistant(<<User>>) = <<User, NoTurn>>
    BY TurnsAre, AssistantTurn DEF NoTurn
  <2>4. JoinedAt(g, c, b, r, 0)
    BY <2>1, <2>2, <2>3 DEF JoinedAt
  <2>5. QED  BY <2>4
<1>2. ASSUME NEW m \in Nat, m \in G  PROVE m + 1 \in G
  <2>1. CASE m < Len(items)
    <3>1. JoinedAt(g, c, b, r, m + 1)
      BY <1>2, <2>1, JoinsOne
    <3>2. QED  BY <3>1
  <2>2. CASE ~(m < Len(items))
    <3>1. ~(m + 1 <= Len(items))
      BY <2>2, Unfolded
    <3>2. QED  BY <3>1
  <2>3. QED  BY <2>1, <2>2
<1>. HIDE DEF G
<1>3. Nat \subseteq G
  BY <1>1, <1>2, Induction
<1>4. Len(items) \in G
  BY <1>3, Unfolded
<1>5. QED  BY <1>4, Unfolded DEF G
---------------------------------------------------------------------------
(* The outputs that follow the items.                                      *)
OutputsOf(calls) == [i \in DOMAIN calls |-> [calls[i] EXCEPT !.kind = "output"]]

LEMMA OutputsAre ==
    ASSUME NEW calls \in Seq(Items)
    PROVE  /\ OutputsOf(calls) \in Seq(Inputs) /\ Len(OutputsOf(calls)) = Len(calls)
           /\ \A i \in 1..Len(calls) :
                OutputsOf(calls)[i].kind = "output" /\ OutputsOf(calls)[i].id = calls[i].id
<1>. DEFINE o == OutputsOf(calls)
            n == Len(calls)
<1>1. n \in Nat /\ DOMAIN calls = 1..n /\ \A i \in 1..n : calls[i] \in Items
  BY LenProperties, ElementOfSeq
<1>2. \A x \in Items : /\ [x EXCEPT !.kind = "output"] \in Inputs
                       /\ [x EXCEPT !.kind = "output"].kind = "output"
                       /\ [x EXCEPT !.kind = "output"].id = x.id
  BY DEF Items, Inputs
<1>3. o = [i \in 1..n |-> [calls[i] EXCEPT !.kind = "output"]]
  BY <1>1 DEF OutputsOf
<1>. HIDE DEF o, n
<1>3a. \A i \in 1..n : o[i] = [calls[i] EXCEPT !.kind = "output"]
  BY <1>3
<1>4. o \in [1..n -> Inputs] /\ \A i \in 1..n : o[i].kind = "output" /\ o[i].id = calls[i].id
  <2>1. \A i \in 1..n : o[i] \in Inputs /\ o[i].kind = "output" /\ o[i].id = calls[i].id
    BY <1>1, <1>2, <1>3a
  <2>2. o = [i \in 1..n |-> o[i]]
    BY <1>3
  <2>3. QED  BY <2>1, <2>2
<1>5. o \in Seq(Inputs) /\ Len(o) = n
  BY <1>1, <1>4
<1>6. QED  BY <1>4, <1>5 DEF o, n

LEMMA OutputJoins ==
    ASSUME NEW msgs \in Seq(Turns), NEW x \in Inputs, x.kind = "output"
    PROVE  /\ InputItem(msgs, x) \in Seq(Turns) /\ Len(InputItem(msgs, x)) = Len(msgs) + 1
           /\ InputItem(msgs, x)[Len(msgs) + 1].text = <<x.id>>
           /\ \A i \in 1..Len(msgs) : InputItem(msgs, x)[i] = msgs[i]
<1>1. InputItem(msgs, x) = Append(msgs, Tool(x))
  BY DEF InputItem, Tool
<1>2. Tool(x) \in Turns /\ Tool(x).text = <<x.id>>
  BY TurnsAre DEF Tool
<1>3. \A y \in Turns :
        /\ Append(msgs, y) \in Seq(Turns) /\ Len(Append(msgs, y)) = Len(msgs) + 1 /\ Append(msgs, y)[Len(msgs) + 1] = y
        /\ \A i \in 1..Len(msgs) : Append(msgs, y)[i] = msgs[i]
  BY AppendProperties
<1>4. QED  BY <1>1, <1>2, <1>3

(* The messages after j outputs.                                           *)
AnsweredBy(msgs, t, calls, j) ==
    /\ msgs \in Seq(Turns) /\ Len(msgs) = 2 + j /\ msgs[2] = t
    /\ \A i \in 1..j : msgs[2 + i].text = <<calls[i].id>>

LEMMA OutputsJoin ==
    ASSUME NEW msgs, NEW t, NEW calls \in Seq(Items), NEW g, NEW n \in Nat, NEW input,
           AnsweredBy(g[n], t, calls, 0), input \in Seq(Inputs),
           Len(input) = n + Len(calls),
           \A i \in 1..Len(calls) : input[n + i] = OutputsOf(calls)[i],
           \A i \in 1..Len(input) : g[i] = InputItem(g[i - 1], input[i])
    PROVE  AnsweredBy(g[n + Len(calls)], t, calls, Len(calls))
<1>. DEFINE K == Len(calls)
            G == {j \in Nat : j <= K => AnsweredBy(g[n + j], t, calls, j)}
<1>0. K \in Nat /\ \A i \in 1..K : OutputsOf(calls)[i].kind = "output" /\ OutputsOf(calls)[i].id = calls[i].id
                                     /\ OutputsOf(calls)[i] \in Inputs
  BY LenProperties, OutputsAre, ElementOfSeq
<1>1. 0 \in G
  OBVIOUS
<1>2. ASSUME NEW j \in Nat, j \in G  PROVE j + 1 \in G
  <2>. DEFINE k == j + 1
              x == OutputsOf(calls)[k]
              a == g[n + j]
              b == g[n + k]
  <2>1. SUFFICES ASSUME k <= K  PROVE AnsweredBy(b, t, calls, k)
    OBVIOUS
  <2>2. k \in 1..K /\ n + k \in 1..Len(input) /\ (n + k) - 1 = n + j
    BY <1>0, <2>1
  <2>3. b = InputItem(a, x) /\ x \in Inputs /\ x.kind = "output" /\ x.id = calls[k].id
    BY <1>0, <2>2
  <2>4. AnsweredBy(a, t, calls, j)
    BY <1>2, <2>1, <1>0
  <2>. HIDE DEF a, b, x
  <2>5. a \in Seq(Turns) /\ Len(a) = 2 + j /\ a[2] = t /\ \A i \in 1..j : a[2 + i].text = <<calls[i].id>>
    BY <2>4 DEF AnsweredBy
  <2>6. /\ b \in Seq(Turns) /\ Len(b) = Len(a) + 1 /\ b[Len(a) + 1].text = <<x.id>>
        /\ \A i \in 1..Len(a) : b[i] = a[i]
    BY <2>3, <2>5, OutputJoins
  <2>7. Len(b) = 2 + k /\ Len(a) + 1 = 2 + k /\ 2 \in 1..Len(a)
    BY <2>5, <2>6
  <2>8. ASSUME NEW i \in 1..k  PROVE b[2 + i].text = <<calls[i].id>>
    <3>1. CASE i = k
      BY <2>3, <2>6, <2>7, <3>1
    <3>2. CASE i \in 1..j
      <4>1. 2 + i \in 1..Len(a)
        BY <2>5, <3>2
      <4>2. QED  BY <2>5, <2>6, <3>2, <4>1
    <3>3. QED  BY <3>1, <3>2
  <2>9. QED  BY <2>5, <2>6, <2>7, <2>8 DEF AnsweredBy
<1>. HIDE DEF G, K
<1>3. Nat \subseteq G
  BY <1>1, <1>2, Induction
<1>4. K \in G
  BY <1>0, <1>3
<1>5. QED  BY <1>0, <1>4 DEF G, K

(* The next request carries the whole answer.                              *)
WholeRequest(items) ==
    LET msgs == NextRequest(items)
        calls == CallsOf(items)
    IN  /\ Len(msgs) = 2 + Len(calls)
        /\ msgs[2].role = "assistant"
        /\ msgs[2].text = BodyOf(items, "message") /\ msgs[2].reason = BodyOf(items, "reasoning")
        /\ msgs[2].calls = [i \in DOMAIN calls |-> calls[i].id]
        /\ \A i \in DOMAIN calls : msgs[2 + i].text = <<calls[i].id>>

LEMMA RequestIsWhole ==
    ASSUME NEW items, Sendable(items), items # <<>>
    PROVE  WholeRequest(items)
<1>. DEFINE n == Len(items)
            calls == CallsOf(items)
            outs == OutputsOf(calls)
            input == items \o outs
<1>1. items \in Seq(Items) /\ n \in Nat /\ n # 0 /\ items \in Seq(Inputs)
  <2>1. items \in Seq(Items)
    BY SendableItems
  <2>2. Items \subseteq Inputs
    BY TurnsAre
  <2>3. QED  BY <2>1, <2>2, EmptySeq, LenProperties, SeqMonotonic
<1>2. PICK c : CallsUpto(items, c) /\ calls = c[n]
  BY <1>1, CallsAre
<1>3. PICK b : BodyUpto(items, "message", b) /\ BodyOf(items, "message") = b[n]
  BY <1>1, BodyIs
<1>4. PICK r : BodyUpto(items, "reasoning", r) /\ BodyOf(items, "reasoning") = r[n]
  BY <1>1, BodyIs
<1>5. calls \in Seq(Items)
  <2>1. PICK g : MessagesUpto(items, g)
    BY <1>1, MessagesAre
  <2>2. Traced(items, items, g, c, b, r)
    BY <1>1, <1>2, <1>3, <1>4, <2>1 DEF Traced
  <2>3. QED  BY <1>2, <2>2, ItemsJoin DEF JoinedAt
<1>. HIDE DEF calls
<1>6. outs \in Seq(Inputs) /\ Len(outs) = Len(calls) /\ Len(calls) \in Nat /\ DOMAIN calls = 1..Len(calls)
  BY <1>5, OutputsAre, LenProperties
<1>. HIDE DEF outs
<1>7. /\ input \in Seq(Inputs) /\ Len(input) = n + Len(calls)
      /\ \A i \in 1..n : input[i] = items[i]
      /\ \A i \in 1..Len(calls) : input[n + i] = outs[i]
  <2>1. /\ input \in Seq(Inputs) /\ Len(input) = n + Len(outs)
        /\ \A i \in 1..n + Len(outs) : input[i] = IF i <= n THEN items[i] ELSE outs[i - n]
    BY <1>1, <1>6, ConcatProperties
  <2>. HIDE DEF input, n
  <2>2. \A i \in 1..n : i \in 1..n + Len(outs) /\ i <= n
    BY <1>1, <1>6
  <2>3. \A i \in 1..Len(calls) : n + i \in 1..n + Len(outs) /\ ~(n + i <= n) /\ (n + i) - n = i
    BY <1>1, <1>6
  <2>4. QED  BY <1>6, <2>1, <2>2, <2>3
<1>. HIDE DEF input
<1>8. PICK g : MessagesUpto(input, g) /\ Messages(input) = g[Len(input)]
  BY <1>7, MessagesAre
<1>9. NextRequest(items) = g[n + Len(calls)]
  BY <1>7, <1>8 DEF NextRequest, calls, outs, OutputsOf, input
<1>10. Traced(items, input, g, c, b, r)
  BY <1>1, <1>2, <1>3, <1>4, <1>6, <1>7, <1>8 DEF Traced
<1>11. JoinedAt(g, c, b, r, n)
  BY <1>10, ItemsJoin
<1>. DEFINE t == Turn(b[n], r[n], c[n])
<1>12. g[n] = <<User, t>> /\ t \in Turns
  BY <1>1, <1>11, TurnIs DEF JoinedAt
<1>13. AnsweredBy(g[n], t, calls, 0)
  <2>. HIDE DEF t
  <2>1. \A y \in Turns : <<User, y>> \in Seq(Turns) /\ Len(<<User, y>>) = 2 /\ <<User, y>>[2] = y
    BY TurnsAre
  <2>2. QED  BY <1>12, <2>1 DEF AnsweredBy
<1>14. \A i \in 1..Len(input) : g[i] = InputItem(g[i - 1], input[i])
  BY <1>10, Unfolded
<1>15. AnsweredBy(g[n + Len(calls)], t, calls, Len(calls))
  <2>. HIDE DEF t, n
  <2>1. QED  BY <1>1, <1>5, <1>7, <1>13, <1>14, OutputsJoin DEF outs
<1>16. /\ t.role = "assistant" /\ t.text = BodyOf(items, "message") /\ t.reason = BodyOf(items, "reasoning")
       /\ t.calls = [i \in DOMAIN calls |-> calls[i].id]
  BY <1>2, <1>3, <1>4 DEF Turn, IdsOf
<1>. HIDE DEF t
<1>17. QED  BY <1>6, <1>9, <1>15, <1>16 DEF WholeRequest, AnsweredBy, calls
---------------------------------------------------------------------------
LEMMA WholeSeen ==
    ASSUME AnswerInv, EndedInv
    PROVE  NextRequestIsWhole
<1>1. SUFFICES ASSUME mode \in {"http", "ws"}, Completed, Last(seen).item # <<>>
               PROVE  WholeRequest(Last(seen).item)
  BY DEF NextRequestIsWhole, WholeRequest
<1>2. IsCompleted(History) /\ Last(seen) = History[Len(History)] /\ mode # "google"
  BY <1>1, CompletedSeen
<1>3. Sendable(Last(seen).item)
  BY <1>2 DEF EndedInv
<1>4. QED  BY <1>1, <1>3, RequestIsWhole

(* Whatever an answer consists of, the request that follows it carries its *)
(* text, its reasoning and its calls in one message, each call before its  *)
(* output.                                                                 *)
THEOREM NextRequestIsWholeHolds == Spec => []NextRequestIsWhole
<1>1. Init => FrameInv /\ AnswerInv /\ EndedInv
  BY FrameInit, AnswerInit
<1>2. FrameInv /\ AnswerInv /\ EndedInv /\ [Next]_vars => (FrameInv /\ AnswerInv /\ EndedInv)'
  BY FrameStep, AnswerStep
<1>3. FrameInv /\ AnswerInv /\ EndedInv => NextRequestIsWhole
  BY WholeSeen
<1>4. QED  BY <1>1, <1>2, <1>3, PTL DEF Spec
=============================================================================
