---------------------------- MODULE RelayStream ----------------------------
(***************************************************************************)
(* An answer that streams through the proxy: the frames the upstream       *)
(* sends, the buffer that finds them again in what the network delivers,   *)
(* the translator from chat-completions deltas to events of the Responses  *)
(* API, the way each transport ends an answer, the watchdog around what    *)
(* the client reads, and the next request, which carries the answer back.  *)
(*                                                                         *)
(* Four transports: "http" and "ws" are a relay reached by POST or by the  *)
(* adapter of a WebSocket, "google" is the Antigravity stream, "direct" is *)
(* ChatGPT's own stream, whose bytes pass unchanged.                       *)
(*                                                                         *)
(* A frame on the wire is two halves: its lines, and the blank line that   *)
(* ends it; the network may cut between them.  Text is a sequence of       *)
(* fragments.  Time counts heartbeats of the watchdog (30 s).              *)
(***************************************************************************)
EXTENDS Integers, SequencesExt

CONSTANTS
    Modes,         \* the transports that are explored
    Chunks,        \* bound: the frames an upstream may send
    Declared,      \* ids of calls to tools that the request declared
    Custom,        \* ids of calls to custom tools (Google only)
    MaxFrames,     \* bound: frames the upstream sends
    FirstCutoff,   \* heartbeats without a first event (60 s: 2)
    BetweenCutoff  \* heartbeats between two events (270 s: 9)

ASSUME CutoffAssumption ==
    /\ Modes \subseteq {"http", "ws", "google", "direct"}
    /\ MaxFrames \in Nat
    /\ FirstCutoff \in Nat \ {0} /\ BetweenCutoff \in Nat \ {0}

\* A frame: what it is, the parts of calls it has (arguments come in pieces),
\* reasoning, text, a signature, usage, and the reason to stop.
ASSUME ChunksAssumption ==
    Chunks \subseteq
      [k : {"data", "done", "comment", "error"},
       tools : Seq([slot : Nat, id : STRING, args : {"", "open", "close", "whole"}]),
       reason : BOOLEAN, text : BOOLEAN, sig : BOOLEAN, usage : BOOLEAN,
       fin : {"none", "stop", "max", "bad"}]

VARIABLES
    mode,
    up,      \* the upstream: waiting, open, done (no more frames), eof, error
    sent,    \* the frames it has sent
    wire,    \* halves under way
    buf,     \* ChatSseBuffer, or the buffer of AntigravityCodexStream
    s,       \* TranslatorState
    fin,     \* finish_reason of AntigravityCodexStream
    task,    \* the task that translates: "reading" or "over"
    taken,   \* the frames it has taken from the buffer
    out,     \* events on their way to the client
    seen,    \* events the client has seen
    idle,    \* heartbeats since last_semantic_activity
    silent,  \* heartbeats since the client last got an event
    half,    \* event_has_data of the detector
    active,  \* saw_semantic_event
    end      \* how the stream ended for the client: "open", "eof", "cut"

upstream == <<up, sent>>
watch == <<idle, silent, half, active, end>>
vars == <<mode, upstream, wire, buf, s, fin, task, taken, out, seen, watch>>

None == -1

NewState(google) ==
    [n |-> 0, next |-> 0, msg |-> None, text |-> <<>>, rsn |-> None,
     reason |-> <<>>, sig |-> FALSE, usage |-> FALSE, calls |-> <<>>,
     final |-> FALSE, google |-> google]

Init ==
    /\ mode \in Modes
    /\ up = "waiting" /\ sent = <<>> /\ wire = <<>>
    /\ buf = <<>> /\ s = NewState(mode = "google") /\ fin = "none"
    /\ task = "reading" /\ taken = <<>> /\ out = <<>> /\ seen = <<>>
    /\ idle = 0 /\ silent = 0 /\ half = FALSE /\ active = FALSE /\ end = "open"

(***************************************************************************)
(* The translator.  A step of it works on a state and the events it has    *)
(* put out so far: w = [s, ev].                                            *)
(***************************************************************************)
Work(st) == [s |-> st, ev |-> <<>>]

\* encode_event
Emit(w, type, idx, item) ==
    [s |-> [w.s EXCEPT !.n = @ + 1],
     ev |-> Append(w.ev, [type |-> type, idx |-> idx, n |-> w.s.n + 1, item |-> item])]

Message(body) == [kind |-> "message", id |-> "", body |-> body]
Reasoning(body) == [kind |-> "reasoning", id |-> "", body |-> body]
Call(id, body) == [kind |-> "call", id |-> id, body |-> body]

\* Arguments that parse as JSON.
Whole(args) == args \in {<<"whole">>, <<"open", "close">>}

\* Mutant: each frame that is signed opens a carrier.
CarrierEachTime(w, ch) ==
    LET u == [w EXCEPT !.s.sig = @ \/ ch.sig]
    IN  IF u.s.google /\ u.s.sig
        THEN Emit([u EXCEPT !.s.rsn = w.s.next, !.s.next = @ + 1],
                  "added", w.s.next, Reasoning(<<>>))
        ELSE u

\* A carrier for Google's signature, which Codex would drop elsewhere.
Carrier(w, ch) ==
    LET u == [w EXCEPT !.s.sig = @ \/ ch.sig]
    IN  IF u.s.google /\ u.s.sig /\ u.s.rsn = None
        THEN Emit([u EXCEPT !.s.rsn = w.s.next, !.s.next = @ + 1],
                  "added", w.s.next, Reasoning(<<>>))
        ELSE u

\* Google numbers the calls of each frame from 0: they are told apart by id.
Slot(st, d) ==
    LET known == {k \in DOMAIN st.calls : st.calls[k].id = d.id}
    IN  IF ~st.google THEN d.slot
        ELSE IF known # {} THEN CHOOSE k \in known : TRUE
        ELSE IF d.slot \in DOMAIN st.calls
             THEN 1 + CHOOSE k \in DOMAIN st.calls : \A j \in DOMAIN st.calls : j <= k
             ELSE d.slot

OpenCall(w, k, d) ==
    IF k \in DOMAIN w.s.calls THEN w
    ELSE Emit([w EXCEPT !.s.calls = [j \in DOMAIN @ \cup {k} |->
                  IF j = k THEN [idx |-> w.s.next, id |-> d.id, args |-> <<>>] ELSE @[j]],
                        !.s.next = @ + 1],
              "added", w.s.next, Call(d.id, <<>>))

\* Arguments go to the client as they come; the input of a custom tool only
\* once all of it can be parsed.
ToolDelta(w, d) ==
    LET k == Slot(w.s, d)
        o == OpenCall(w, k, d)
        args == Append(o.s.calls[k].args, d.args)
        u == [o EXCEPT !.s.calls[k].args = args]
        custom == w.s.google /\ d.id \in Custom
    IN  IF d.args = "" THEN o
        ELSE IF custom /\ ~Whole(args) THEN u
        ELSE Emit(u, "delta", u.s.calls[k].idx,
                  Call(u.s.calls[k].id, IF custom THEN args ELSE <<d.args>>))

\* The calls of one frame, one after the other.
ToolDeltas(w, tools) ==
    LET after[i \in 0..Len(tools)] ==
            IF i = 0 THEN w ELSE ToolDelta(after[i - 1], tools[i])
    IN  after[Len(tools)]

ReasonDelta(w, ch) ==
    IF ~ch.reason THEN w
    ELSE LET u == [w EXCEPT !.s.reason = Append(@, "r")]
             o == IF w.s.rsn # None THEN u
                  ELSE Emit([u EXCEPT !.s.rsn = w.s.next, !.s.next = @ + 1],
                            "added", w.s.next, Reasoning(<<>>))
         IN  Emit(o, "delta", o.s.rsn, Reasoning(<<"r">>))

TextDelta(w, ch) ==
    IF ~ch.text THEN w
    ELSE LET u == [w EXCEPT !.s.text = Append(@, "t")]
             o == IF w.s.msg # None THEN u
                  ELSE Emit([u EXCEPT !.s.msg = w.s.next, !.s.next = @ + 1],
                            "added", w.s.next, Message(<<>>))
         IN  Emit(o, "delta", o.s.msg, Message(<<"t">>))

\* handle_chunk: carrier, calls, reasoning and text, in this order.
HandleChunk(st, ch) ==
    IF st.final THEN Work(st)
    ELSE LET w == Carrier(Work([st EXCEPT !.usage = @ \/ ch.usage]), ch)
         IN  TextDelta(ReasonDelta(ToolDeltas(w, ch.tools), ch), ch)

\* The items that are open, by output index: a message, the reasoning, calls.
OpenItems(st) ==
    (IF st.msg = None THEN {} ELSE {<<st.msg, Message(st.text)>>})
    \cup (IF st.rsn = None THEN {} ELSE {<<st.rsn, Reasoning(st.reason)>>})
    \cup {<<st.calls[k].idx, Call(st.calls[k].id, st.calls[k].args)>> : k \in DOMAIN st.calls}

\* Mutant: closed in the order message, reasoning, calls.
ClosingUnsorted(st) ==
    LET open == OpenItems(st)
    IN  CHOOSE q \in [1..Cardinality(open) -> open] :
          /\ Range(q) = open
          /\ \A i, j \in DOMAIN q : q[i][2].kind = "message" => i <= j

\* closing, sorted by output index.
Closing(st) ==
    LET open == OpenItems(st)
    IN  CHOOSE q \in [1..Cardinality(open) -> open] :
          /\ Range(q) = open
          /\ \A i, j \in DOMAIN q : i < j => q[i][1] < q[j][1]

Output(st) ==
    LET closing == Closing(st)
    IN  [i \in DOMAIN closing |-> closing[i][2]]

Terminal(w, type, output) ==
    Emit([w EXCEPT !.s.final = TRUE], type, None, output)

EmitFailed(st) ==
    IF st.final THEN Work(st) ELSE Terminal(Work(st), "failed", <<>>)

WithoutCalls(output) == SelectSeq(output, LAMBDA x : x.kind # "call")

EmitIncomplete(st) ==
    IF st.final THEN Work(st) ELSE Terminal(Work(st), "incomplete", WithoutCalls(Output(st)))

\* emit_completed: a done event for each open item, and then the end.
EmitCompleted(st) ==
    IF st.final THEN Work(st)
    ELSE LET closing == Closing(st)
             done == [i \in DOMAIN closing |-> [type |-> "done", idx |-> closing[i][1],
                                               n |-> st.n + i, item |-> closing[i][2]]]
         IN  Terminal([s |-> [st EXCEPT !.n = @ + Len(done)], ev |-> done],
                      "completed", Output(st))

\* emit_created numbers its event from a copy of the state.
EmitCreated(st) ==
    LET w == Emit(Work(st), "created", None, <<>>)
    IN  IF st.google THEN w ELSE [w EXCEPT !.s.n = st.n]

ValidCalls(st) ==
    \A k \in DOMAIN st.calls : st.calls[k].id \in Declared /\ Whole(st.calls[k].args)

\* Mutant: any clean end of the stream completes the answer.
FinishAnyhow(st, reason) ==
    IF reason = "max" THEN EmitIncomplete(st) ELSE EmitCompleted(st)

\* finish_codex_stream: a reason to stop, or a metered call and no reason.
FinishGoogle(st, reason) ==
    IF reason = "max" THEN EmitIncomplete(st)
    ELSE IF \/ reason # "stop" /\ ~(reason = "none" /\ DOMAIN st.calls # {} /\ st.usage)
            \/ ~ValidCalls(st)
            \/ st.text = <<>> /\ DOMAIN st.calls = {}
         THEN EmitFailed(st)
         ELSE EmitCompleted(st)

(***************************************************************************)
(* The upstream.                                                           *)
(***************************************************************************)
Lines(f) == [f |-> f, whole |-> TRUE, ends |-> FALSE]
Blank(f) == [f |-> f, whole |-> TRUE, ends |-> TRUE]

Put(w) == s' = w.s /\ out' = out \o w.ev

Quiet == UNCHANGED <<mode, taken, seen, watch>>

\* Status 200 and an event stream: created goes out before anything is read.
Answer ==
    /\ up = "waiting" /\ up' = "open"
    /\ IF mode = "direct" THEN UNCHANGED <<s, out>> ELSE Put(EmitCreated(s))
    /\ UNCHANGED <<sent, wire, buf, fin, task>> /\ Quiet

\* Status 200 and one JSON body.  translate_sync_response lists the calls, the
\* text and the reasoning; Google's body takes the way of a stream of one frame.
SyncOutput(ch) ==
    [i \in DOMAIN ch.tools |-> Call(ch.tools[i].id, <<ch.tools[i].args>>)]
    \o (IF ch.text THEN <<Message(<<"t">>)>> ELSE <<>>)
    \o (IF ch.reason THEN <<Reasoning(<<"r">>)>> ELSE <<>>)

AnswerSync(ch) ==
    /\ up = "waiting" /\ mode # "direct" /\ ch.k = "data"
    /\ \A i \in DOMAIN ch.tools : ch.tools[i].args = "whole"
    /\ up' = "eof" /\ task' = "over"
    /\ LET created == EmitCreated(s)
           chunk == HandleChunk(created.s, ch)
           last == IF mode = "google" THEN FinishGoogle(chunk.s, ch.fin)
                   ELSE Terminal(Work(created.s), "completed", SyncOutput(ch))
       IN  /\ s' = last.s
           /\ out' = created.ev \o (IF mode = "google" THEN chunk.ev ELSE <<>>) \o last.ev
    /\ UNCHANGED <<sent, wire, buf, fin>> /\ Quiet

ErrorEvent == [type |-> "error", idx |-> None, n |-> 0, item |-> <<>>]

\* Any other status, no connection, or a body that cannot be read: an error
\* instead of an answer.
Refuses ==
    /\ up = "waiting" /\ up' = "error" /\ task' = "over"
    /\ out' = Append(out, ErrorEvent)
    /\ UNCHANGED <<sent, wire, buf, s, fin>> /\ Quiet

Send(f) ==
    /\ up = "open" /\ Len(sent) < MaxFrames
    /\ sent' = Append(sent, f)
    /\ wire' = wire \o <<Lines(f), Blank(f)>>
    /\ up' = IF f.k = "done" THEN "done" ELSE "open"
    /\ UNCHANGED <<buf, s, fin, task, out>> /\ Quiet

\* The connection ends, in order or not, perhaps inside a last frame.
Ends(how) ==
    /\ up \in {"open", "done"} /\ up' = how
    /\ UNCHANGED <<sent, wire, buf, s, fin, task, out>> /\ Quiet

EndsInside(f, whole) ==
    /\ up = "open" /\ Len(sent) < MaxFrames /\ f.k = "data"
    /\ up' = "eof" /\ sent' = Append(sent, f)
    /\ wire' = Append(wire, [Lines(f) EXCEPT !.whole = whole])
    /\ UNCHANGED <<buf, s, fin, task, out>> /\ Quiet

(***************************************************************************)
(* The task that reads, one network read or one frame at a time.           *)
(***************************************************************************)
Translating == mode # "direct" /\ task = "reading" /\ up # "waiting"

HasFrame == \E i \in DOMAIN buf : buf[i].ends

\* Where the first frame in the buffer ends.
FrameEnd == CHOOSE i \in DOMAIN buf : buf[i].ends /\ \A j \in 1..(i - 1) : ~buf[j].ends

\* Mutant: what is left of a frame is thrown away with the frames taken.
ReadForgets(k) ==
    /\ Translating /\ ~HasFrame /\ k <= Len(wire)
    /\ buf' = SubSeq(wire, 1, k)
    /\ wire' = SubSeq(wire, k + 1, Len(wire))
    /\ UNCHANGED <<upstream, s, fin, task, out>> /\ Quiet

\* next().await delivers some bytes; push, and drain_events once they suffice.
Read(k) ==
    /\ Translating /\ ~HasFrame /\ k <= Len(wire)
    /\ buf' = buf \o SubSeq(wire, 1, k)
    /\ wire' = SubSeq(wire, k + 1, Len(wire))
    /\ UNCHANGED <<upstream, s, fin, task, out>> /\ Quiet

\* A frame without lines, like a comment, changes nothing.
\* A relay's error inside the stream has no choices, and counts for nothing.
\* Google's ends the answer, and so do a frame that is cut and a bad reason.
Take ==
    /\ Translating /\ HasFrame
    /\ LET empty == FrameEnd = 1
           f == IF empty THEN [Head(buf).f EXCEPT !.k = "comment"] ELSE Head(buf).f
           bad == f.k = "error" \/ ~Head(buf).whole \/ (f.k = "data" /\ f.fin = "bad")
       IN  /\ taken' = IF empty THEN taken ELSE Append(taken, f)
           /\ \/ /\ f.k = "comment"
                 /\ UNCHANGED <<s, fin, out, task>>
              \/ /\ f.k = "done" /\ mode = "google"
                 /\ fin' = IF fin = "none" THEN "stop" ELSE fin
                 /\ Put(FinishGoogle(s, fin'))
                 /\ task' = "over"
              \/ /\ f.k = "done" /\ mode # "google"
                 /\ Put(EmitCompleted(s))
                 /\ task' = "over" /\ UNCHANGED fin
              \/ /\ f.k \in {"data", "error"} /\ bad /\ mode = "google"
                 /\ Put(EmitFailed(s))
                 /\ task' = "over" /\ UNCHANGED fin
              \/ /\ f.k = "error" /\ mode # "google"
                 /\ UNCHANGED <<s, fin, out, task>>
              \/ /\ f.k = "data" /\ ~(bad /\ mode = "google")
                 /\ Put(HandleChunk(s, f))
                 /\ fin' = IF mode = "google" /\ f.fin # "none" THEN f.fin ELSE fin
                 /\ UNCHANGED task
    /\ buf' = SubSeq(buf, FrameEnd + 1, Len(buf))
    /\ UNCHANGED <<mode, upstream, wire, seen, watch>>

Drained == Translating /\ ~HasFrame /\ wire = <<>>

\* A clean end.  A relay's answer is completed, with or without [DONE];
\* Google's last lines get the blank line they lack.
AtEof ==
    /\ Drained /\ up = "eof"
    /\ IF mode = "google" /\ buf # <<>>
       THEN buf' = Append(buf, Blank(Head(buf).f)) /\ UNCHANGED <<s, out, task>>
       ELSE /\ Put(IF mode = "google" THEN FinishGoogle(s, fin) ELSE EmitCompleted(s))
            /\ task' = "over" /\ UNCHANGED buf
    /\ UNCHANGED <<upstream, wire, fin>> /\ Quiet

\* The connection broke.  Only the POST path completes the answer all the same.
AtError ==
    /\ Drained /\ up = "error"
    /\ Put(IF mode = "http" THEN EmitCompleted(s) ELSE
           IF mode = "google" THEN EmitFailed(s) ELSE Terminal(Work(s), "error", <<>>))
    /\ task' = "over"
    /\ UNCHANGED <<upstream, wire, buf, fin>> /\ Quiet

(***************************************************************************)
(* The watchdog and the client.                                            *)
(***************************************************************************)
Cutoff == IF active THEN BetweenCutoff ELSE FirstCutoff

Watched == mode # "ws" /\ end = "open"

Core == UNCHANGED <<mode, upstream, s, fin, task, taken>>

\* An event of the translator is a whole frame.
Pass ==
    /\ end = "open" /\ out # <<>>
    /\ seen' = Append(seen, Head(out)) /\ out' = Tail(out)
    /\ idle' = 0 /\ silent' = 0 /\ active' = TRUE
    /\ UNCHANGED <<wire, buf, half, end>> /\ Core

\* Bytes of the upstream itself: only a blank line after data is an event.
IsEvent(h) == h.ends /\ half

\* Mutant: any byte counts as activity.
PassBytesRaw ==
    /\ mode = "direct" /\ end = "open" /\ wire # <<>>
    /\ half' = (IF Head(wire).ends THEN FALSE ELSE half \/ Head(wire).f.k # "comment")
    /\ wire' = Tail(wire)
    /\ idle' = 0 /\ active' = (active \/ IsEvent(Head(wire)))
    /\ silent' = IF IsEvent(Head(wire)) THEN 0 ELSE silent
    /\ seen' = IF IsEvent(Head(wire))
               THEN Append(seen, [type |-> "frame", idx |-> None, n |-> 0, item |-> <<>>])
               ELSE seen
    /\ UNCHANGED <<buf, out, end>> /\ Core

PassBytes ==
    /\ mode = "direct" /\ end = "open" /\ wire # <<>>
    /\ LET h == Head(wire) IN
       /\ half' = (IF h.ends THEN FALSE ELSE half \/ h.f.k # "comment")
       /\ active' = (active \/ IsEvent(h))
       /\ IF IsEvent(h)
          THEN /\ idle' = 0 /\ silent' = 0 /\ UNCHANGED end
               /\ seen' = Append(seen, [type |-> "frame", idx |-> None, n |-> 0, item |-> <<>>])
          ELSE /\ end' = IF idle >= Cutoff THEN "cut" ELSE end
               /\ UNCHANGED <<idle, silent, seen>>
    /\ wire' = Tail(wire)
    /\ UNCHANGED <<buf, out>> /\ Core

\* The inner stream is over.
PassEnd ==
    /\ end = "open" /\ out = <<>>
    /\ IF mode = "direct" THEN wire = <<>> /\ up \in {"eof", "error"} ELSE task = "over"
    /\ end' = "eof"
    /\ UNCHANGED <<wire, buf, out, seen, idle, silent, half, active>> /\ Core

\* Thirty seconds in which nothing comes: a comment keeps the connection.
Heartbeat ==
    /\ Watched /\ up # "waiting" /\ out = <<>> /\ idle < Cutoff
    /\ mode = "direct" \/ task = "reading"
    /\ idle' = idle + 1 /\ silent' = silent + 1
    /\ UNCHANGED <<wire, buf, out, seen, half, active, end>> /\ Core

\* Mutant: only a stream that had an event is cut.
CutOnlyActive ==
    /\ Watched /\ active /\ out = <<>> /\ idle >= Cutoff
    /\ end' = "cut"
    /\ UNCHANGED <<wire, buf, out, seen, idle, silent, half, active>> /\ Core

Cut ==
    /\ Watched /\ out = <<>> /\ idle >= Cutoff
    /\ end' = "cut"
    /\ UNCHANGED <<wire, buf, out, seen, idle, silent, half, active>> /\ Core

\* The client goes away; the stream of its answer is dropped with it.
Leaves ==
    /\ end = "open" /\ end' = "gone"
    /\ UNCHANGED <<wire, buf, out, seen, idle, silent, half, active>> /\ Core

\* What is sent to a client that is gone fails, and the task returns.
TaskStops ==
    /\ end \in {"cut", "gone"} /\ task = "reading" /\ (out # <<>> \/ mode = "google")
    /\ task' = "over"
    /\ UNCHANGED <<mode, upstream, wire, buf, s, fin, taken, out, seen, watch>>

(***************************************************************************)
(* The next request: what normalize_request makes of the answer when Codex *)
(* sends it back, with an output for each call.                            *)
(***************************************************************************)
LastAssistant(msgs) ==
    IF msgs # <<>> /\ Last(msgs).role = "assistant" THEN msgs
    ELSE Append(msgs, [role |-> "assistant", text |-> <<>>, reason |-> <<>>, calls |-> <<>>])

\* Mutant: each item of the answer makes a message of its own.
InputItemApart(msgs, x) ==
    Append(msgs, [role |-> "assistant",
                  text |-> IF x.kind = "message" THEN x.body ELSE <<>>,
                  reason |-> IF x.kind = "reasoning" THEN x.body ELSE <<>>,
                  calls |-> IF x.kind = "call" THEN <<x.id>> ELSE <<>>])

\* process_input_item: all items of one answer go into one assistant message.
InputItem(msgs, x) ==
    LET m == LastAssistant(msgs)
        k == Len(m)
    IN  IF x.kind = "output"
        THEN Append(msgs, [role |-> "tool", text |-> <<x.id>>, reason |-> <<>>, calls |-> <<>>])
        ELSE IF x.kind = "reasoning" /\ x.body = <<>> THEN msgs
        ELSE IF x.kind = "message" THEN [m EXCEPT ![k].text = @ \o x.body]
        ELSE IF x.kind = "reasoning" THEN [m EXCEPT ![k].reason = @ \o x.body]
        ELSE [m EXCEPT ![k].calls = Append(@, x.id)]

User == [role |-> "user", text |-> <<>>, reason |-> <<>>, calls |-> <<>>]

\* The messages of a request with these input items.
Messages(input) ==
    LET msgs[i \in 0..Len(input)] ==
            IF i = 0 THEN <<User>> ELSE InputItem(msgs[i - 1], input[i])
    IN  msgs[Len(input)]

WithCallOf(calls, x) == IF x.kind = "call" THEN Append(calls, x) ELSE calls

CallsOf(items) ==
    LET calls[i \in 0..Len(items)] ==
            IF i = 0 THEN <<>> ELSE WithCallOf(calls[i - 1], items[i])
    IN  calls[Len(items)]

\* Codex sends the items of the answer, and then an output for each call.
NextRequest(items) ==
    LET calls == CallsOf(items)
    IN  Messages(items \o [i \in DOMAIN calls |-> [calls[i] EXCEPT !.kind = "output"]])

(***************************************************************************)
(* The system                                                              *)
(***************************************************************************)
Upstream ==
    \/ Answer \/ Refuses
    \/ \E f \in Chunks : \/ AnswerSync(f) \/ Send(f)
                         \/ \E whole \in BOOLEAN : EndsInside(f, whole)
    \/ \E how \in {"eof", "error"} : Ends(how)

Task == (\E k \in 1..Len(wire) : Read(k)) \/ Take \/ AtEof \/ AtError

Client == Pass \/ PassBytes \/ PassEnd \/ Heartbeat \/ Cut

Stopped == end # "open" /\ UNCHANGED vars

Next == Upstream \/ Task \/ Client \/ Leaves \/ TaskStops \/ Stopped

Spec == Init /\ [][Next]_vars

\* The runtime's timer fires, and the client reads what there is; neither the
\* upstream nor the task that reads it owes anything.
FairSpec == Spec /\ WF_vars(Client)

(***************************************************************************)
(* Properties                                                              *)
(***************************************************************************)
Kinds == {"added", "delta", "done"}
Terminals == {"completed", "failed", "incomplete", "error"}

\* Type invariant: at most one frame is incomplete in the buffer, and output
\* indices are given out one by one.
TypeOK ==
    /\ mode \in Modes
    /\ up \in {"waiting", "open", "done", "eof", "error"}
    /\ sent \in Seq(Chunks) /\ taken \in Seq(Chunks)
    /\ fin \in {"none", "stop", "max"}
    /\ task \in {"reading", "over"}
    /\ end \in {"open", "eof", "cut", "gone"}
    /\ half \in BOOLEAN /\ active \in BOOLEAN
    /\ idle \in 0..Cutoff
    /\ ~HasFrame => Len(buf) <= 1
    /\ s.next = Cardinality(OpenItems(s))

\* The text of an item as a client puts it together, event by event.
Heard(text, e, idx) ==
    IF e.type = "delta" /\ e.idx = idx THEN text \o e.item.body ELSE text

Told(ev, idx) ==
    LET told[i \in 0..Len(ev)] ==
            IF i = 0 THEN <<>> ELSE Heard(told[i - 1], ev[i], idx)
    IN  told

\* What the client gets is a well-formed answer: an item is added before its
\* deltas and closed after them, in the order of the output indices, the text
\* of a closed item is the text of its deltas, and the end comes last and once
\* (comment at line 1430 and the finalized flag).
AnswerWellFormed ==
    /\ \A i \in DOMAIN seen : seen[i].type \in Terminals => i = Len(seen)
    /\ \A i, j \in DOMAIN seen :
         /\ i < j /\ seen[i].type = "done" /\ seen[j].type = "done" => seen[i].idx < seen[j].idx
         /\ i < j /\ seen[i].idx = seen[j].idx /\ {seen[i].type, seen[j].type} \subseteq Kinds
              => seen[i].type # "done" /\ seen[j].type # "added"
    /\ \A i \in DOMAIN seen : seen[i].type \in {"delta", "done"} =>
         \E j \in 1..(i - 1) : seen[j].type = "added" /\ seen[j].idx = seen[i].idx
    /\ \A i \in DOMAIN seen : seen[i].type = "done" /\ (seen[i].item.id \notin Custom \/ mode # "google") =>
         Told(seen, seen[i].idx)[Len(seen)] = seen[i].item.body

Completed == seen # <<>> /\ Last(seen).type = "completed"

\* An answer that its upstream did not end is not handed to the client as
\* complete.  Google's calls are whole: none without an id of its own, none that
\* was cut short or that nobody declared (finish_codex_stream, translate.rs
\* lines 617-641); and on the adapter's path a broken connection is an error.
UnfinishedNotCompleted ==
    LET items == Last(seen).item
        ended == \E i \in DOMAIN taken : taken[i].k = "done"
    IN  Completed =>
        /\ mode = "google" =>
             /\ \A i \in DOMAIN items :
                  items[i].kind = "call" => items[i].id \in Declared /\ Whole(items[i].body)
             /\ \E i \in DOMAIN items : items[i].kind # "reasoning"
             /\ up \in {"open", "done", "error"} => ended
        /\ mode = "ws" => up # "error" \/ ended

\* However the network cuts the stream, frames are taken in the order they
\* were sent, and none is lost (ChatSseBuffer, pop_sse_data).
FramesInOrder == IsPrefix(taken, sent)

WithBodyOf(body, x, kind) == IF x.kind = kind THEN body \o x.body ELSE body

BodyOf(items, kind) ==
    LET body[i \in 0..Len(items)] ==
            IF i = 0 THEN <<>> ELSE WithBodyOf(body[i - 1], items[i], kind)
    IN  body[Len(items)]

\* The next request carries the whole answer: one assistant message with its
\* text, its reasoning, which thinking models demand back, and its calls, each
\* followed by its output (comments at lines 1454-1459 and 498-501).
NextRequestIsWhole ==
    mode \in {"http", "ws"} /\ Completed =>
        LET items == Last(seen).item
            msgs == NextRequest(items)
            calls == CallsOf(items)
        IN  items # <<>> =>
            /\ Len(msgs) = 2 + Len(calls)
            /\ msgs[2].role = "assistant"
            /\ msgs[2].text = BodyOf(items, "message") /\ msgs[2].reason = BodyOf(items, "reasoning")
            /\ msgs[2].calls = [i \in DOMAIN calls |-> calls[i].id]
            /\ \A i \in DOMAIN calls : msgs[2 + i].text = <<calls[i].id>>

\* The watchdog measures events, not bytes: a stream is cut as soon as the
\* client has had none for the cutoff, and never sooner (sse_watchdog.rs,
\* lines 86-88 and the comment on observe).
CutWhenSilent ==
    /\ Watched => silent <= Cutoff
    /\ end = "cut" => silent >= Cutoff

\* With the watchdog around it every answer comes to an end for the client,
\* even if the upstream falls silent.
StreamEnds == up = "open" /\ mode # "ws" ~> end # "open"
=============================================================================
