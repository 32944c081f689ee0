--------------------------- MODULE MCRelayStream ---------------------------
EXTENDS RelayStream
D0 == [k |-> "data", tools |-> <<>>, reason |-> FALSE, text |-> FALSE,
       sig |-> FALSE, usage |-> FALSE, fin |-> "none"]
Tool(slot, id, args) == [slot |-> slot, id |-> id, args |-> args]
MCChunks == {
    [D0 EXCEPT !.k = "comment"], [D0 EXCEPT !.k = "done"], [D0 EXCEPT !.k = "error"],
    [D0 EXCEPT !.text = TRUE], [D0 EXCEPT !.reason = TRUE, !.text = TRUE],
    [D0 EXCEPT !.reason = TRUE, !.sig = TRUE],
    [D0 EXCEPT !.tools = <<Tool(1, "x", "open")>>, !.text = TRUE],
    [D0 EXCEPT !.tools = <<Tool(1, "x", "close")>>, !.fin = "stop"],
    [D0 EXCEPT !.tools = <<Tool(1, "y", "whole")>>, !.usage = TRUE],
    [D0 EXCEPT !.tools = <<Tool(0, "z", "whole"), Tool(1, "y", "whole")>>],
    [D0 EXCEPT !.fin = "max"], [D0 EXCEPT !.fin = "bad"]}
MCModes == {"http", "ws", "google", "direct"}
=============================================================================
