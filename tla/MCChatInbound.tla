--------------------------- MODULE MCChatInbound ---------------------------
EXTENDS ChatInbound
Answer(text, call, args) == [text |-> text, call |-> call, args |-> args]
MCAnswers == {Answer({}, FALSE, "none"), Answer({"item"}, FALSE, "none"), Answer({}, TRUE, "delta")}
=============================================================================
