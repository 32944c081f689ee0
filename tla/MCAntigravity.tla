--------------------------- MODULE MCAntigravity ---------------------------
EXTENDS Antigravity
=============================================================================
