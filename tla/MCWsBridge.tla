----------------------------- MODULE MCWsBridge -----------------------------
EXTENDS WsBridge
=============================================================================
