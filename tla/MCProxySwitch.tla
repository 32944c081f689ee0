--------------------------- MODULE MCProxySwitch ---------------------------
(* The instances of ProxySwitch that TLC checks; each MCProxy*.cfg chooses  *)
(* which requests run and what they are.                                   *)
EXTENDS ProxySwitch

CONSTANTS r1, r2, a, b, c, k, s

NoRoutes == [r \in Requests |-> NoAccount]
OneSession == [r \in Requests |-> s]
RouteToB == [r \in Requests |-> IF r = r1 THEN b ELSE NoAccount]
=============================================================================
