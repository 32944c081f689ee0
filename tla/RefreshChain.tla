--------------------------- MODULE RefreshChain ---------------------------
(***************************************************************************)
(* What oauth.rs promises about the single-use refresh tokens of an        *)
(* account: the process holds the one token the server accepts, and each   *)
(* rotation replaces both together.  The promise covers an account until   *)
(* something outside the process moves its chain (an answer is lost after  *)
(* the token was consumed, another program refreshes, the process dies     *)
(* before both files hold the token): the account is then forked.          *)
(***************************************************************************)
EXTENDS Naturals

CONSTANT Accounts

VARIABLES
    live,       \* the token the server accepts
    held,       \* the newest token the process holds
    forked      \* accounts the promise no longer covers

chainVars == <<live, held, forked>>

Init ==
    /\ live = [a \in Accounts |-> 1]
    /\ held = live
    /\ forked = {}

(* The process spends the token it holds and receives the next one. *)
Rotate(a) ==
    /\ a \notin forked
    /\ held[a] = live[a]
    /\ live' = [live EXCEPT ![a] = @ + 1]
    /\ held' = [held EXCEPT ![a] = @ + 1]
    /\ UNCHANGED forked

(* Anything may happen to a forked account; a fork is never undone. *)
Drift ==
    /\ forked' \in SUBSET Accounts
    /\ forked \subseteq forked'
    /\ live' \in [Accounts -> Nat]
    /\ held' \in [Accounts -> Nat]
    /\ \A a \in Accounts \ forked' : live'[a] = live[a] /\ held'[a] = held[a]

Next == (\E a \in Accounts : Rotate(a)) \/ Drift

Spec == Init /\ [][Next]_chainVars

(* The promise: an account that is not forked can always be refreshed. *)
Refreshable == \A a \in Accounts \ forked : held[a] = live[a]
=============================================================================
