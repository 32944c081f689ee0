-------------------------- MODULE MCTokenRotation --------------------------
(* The instances of TokenRotation that TLC checks; each MCRotation*.cfg    *)
(* chooses which tasks run side by side and which faults may occur.        *)
EXTENDS TokenRotation
=============================================================================
