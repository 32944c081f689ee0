---------------------------- MODULE MCAnchorDisk ----------------------------
(* The instances of AnchorDisk that TLC checks; each MCAnchor*.cfg chooses *)
(* which threads and commands run.                                         *)
EXTENDS AnchorDisk
=============================================================================
