--------------------------- MODULE MCAutoRecovery ---------------------------
(* Small instances of AutoRecovery for TLC: one or two programs, and two   *)
(* documents, as the order in which they are written is arbitrary.         *)
EXTENDS AutoRecovery
=============================================================================
