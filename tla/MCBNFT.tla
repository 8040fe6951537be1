------------------------------- MODULE MCBNFT -------------------------------
(* Small instances of BNFT for TLC: every constant gets its value in a cfg. *)
EXTENDS BNFT
=============================================================================
