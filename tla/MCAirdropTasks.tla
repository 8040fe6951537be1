--------------------------- MODULE MCAirdropTasks ---------------------------
(* An instance of AirdropTasks for TLC. *)
EXTENDS AirdropTasks

\* Three ids, out of order and with a repeat; a space may spoil the last.
MCIds == {<<4, 3, 4>>}
=============================================================================
