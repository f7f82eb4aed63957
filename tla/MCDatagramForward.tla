--------------------------- MODULE MCDatagramForward ---------------------------
(* Small instances of DatagramForward for TLC: the .cfg files give the bounds. *)
EXTENDS DatagramForward

=============================================================================
