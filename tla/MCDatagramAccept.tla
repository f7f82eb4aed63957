--------------------------- MODULE MCDatagramAccept ---------------------------
(* Small instances of DatagramAccept for TLC: the .cfg files give the bounds. *)
EXTENDS DatagramAccept

=============================================================================
