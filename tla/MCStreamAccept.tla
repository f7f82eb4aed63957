--------------------------- MODULE MCStreamAccept ---------------------------
(* Instances of StreamAccept for TLC: the .cfg files give the bound. *)
EXTENDS StreamAccept

=============================================================================
