--------------------------- MODULE MCStreamListen ---------------------------
(* Instances of StreamListen for TLC: the .cfg files give the bounds. *)
EXTENDS StreamListen

=============================================================================
