--------------------------- MODULE MCDatagramListen ---------------------------
(* Small instances of DatagramListen.  Nothing tells the addresses apart. *)
EXTENDS DatagramListen
Symmetry == Permutations(Addresses)
=============================================================================
