------------------------------ MODULE MCFwdPeer ------------------------------
(* A small instance of FwdPeer: an entry that has connections and can be      *)
(* closed, its connections, and entries that are started.                     *)
EXTENDS FwdPeer
MCKinds == {"datagram_forward_local", "datagram_connection_local",
            "datagram_listen", "datagram_connection_remote", "stream_socket"}
=============================================================================
