---------------------------- MODULE MCStreamChat ----------------------------
(* Three connections, room for two sockets, one place in the backlog. *)
EXTENDS StreamChat
=============================================================================
