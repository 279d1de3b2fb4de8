------------------------------ MODULE MCBridge ------------------------------
(***************************************************************************)
(* A small instance of Bridge: two users of whom none, one or both are     *)
(* admins, two goroutines that send, buffers of one message.               *)
(***************************************************************************)
EXTENDS Bridge

CONSTANTS u1, u2

MCAdminConfigs == {{}, {u1}, Users}
=============================================================================
