---------------------------- MODULE MCPollQueue -----------------------------
(***************************************************************************)
(* Instances of PollQueue for TLC.  Sizes are in units of payload.         *)
(***************************************************************************)
EXTENDS PollQueue
=============================================================================
