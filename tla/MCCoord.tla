------------------------------ MODULE MCCoord -------------------------------
(***************************************************************************)
(* Instances of Coord for TLC.  The three ids are far enough apart that no *)
(* two of them give the same key under any allocator: 1000, 1001, 500, 333;*)
(* 1100, 1101, 550, 366; 1200, 1201, 600, 400.                             *)
(***************************************************************************)
EXTENDS Coord

AllPoll == [c \in Client |-> "POLL"]
Mixed == [c \in Client |->
  CASE c = 1000 -> "POLL" [] c = 1100 -> "SEM" [] c = 1200 -> "BOOST"]

(* Clients that stay, and clients that close, with a server that only runs *)
(* manage_pool, or that accepts as well.                                   *)
Staying == {[closers |-> {}, calls |-> {}]}
Closing == {[closers |-> Client, calls |-> {}]}
ClosingAccepted == {[closers |-> Client, calls |-> {"accept"}]}

(* A server that accepts clients that stay, and one that shuts down beside *)
(* a client that closes and one that stays.                                *)
AcceptOrShutdown == {[closers |-> {}, calls |-> {"accept"}],
                     [closers |-> {1000}, calls |-> {"shutdown"}]}
=============================================================================
