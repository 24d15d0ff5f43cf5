----------------------------- MODULE SlotTable ------------------------------
(***************************************************************************)
(* What the coord region promises its clients and its server, whoever      *)
(* writes which flag when: a slot is requested by one client, is given     *)
(* queues that no other taken slot has, keeps them until that client       *)
(* closes, and only then becomes free again.                               *)
(***************************************************************************)
EXTENDS Naturals

CONSTANTS
  Client,   (* the clients                                                 *)
  Slot,     (* the slots                                                   *)
  Queue     (* the queues a slot can be given                              *)

VARIABLE slot   (* per slot: its state, its client, its queues             *)

Free == [state |-> "free"]
Requested(c) == [state |-> "requested", client |-> c]
Ready(c, q) == [state |-> "ready", client |-> c, queues |-> q]
Closing(c, q) == [state |-> "closing", client |-> c, queues |-> q]

Has(i, c) == slot[i] # Free /\ slot[i].client = c
InUse(q) == \E i \in Slot : /\ slot[i].state \in {"ready", "closing"}
                            /\ slot[i].queues \cap q # {}

TableInit == slot = [i \in Slot |-> Free]

Request(i, c) ==
  /\ slot[i] = Free
  /\ ~\E j \in Slot : Has(j, c)
  /\ slot' = [slot EXCEPT ![i] = Requested(c)]

Serve(i, c) ==
  /\ slot[i] = Requested(c)
  /\ \E r, s \in Queue : /\ r # s
                         /\ ~InUse({r, s})
                         /\ slot' = [slot EXCEPT ![i] = Ready(c, {r, s})]

Close(i, c) ==
  /\ slot[i].state = "ready" /\ slot[i].client = c
  /\ slot' = [slot EXCEPT ![i] = Closing(c, @.queues)]

Reclaim(i) ==
  /\ slot[i].state = "closing"
  /\ slot' = [slot EXCEPT ![i] = Free]

TableNext ==
  \E i \in Slot : \/ \E c \in Client : Request(i, c) \/ Serve(i, c) \/ Close(i, c)
                  \/ Reclaim(i)

TableSpec == TableInit /\ [][TableNext]_slot
=============================================================================
