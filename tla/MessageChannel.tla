--------------------------- MODULE MessageChannel ---------------------------
(***************************************************************************)
(* What a notnets queue promises its two users, independently of how it is *)
(* built: a bounded FIFO of fixed-size messages with one sender and one    *)
(* receiver (libnotnets/include/queue.h, sem_queue.h, and the comments on  *)
(* client_send_rpc / client_receive_buf in rpc.h).                         *)
(*                                                                         *)
(* A receiver may read a message in pieces.  The message leaves the        *)
(* channel only when its last byte has been handed over; until then every  *)
(* receive reports how far into the message it is, and 0 means "all of it".*)
(***************************************************************************)
EXTENDS Naturals, Sequences

CONSTANTS
  Byte,         (* the values of one unit of payload                       *)
  MessageSize,  (* units per message, the same for every message           *)
  Capacity      (* messages the channel can hold                           *)

VARIABLES
  offer,   (* {buf} while a send of buf is in progress, {} otherwise       *)
  chan,    (* the messages sent and not yet removed, oldest first          *)
  offset,  (* units of the oldest message already handed over              *)
  got      (* what the last completed receive gave its caller              *)

chanVars == <<offer, chan, offset, got>>

Message == [1..MessageSize -> Byte]

(* A sender's buffer may be shorter than a message.                        *)
Buffer == UNION {[1..n -> Byte] : n \in 0..MessageSize}

ChanInit ==
  /\ offer = {}
  /\ chan = << >>
  /\ offset = 0
  /\ got = [bytes |-> << >>, ret |-> 0]

Offer ==
  /\ offer = {}
  /\ \E buf \in Buffer : offer' = {buf}
  /\ UNCHANGED <<chan, offset, got>>

(* The message sent starts with the sender's buffer.  What follows a short *)
(* buffer is not specified.                                                *)
Send ==
  /\ Len(chan) < Capacity
  /\ \E buf \in offer, m \in Message :
       /\ \A k \in DOMAIN buf : m[k] = buf[k]
       /\ chan' = Append(chan, m)
  /\ offer' = {}
  /\ UNCHANGED <<offset, got>>

(* Hand over the next n units of the oldest message.                       *)
Receive(n) ==
  LET read == offset + n
      done == read = MessageSize
  IN  /\ chan # << >>
      /\ got' = [bytes |-> [k \in 1..n |-> chan[1][offset + k]],
                 ret   |-> IF done THEN 0 ELSE read]
      /\ offset' = IF done THEN 0 ELSE read
      /\ chan' = IF done THEN Tail(chan) ELSE chan
      /\ UNCHANGED offer

ChanNext ==
  \/ Offer
  \/ Send
  \/ \E n \in 0..(MessageSize - offset) : Receive(n)

ChanSpec == ChanInit /\ [][ChanNext]_chanVars
=============================================================================
