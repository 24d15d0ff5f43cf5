----------------------------- MODULE PollQueue ------------------------------
(***************************************************************************)
(* The polling single-producer single-consumer ring of libnotnets          *)
(* (libnotnets/src/queue.cpp): queue_create, push and pop on one shared    *)
(* memory region, with one thread calling push and one calling pop.        *)
(*                                                                         *)
(* Every access of one thread to a location the other thread writes is a   *)
(* step of its own, and memcpy moves one unit per step, so a read of a     *)
(* slot that is being written is a behaviour of the model.  The header     *)
(* fields message_size and queue_size never change after queue_create, and *)
(* message_offset is accessed by the consumer alone.                       *)
(*                                                                         *)
(* Steps are sequentially consistent.  The code publishes head and tail    *)
(* with release stores and polls them with acquire loads, so all copying   *)
(* done before a publication is visible to whoever observes it; no other   *)
(* location is shared.  stop_consumer_polling is false from queue_create   *)
(* on (nothing in the library sets it), so the early return it guards in   *)
(* pop is never taken and has no action here.                              *)
(***************************************************************************)
EXTENDS Integers, Sequences

CONSTANTS
  Byte,         (* the values of one unit of payload                       *)
  ShmSize,      (* size of the shared memory region                        *)
  HeaderSize,   (* sizeof(spsc_queue_header)                               *)
  MessageSize,  (* the message_size given to queue_create                  *)
  PushSizes,    (* the buffer sizes callers pass to push                   *)
  PopSizes      (* the buffer sizes callers pass to pop                    *)

(* queue_create exits the process unless one message fits (queue.cpp:21).  *)
ASSUME CreateAssumption ==
  /\ Byte # {}
  /\ ShmSize \in Nat /\ HeaderSize \in Nat
  /\ MessageSize \in Nat \ {0}
  /\ MessageSize + HeaderSize <= ShmSize
  /\ PushSizes \subseteq Nat
  /\ PopSizes \subseteq Nat

VARIABLES
  head,            (* header->head, written by push                        *)
  tail,            (* header->tail, written by pop                         *)
  message_offset,  (* units of the tail message already popped             *)
  slots,           (* the message array behind the header                  *)
  ppc, pbuf, copied, push_ret,   (* the thread in push                     *)
  cpc, want, rbuf, popped        (* the thread in pop                      *)

ringVars == <<head, tail, message_offset, slots>>
prodVars == <<ppc, pbuf, copied, push_ret>>
consVars == <<cpc, want, rbuf, popped>>
vars == <<ringVars, prodVars, consVars>>

(* num_elements in queue_create.                                           *)
queue_size == (ShmSize - HeaderSize) \div MessageSize

SlotIndex == 0..(queue_size - 1)
Message == [1..MessageSize -> Byte]
Buffers(sizes) == UNION {[1..n -> Byte] : n \in sizes}

AdvanceNoWrap(i) == IF i = queue_size THEN 0 ELSE i + 1

(* Both sides step an index with the same explicit wrap-around.            *)
Advance(i) == IF i + 1 = queue_size THEN 0 ELSE i + 1

(* queue_create resets the header and leaves the array as it was.          *)
Init ==
  /\ head = 0 /\ tail = 0 /\ message_offset = 0
  /\ slots \in [SlotIndex -> Message]
  /\ ppc = "idle" /\ pbuf = << >> /\ copied = 0 /\ push_ret = 0
  /\ cpc = "idle" /\ want = 0 /\ rbuf = << >>
  /\ popped = [bytes |-> << >>, ret |-> 0]

-----------------------------------------------------------------------------
(* push                                                                    *)

(* A buffer larger than a message is refused with -1.                      *)
PushReject ==
  /\ ppc = "idle"
  /\ \E n \in PushSizes : n > MessageSize
  /\ push_ret' = -1
  /\ UNCHANGED <<ringVars, ppc, pbuf, copied, consVars>>

PushCall(buf) ==
  /\ ppc = "idle"
  /\ Len(buf) <= MessageSize
  /\ pbuf' = buf
  /\ ppc' = "poll"
  /\ UNCHANGED <<ringVars, copied, push_ret, consVars>>

PushPollUnguarded ==
  /\ ppc = "poll"
  /\ ppc' = "copy"
  /\ UNCHANGED <<ringVars, pbuf, copied, push_ret, consVars>>

(* The polling loop ends when the slot after head is not the tail.         *)
PushPoll ==
  /\ ppc = "poll"
  /\ Advance(head) # tail
  /\ ppc' = "copy"
  /\ UNCHANGED <<ringVars, pbuf, copied, push_ret, consVars>>

PushCopy ==
  /\ ppc = "copy"
  /\ copied < Len(pbuf)
  /\ slots' = [slots EXCEPT ![head][copied + 1] = pbuf[copied + 1]]
  /\ copied' = copied + 1
  /\ UNCHANGED <<head, tail, message_offset, ppc, pbuf, push_ret, consVars>>

PushPublishLost ==
  /\ ppc = "copy"
  /\ copied = Len(pbuf)
  /\ ppc' = "idle"
  /\ push_ret' = 0
  /\ pbuf' = << >> /\ copied' = 0
  /\ UNCHANGED <<ringVars, consVars>>

PushPublishEarly ==
  /\ ppc = "copy"
  /\ head' = Advance(head)
  /\ ppc' = "idle"
  /\ push_ret' = 0
  /\ pbuf' = << >> /\ copied' = 0
  /\ UNCHANGED <<tail, message_offset, slots, consVars>>

(* The release store of head makes the message visible.  The locals of the *)
(* call end with it.                                                       *)
PushPublish ==
  /\ ppc = "copy"
  /\ copied = Len(pbuf)
  /\ head' = Advance(head)
  /\ ppc' = "idle"
  /\ push_ret' = 0
  /\ pbuf' = << >> /\ copied' = 0
  /\ UNCHANGED <<tail, message_offset, slots, consVars>>

-----------------------------------------------------------------------------
(* pop                                                                     *)

(* The caller's size is cut down to what is left of the tail message.      *)
Clamp(n) ==
  IF n + message_offset > MessageSize THEN MessageSize - message_offset ELSE n

PopCall(n) ==
  /\ cpc = "idle"
  /\ want' = Clamp(n)
  /\ cpc' = "poll"
  /\ UNCHANGED <<ringVars, prodVars, rbuf, popped>>

PopPoll ==
  /\ cpc = "poll"
  /\ tail # head
  /\ cpc' = "copy"
  /\ UNCHANGED <<ringVars, prodVars, want, rbuf, popped>>

PopCopy ==
  /\ cpc = "copy"
  /\ Len(rbuf) < want
  /\ rbuf' = Append(rbuf, slots[tail][message_offset + Len(rbuf) + 1])
  /\ UNCHANGED <<ringVars, prodVars, cpc, want, popped>>

PopReturnKeepsSlot ==
  LET read == message_offset + want
      done == read = MessageSize
  IN  /\ cpc = "copy"
      /\ Len(rbuf) = want
      /\ message_offset' = IF done THEN 0 ELSE read
      /\ popped' = [bytes |-> rbuf, ret |-> IF done THEN 0 ELSE read]
      /\ cpc' = "idle" /\ want' = 0 /\ rbuf' = << >>
      /\ UNCHANGED <<head, tail, slots, prodVars>>

(* A fully read message is released by the store of tail; a partly read    *)
(* one stays, and the offset is the return value.                          *)
PopReturn ==
  LET read == message_offset + want
      done == read = MessageSize
  IN  /\ cpc = "copy"
      /\ Len(rbuf) = want
      /\ message_offset' = IF done THEN 0 ELSE read
      /\ tail' = IF done THEN Advance(tail) ELSE tail
      /\ popped' = [bytes |-> rbuf, ret |-> IF done THEN 0 ELSE read]
      /\ cpc' = "idle" /\ want' = 0 /\ rbuf' = << >>
      /\ UNCHANGED <<head, slots, prodVars>>

-----------------------------------------------------------------------------
PushStep == PushPoll \/ PushCopy \/ PushPublish
PopStep == PopPoll \/ PopCopy \/ PopReturn

Next ==
  \/ PushReject
  \/ \E buf \in Buffers(PushSizes) : PushCall(buf)
  \/ PushPoll
  \/ PushCopy
  \/ PushPublish
  \/ \E n \in PopSizes : PopCall(n)
  \/ PopPoll
  \/ PopCopy
  \/ PopReturn

Spec == Init /\ [][Next]_vars

(***************************************************************************)
(* Both threads keep running, and the consumer's caller keeps calling pop, *)
(* as the receive loops of the benchmarks and tests do.  Nothing obliges   *)
(* the producer's caller to push.                                          *)
(***************************************************************************)
ConsumerLoops ==
  /\ WF_vars(PushStep)
  /\ WF_vars(PopStep)
  /\ WF_vars(\E n \in PopSizes : PopCall(n))

ProducerLoops == WF_vars(\E buf \in Buffers(PushSizes) : PushCall(buf))

FairSpec == Spec /\ ConsumerLoops /\ ProducerLoops

-----------------------------------------------------------------------------
(* The messages between tail and head, oldest first.                       *)
Wrap(i) == IF i >= queue_size THEN i - queue_size ELSE i
Count == IF head >= tail THEN head - tail ELSE head - tail + queue_size
Contents == [i \in 1..Count |-> slots[Wrap(tail + i - 1)]]

Channel == INSTANCE MessageChannel WITH
  Capacity <- queue_size - 1,
  offer    <- IF ppc = "idle" THEN {} ELSE {pbuf},
  chan     <- Contents,
  offset   <- message_offset,
  got      <- popped

(* Types of the header, the array and both threads' locals.                *)
TypeOK ==
  /\ head \in SlotIndex /\ tail \in SlotIndex
  /\ message_offset \in 0..(MessageSize - 1)
  /\ slots \in [SlotIndex -> Message]
  /\ ppc \in {"idle", "poll", "copy"}
  /\ pbuf \in Seq(Byte) /\ Len(pbuf) <= MessageSize
  /\ copied \in 0..MessageSize
  /\ push_ret \in {0, -1}
  /\ cpc \in {"idle", "poll", "copy"}
  /\ want \in 0..MessageSize
  /\ rbuf \in Seq(Byte) /\ Len(rbuf) <= MessageSize
  /\ popped \in [bytes : Seq(Byte), ret : 0..(MessageSize - 1)]

(***************************************************************************)
(* The two memcpy calls, at queue.cpp:73 and queue.cpp:114, never touch    *)
(* the same slot at the same time: no data race on the message array.      *)
(***************************************************************************)
NoDataRace == ppc = "copy" /\ cpc = "copy" => head # tail

(***************************************************************************)
(* Refinement: however push and pop interleave, the ring behaves as the    *)
(* message channel of queue.h: FIFO, nothing lost, duplicated or torn,     *)
(* at most queue_size - 1 messages, a message removed only once fully read.*)
(***************************************************************************)
ChannelSpec == Channel!ChanSpec

(* A push in progress returns, when the consumer keeps popping.            *)
PushReturns == (ppc # "idle") ~> (ppc = "idle")

(* A pop in progress returns, when the producer keeps pushing.             *)
PopReturns == (cpc # "idle") ~> (cpc = "idle")
=============================================================================
