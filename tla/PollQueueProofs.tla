--------------------------- MODULE PollQueueProofs --------------------------
(***************************************************************************)
(* Proofs about PollQueue, for every message size, region size and set of  *)
(* buffer sizes that queue_create accepts.                                 *)
(***************************************************************************)
EXTENDS PollQueue, SequenceTheorems, TLAPS

(* queue_create's check leaves room for one message: the ring has a slot.  *)
LEMMA QueueSizePositive == queue_size \in Nat /\ queue_size >= 1
<1> DEFINE d == ShmSize - HeaderSize
<1>1. d \in Nat /\ MessageSize \in Nat /\ MessageSize > 0 /\ d >= MessageSize
  BY CreateAssumption
<1> HIDE DEF d
<1>2. d \div MessageSize \in Int /\ d = MessageSize * (d \div MessageSize) + (d % MessageSize)
      /\ (d % MessageSize) \in 0..(MessageSize - 1)
  BY <1>1
<1> DEFINE q == d \div MessageSize
<1>3. q \in Int /\ MessageSize * q > 0
  BY <1>1, <1>2
<1> HIDE DEF q
<1>4. q >= 1
  BY <1>1, <1>3
<1> QED
  BY <1>3, <1>4 DEF queue_size, d, q

(* Advance stays on the ring.                                              *)
LEMMA AdvanceType ==
  ASSUME NEW i \in SlotIndex
  PROVE  Advance(i) \in SlotIndex
BY QueueSizePositive DEF Advance, SlotIndex

(* Two indices that step to the same slot are the same.                    *)
LEMMA AdvanceInjective ==
  ASSUME NEW i \in SlotIndex, NEW j \in SlotIndex, Advance(i) = Advance(j)
  PROVE  i = j
BY QueueSizePositive DEF Advance, SlotIndex

(* A buffer handed to push is a sequence of its own size.                  *)
LEMMA BufferType ==
  ASSUME NEW buf \in Buffers(PushSizes)
  PROVE  buf \in Seq(Byte) /\ Len(buf) \in Nat
<1>1. PICK n \in PushSizes : buf \in [1..n -> Byte]
  BY DEF Buffers
<1>2. n \in Nat
  BY CreateAssumption
<1> QED
  BY <1>1, <1>2

-----------------------------------------------------------------------------
(***************************************************************************)
(* The inductive invariant.  What push has seen of the tail, and pop of    *)
(* the head, stays true while they copy, because each index only moves     *)
(* towards the other one and never onto it.                                *)
(***************************************************************************)
PushInv ==
  /\ copied <= Len(pbuf)
  /\ ppc # "copy" => copied = 0
  /\ ppc = "copy" => Advance(head) # tail
  /\ \A k \in 1..MessageSize : k <= copied => slots[head][k] = pbuf[k]

PopInv ==
  /\ message_offset + want <= MessageSize
  /\ Len(rbuf) <= want
  /\ cpc # "copy" => rbuf = << >>
  /\ cpc = "idle" => want = 0
  /\ cpc = "copy" => head # tail
  /\ \A k \in 1..MessageSize : k <= Len(rbuf) => rbuf[k] = slots[tail][message_offset + k]

RingInv == TypeOK /\ PushInv /\ PopInv

(* queue_create establishes the invariant.                                 *)
LEMMA InitRingInv == Init => RingInv
<1> SUFFICES ASSUME Init PROVE RingInv
  OBVIOUS
<1>1. 0 \in SlotIndex
  BY QueueSizePositive DEF SlotIndex
<1>2. 0 \in 0..(MessageSize - 1) /\ 0 \in 0..MessageSize
  BY CreateAssumption
<1>3. << >> \in Seq(Byte) /\ Len(<< >>) = 0
  OBVIOUS
<1>4. TypeOK
  BY <1>1, <1>2, <1>3, CreateAssumption DEF Init, TypeOK
<1>5. PushInv /\ PopInv
  BY <1>3, CreateAssumption DEF Init, PushInv, PopInv
<1> QED
  BY <1>4, <1>5 DEF RingInv

(* Every step of either thread preserves it.                               *)
LEMMA NextRingInv == RingInv /\ [Next]_vars => RingInv'
<1> SUFFICES ASSUME RingInv, [Next]_vars PROVE RingInv'
  OBVIOUS
<1> USE DEF ringVars, prodVars, consVars
<1>1. CASE PushReject
  BY <1>1 DEF PushReject, RingInv, TypeOK, PushInv, PopInv, Advance
<1>2. ASSUME NEW buf \in Buffers(PushSizes), PushCall(buf)
      PROVE  RingInv'
  BY <1>2, BufferType DEF PushCall, RingInv, TypeOK, PushInv, PopInv, Advance
<1>3. CASE PushPoll
  BY <1>3 DEF PushPoll, RingInv, TypeOK, PushInv, PopInv, Advance
<1>4. CASE PushCopy
  <2> USE <1>4 DEF PushCopy, RingInv
  <2> DEFINE c == copied + 1
  <2>1. c \in 1..MessageSize /\ c \in 1..Len(pbuf) /\ pbuf[c] \in Byte
    BY CreateAssumption DEF TypeOK, PushInv
  <2>2. /\ slots'[head] = [slots[head] EXCEPT ![c] = pbuf[c]]
        /\ slots'[head] \in Message
        /\ \A i \in SlotIndex : i # head => slots'[i] = slots[i]
    BY <2>1 DEF TypeOK, Message
  <2>3. slots' \in [SlotIndex -> Message]
    BY <2>2 DEF TypeOK
  <2>4. TypeOK'
    BY <2>1, <2>3 DEF TypeOK
  <2>5. PushInv'
    BY <2>1, <2>2, CreateAssumption DEF TypeOK, PushInv, Message, Advance
  <2>6. PopInv'
    BY <2>2, CreateAssumption DEF TypeOK, PopInv
  <2> QED
    BY <2>4, <2>5, <2>6
<1>5. CASE PushPublish
  <2> USE <1>5 DEF PushPublish, RingInv
  <2>1. TypeOK'
    BY AdvanceType, CreateAssumption DEF TypeOK
  <2>2. PushInv'
    BY CreateAssumption DEF TypeOK, PushInv
  <2>3. PopInv'
    BY DEF TypeOK, PushInv, PopInv
  <2> QED
    BY <2>1, <2>2, <2>3
<1>6. ASSUME NEW n \in PopSizes, PopCall(n)
      PROVE  RingInv'
  BY <1>6, CreateAssumption DEF PopCall, Clamp, RingInv, TypeOK, PushInv, PopInv, Advance
<1>7. CASE PopPoll
  BY <1>7 DEF PopPoll, RingInv, TypeOK, PushInv, PopInv, Advance
<1>8. CASE PopCopy
  <2> USE <1>8 DEF PopCopy, RingInv
  <2> DEFINE k == Len(rbuf) + 1
             b == slots[tail][message_offset + k]
  <2>1. k \in 1..MessageSize /\ message_offset + k \in 1..MessageSize /\ k <= want
    BY CreateAssumption DEF TypeOK, PopInv
  <2>2. b \in Byte
    <3>1. slots[tail] \in Message
      BY DEF TypeOK
    <3> QED
      BY <2>1, <3>1 DEF Message
  <2>3. rbuf' = Append(rbuf, b)
    BY CreateAssumption DEF TypeOK
  <2> HIDE DEF b
  <2>4. /\ rbuf' \in Seq(Byte) /\ Len(rbuf') = k
        /\ \A j \in 1..Len(rbuf) : rbuf'[j] = rbuf[j]
        /\ rbuf'[k] = b
    BY <2>2, <2>3 DEF TypeOK
  <2>5. TypeOK'
    BY <2>1, <2>4 DEF TypeOK
  <2>6. PushInv'
    BY DEF PushInv, Advance
  <2>7. ASSUME NEW j \in 1..MessageSize, j <= Len(rbuf')
        PROVE  rbuf'[j] = slots'[tail'][message_offset' + j]
    <3>1. CASE j = k
      BY <3>1, <2>4 DEF b
    <3>2. CASE j # k
      <4>1. j \in 1..Len(rbuf)
        BY <3>2, <2>4, <2>7 DEF TypeOK
      <4> QED
        BY <4>1, <2>4 DEF TypeOK, PopInv
    <3> QED
      BY <3>1, <3>2
  <2>8. PopInv'
    BY <2>1, <2>4, <2>7 DEF PopInv
  <2> QED
    BY <2>5, <2>6, <2>8
<1>9. CASE PopReturn
  <2> USE <1>9 DEF PopReturn, RingInv
  <2>1. message_offset + want \in 0..MessageSize
    BY CreateAssumption DEF TypeOK, PopInv
  <2>2. TypeOK'
    BY <2>1, AdvanceType, CreateAssumption DEF TypeOK
  <2>3. PushInv'
    BY AdvanceInjective DEF TypeOK, PushInv, PopInv, Advance
  <2>4. PopInv'
    BY <2>1, CreateAssumption DEF TypeOK, PopInv
  <2> QED
    BY <2>2, <2>3, <2>4
<1>10. CASE UNCHANGED vars
  BY <1>10 DEF vars, RingInv, TypeOK, PushInv, PopInv, Advance
<1> QED
  BY <1>1, <1>2, <1>3, <1>4, <1>5, <1>6, <1>7, <1>8, <1>9, <1>10 DEF Next

(***************************************************************************)
(* The header, the array and both threads' locals keep their types, for    *)
(* every ring queue_create can lay out: no index leaves the array and no   *)
(* pop reads past the end of a message (queue.cpp:73 and 114).             *)
(***************************************************************************)
THEOREM TypeCorrect == Spec => []TypeOK
<1>1. RingInv => TypeOK
  BY DEF RingInv
<1> QED
  BY <1>1, InitRingInv, NextRingInv, PTL DEF Spec

(***************************************************************************)
(* The two memcpy calls never work on the same slot, whatever the size of  *)
(* the ring and of the messages, the buffers and the interleaving.         *)
(***************************************************************************)
THEOREM DataRaceFree == Spec => []NoDataRace
<1>1. RingInv => NoDataRace
  BY DEF RingInv, PopInv, NoDataRace
<1> QED
  BY <1>1, InitRingInv, NextRingInv, PTL DEF Spec

-----------------------------------------------------------------------------
(* Refinement.  The messages between tail and head are a sequence.         *)

(* Between tail and head there are at most queue_size - 1 whole messages,  *)
(* all of them in slots other than head.                                   *)
ContentsInv ==
  /\ Count \in 0..(queue_size - 1)
  /\ Contents \in Seq(Message)
  /\ Len(Contents) = Count
  /\ \A i \in 1..Count : /\ Contents[i] = slots[Wrap(tail + i - 1)]
                         /\ Wrap(tail + i - 1) \in SlotIndex \ {head}

LEMMA ContentsType == RingInv => ContentsInv
<1> SUFFICES ASSUME RingInv PROVE ContentsInv
  OBVIOUS
<1>1. Count \in 0..(queue_size - 1)
  BY QueueSizePositive DEF RingInv, TypeOK, SlotIndex, Count
<1>2. ASSUME NEW i \in 1..Count
      PROVE  Wrap(tail + i - 1) \in SlotIndex \ {head}
  BY <1>1, <1>2, QueueSizePositive DEF RingInv, TypeOK, SlotIndex, Wrap, Count
<1>3. ASSUME NEW i \in 1..Count
      PROVE  slots[Wrap(tail + i - 1)] \in Message
  BY <1>2, <1>3 DEF RingInv, TypeOK
<1> QED
  BY <1>1, <1>2, <1>3 DEF ContentsInv, Contents

LEMMA ContentsTypeNext == RingInv' => ContentsInv'
BY ContentsType, PTL

(* An empty ring is an empty channel.                                      *)
LEMMA InitChannel == Init => Channel!ChanInit
<1> SUFFICES ASSUME Init PROVE Channel!ChanInit
  OBVIOUS
<1>1. Count = 0 /\ Contents = << >>
  BY QueueSizePositive DEF Init, Count, Contents
<1> QED
  BY <1>1 DEF Init, Channel!ChanInit

(* Publishing head appends the message of the slot it leaves.              *)
LEMMA PublishAppends ==
  ASSUME RingInv, RingInv', PushPublish
  PROVE  /\ Count < queue_size - 1
         /\ slots[head] \in Message
         /\ Contents' = Append(Contents, slots[head])
<1> USE DEF PushPublish
<1>1. ContentsInv /\ ContentsInv'
  BY ContentsType, ContentsTypeNext
<1>2. Count < queue_size - 1 /\ Count' = Count + 1
  BY QueueSizePositive DEF RingInv, TypeOK, PushInv, SlotIndex, Count, Advance
<1>3. Wrap(tail + Count) = head /\ slots[head] \in Message
  BY QueueSizePositive DEF RingInv, TypeOK, SlotIndex, Count, Wrap
<1> DEFINE s == Append(Contents, slots[head])
<1>4. /\ s \in Seq(Message) /\ Len(s) = Count + 1
      /\ \A i \in 1..Count : s[i] = Contents[i]
      /\ s[Count + 1] = slots[head]
  BY <1>1, <1>3, AppendProperties DEF ContentsInv
<1>5. ASSUME NEW i \in 1..(Count + 1)
      PROVE  Contents'[i] = s[i]
  <2>1. Contents'[i] = slots[Wrap(tail + i - 1)]
    BY <1>1, <1>2, <1>5 DEF ContentsInv, Wrap
  <2>2. CASE i = Count + 1
    BY <2>1, <2>2, <1>1, <1>3, <1>4 DEF ContentsInv
  <2>3. CASE i # Count + 1
    <3>1. i \in 1..Count
      BY <2>3, <1>1, <1>5 DEF ContentsInv
    <3>2. Contents[i] = slots[Wrap(tail + i - 1)]
      BY <3>1, <1>1 DEF ContentsInv
    <3>3. s[i] = Contents[i]
      BY <3>1, <1>4
    <3> QED
      BY <2>1, <3>2, <3>3
  <2> QED
    BY <2>2, <2>3
<1> HIDE DEF s
<1>6. Contents' = s
  BY <1>1, <1>2, <1>4, <1>5, SeqEqual DEF ContentsInv
<1> QED
  BY <1>2, <1>3, <1>6 DEF s

(* Releasing tail removes the oldest message.                              *)
LEMMA ReleaseRemoves ==
  ASSUME RingInv, RingInv', PopReturn, message_offset + want = MessageSize
  PROVE  Contents' = Tail(Contents)
<1> USE DEF PopReturn
<1>1. ContentsInv /\ ContentsInv'
  BY ContentsType, ContentsTypeNext
<1>2. Count > 0 /\ Count' = Count - 1
  BY QueueSizePositive DEF RingInv, TypeOK, PopInv, SlotIndex, Count, Advance
<1>3. /\ Tail(Contents) \in Seq(Message)
      /\ Len(Tail(Contents)) = Count - 1
      /\ \A i \in 1..(Count - 1) : Tail(Contents)[i] = Contents[i + 1]
  BY <1>1, <1>2, HeadTailProperties DEF ContentsInv
<1>4. ASSUME NEW i \in 1..(Count - 1)
      PROVE  Contents'[i] = Tail(Contents)[i]
  <2>1. Contents'[i] = slots[Wrap(Advance(tail) + i - 1)]
    BY <1>1, <1>2, <1>4 DEF ContentsInv, Wrap
  <2>2. Contents[i + 1] = slots[Wrap(tail + i)]
    BY <1>1, <1>4 DEF ContentsInv
  <2>3. Wrap(Advance(tail) + i - 1) = Wrap(tail + i)
    BY <1>1, <1>4, QueueSizePositive
    DEF RingInv, TypeOK, SlotIndex, Wrap, Advance, ContentsInv
  <2> QED
    BY <2>1, <2>2, <2>3, <1>3
<1> QED
  BY <1>1, <1>2, <1>3, <1>4, SeqEqual DEF ContentsInv

(***************************************************************************)
(* Every step of the ring is a step of the channel or leaves it as it was: *)
(* push offers on its call and sends with the store of head, pop receives  *)
(* when it returns, and all polling and copying in between is invisible.   *)
(***************************************************************************)
LEMMA StepImplementsChannel ==
  RingInv /\ RingInv' /\ [Next]_vars => [Channel!ChanNext]_(Channel!chanVars)
<1> SUFFICES ASSUME RingInv, RingInv', [Next]_vars
             PROVE  Channel!ChanNext \/ UNCHANGED Channel!chanVars
  OBVIOUS
<1> USE DEF ringVars, prodVars, consVars
<1>1. CASE PushReject
  BY <1>1 DEF PushReject, Channel!chanVars, Contents, Count, Wrap
<1>2. ASSUME NEW buf \in Buffers(PushSizes), PushCall(buf)
      PROVE  Channel!ChanNext
  <2>1. buf \in Channel!Buffer
    <3>1. PICK n \in PushSizes : buf \in [1..n -> Byte]
      BY DEF Buffers
    <3>2. n \in 0..MessageSize
      BY <1>2, <3>1, CreateAssumption DEF PushCall
    <3> QED
      BY <3>1, <3>2 DEF Channel!Buffer
  <2>2. Contents' = Contents
    BY <1>2 DEF PushCall, Contents, Count, Wrap
  <2>3. Channel!Offer
    BY <1>2, <2>1, <2>2 DEF PushCall, Channel!Offer
  <2> QED
    BY <2>3 DEF Channel!ChanNext
<1>3. CASE PushPoll
  BY <1>3 DEF PushPoll, Channel!chanVars, Contents, Count, Wrap
<1>4. CASE PushCopy
  <2>1. ContentsInv /\ ContentsInv'
    BY ContentsType, ContentsTypeNext
  <2>2. Count' = Count /\ \A i \in SlotIndex \ {head} : slots'[i] = slots[i]
    BY <1>4 DEF PushCopy, Count, RingInv, TypeOK
  <2>3. ASSUME NEW i \in 1..Count
        PROVE  Contents'[i] = Contents[i]
    BY <1>4, <2>1, <2>2, <2>3 DEF PushCopy, ContentsInv, Wrap
  <2>4. Contents' = Contents
    BY <2>1, <2>2, <2>3, SeqEqual DEF ContentsInv
  <2> QED
    BY <1>4, <2>4 DEF PushCopy, Channel!chanVars
<1>5. CASE PushPublish
  <2>1. /\ Len(Contents) < queue_size - 1
        /\ slots[head] \in Message
        /\ Contents' = Append(Contents, slots[head])
    BY <1>5, PublishAppends, ContentsType DEF ContentsInv
  <2>2. \A k \in DOMAIN pbuf : slots[head][k] = pbuf[k]
    BY <1>5, CreateAssumption DEF PushPublish, RingInv, TypeOK, PushInv
  <2>3. Channel!Send
    BY <1>5, <2>1, <2>2 DEF PushPublish, Channel!Send, Channel!Message, Message
  <2> QED
    BY <2>3 DEF Channel!ChanNext
<1>6. ASSUME NEW n \in PopSizes, PopCall(n)
      PROVE  UNCHANGED Channel!chanVars
  BY <1>6 DEF PopCall, Channel!chanVars, Contents, Count, Wrap
<1>7. CASE PopPoll
  BY <1>7 DEF PopPoll, Channel!chanVars, Contents, Count, Wrap
<1>8. CASE PopCopy
  BY <1>8 DEF PopCopy, Channel!chanVars, Contents, Count, Wrap
<1>9. CASE PopReturn
  <2>1. ContentsInv
    BY ContentsType
  <2>2. Count > 0
    BY <1>9, QueueSizePositive DEF PopReturn, RingInv, TypeOK, PopInv, SlotIndex, Count
  <2>3. Contents # << >> /\ Contents[1] = slots[tail]
    BY <2>1, <2>2, QueueSizePositive DEF ContentsInv, Wrap, RingInv, TypeOK, SlotIndex
  <2>4. rbuf = [k \in 1..want |-> Contents[1][message_offset + k]]
    <3>1. rbuf \in [1..want -> Byte]
      BY <1>9, LenProperties DEF PopReturn, RingInv, TypeOK
    <3>2. \A k \in 1..want : rbuf[k] = Contents[1][message_offset + k]
      BY <1>9, <2>3, CreateAssumption DEF PopReturn, RingInv, TypeOK, PopInv
    <3> QED
      BY <3>1, <3>2
  <2>5. Contents' = IF message_offset + want = MessageSize
                      THEN Tail(Contents) ELSE Contents
    BY <1>9, ReleaseRemoves DEF PopReturn, Contents, Count, Wrap
  <2>6. Channel!Receive(want)
    BY <1>9, <2>3, <2>4, <2>5 DEF PopReturn, Channel!Receive
  <2>7. want \in 0..(MessageSize - message_offset)
    BY CreateAssumption DEF RingInv, TypeOK, PopInv
  <2> QED
    BY <2>6, <2>7 DEF Channel!ChanNext
<1>10. CASE UNCHANGED vars
  BY <1>10 DEF vars, Channel!chanVars, Contents, Count, Wrap
<1> QED
  BY <1>1, <1>2, <1>3, <1>4, <1>5, <1>6, <1>7, <1>8, <1>9, <1>10 DEF Next

(***************************************************************************)
(* The polling ring implements the message channel: FIFO, nothing lost,    *)
(* duplicated or torn, a message removed only once fully read, and at most *)
(* queue_size - 1 messages held, for every size of ring, message and       *)
(* buffer and every interleaving of push and pop (queue.cpp:52-141).       *)
(***************************************************************************)
THEOREM ImplementsChannel == Spec => ChannelSpec
<1>1. Init /\ [][Next]_vars => []RingInv
  BY InitRingInv, NextRingInv, PTL
<1> QED
  BY <1>1, InitChannel, StepImplementsChannel, PTL
  DEF Spec, ChannelSpec, Channel!ChanSpec
=============================================================================
