-------------------------- MODULE BenchmarksProofs --------------------------
(***************************************************************************)
(* Proofs about the queue benchmarks of Benchmarks, for every capacity of  *)
(* the queues and every width of the counters that is larger than it.      *)
(***************************************************************************)
EXTENDS Benchmarks, SequenceTheorems, TLAPS

UInt == 0..(UIntSize - 1)

LEMMA QueueBoundsFacts ==
  /\ Capacity \in Nat /\ Capacity >= 1
  /\ UIntSize \in Nat /\ UIntSize > Capacity + 2
BY QueueBenchAssumption DEF Queues!QueueBounds

(* What i++ does to a u_int.                                               *)
LEMMA Increment ==
  ASSUME NEW x \in UInt
  PROVE  (x + 1) % UIntSize = IF x + 1 = UIntSize THEN 0 ELSE x + 1
<1>1. UIntSize \in Nat /\ UIntSize > 0 /\ x \in Nat /\ x < UIntSize
  BY QueueBoundsFacts DEF UInt
<1>2. CASE x + 1 = UIntSize
  BY <1>1, <1>2
<1>3. CASE x + 1 # UIntSize
  BY <1>1, <1>3
<1> QED
  BY <1>2, <1>3

(* The number n places after x, counted the way the threads do.            *)
Later(x, n) == IF x + n < UIntSize THEN x + n ELSE x + n - UIntSize

LEMMA LaterProperties ==
  ASSUME NEW x \in UInt, NEW n \in 0..Capacity
  PROVE  /\ Later(x, n) \in UInt
         /\ Later(x, 0) = x
         /\ n < Capacity => (Later(x, n) + 1) % UIntSize = Later(x, n + 1)
         /\ n < Capacity => Later((x + 1) % UIntSize, n) = Later(x, n + 1)
<1>1. Later(x, n) \in UInt /\ Later(x, 0) = x
  BY QueueBoundsFacts DEF UInt, Later
<1>2. (Later(x, n) + 1) % UIntSize
        = IF Later(x, n) + 1 = UIntSize THEN 0 ELSE Later(x, n) + 1
  BY <1>1, Increment
<1>3. (x + 1) % UIntSize = IF x + 1 = UIntSize THEN 0 ELSE x + 1
  BY Increment
<1> QED
  BY <1>1, <1>2, <1>3, QueueBoundsFacts DEF UInt, Later

-----------------------------------------------------------------------------
(***************************************************************************)
(* The inductive invariant.                                                *)
(***************************************************************************)

(* A queue that holds one item, and which.                                 *)
Holds(q, v) == Len(q) = 1 /\ q[1] = v

(* One-way programs: the queue holds the items the consumer waits for, in  *)
(* order, and the producer is as many ahead as there are.                  *)
InOrder ==
  ~Queues!Echoes =>
    /\ \A k \in 1..Len(items) : items[k] = Later(consumer.i, k - 1)
    /\ producer.i = Later(consumer.i, Len(items))
    /\ producer.pc # "answer" /\ consumer.pc # "reply"

(* The echoing program: the item is in exactly one place while its client  *)
(* waits for it, and there is none otherwise.                              *)
InOnePlace ==
  Queues!Echoes =>
    IF producer.pc = "answer"
      THEN \/ Holds(items, producer.i) /\ Len(echo) = 0 /\ consumer.pc # "reply"
           \/ Len(items) = 0 /\ Len(echo) = 0 /\ consumer.pc = "reply"
              /\ consumer.i = producer.i
           \/ Len(items) = 0 /\ Holds(echo, producer.i) /\ consumer.pc # "reply"
      ELSE Len(items) = 0 /\ Len(echo) = 0 /\ consumer.pc # "reply"

(* A test goes on from the creation of its queues to their removal.        *)
InTest == master.pc \in {"start", "sleep", "join", "report"}

Phases ==
  /\ alive <=> InTest
  /\ InTest => master.test > 0
  /\ master.test = 0 => ~start_flag
  /\ master.pc = "create" => master.test < 2
  /\ master.pc = "report" => producer.pc = "done" /\ consumer.pc = "done"
  /\ prog = "bench_queue_boost" /\ producer.pc = "done" => consumer.pc = "done"
  /\ prog = "bench_queue" /\ master.pc = "start" => ~start_flag

QueueBenchInv ==
  /\ QueueTypeOK /\ OrderKept /\ QueueOutlivesThreads /\ NotBeforeStart
  /\ InOrder /\ InOnePlace /\ Phases

(* Either program's start establishes it.                                  *)
LEMMA InitQueueBenchInv == BenchInit => QueueBenchInv
<1> SUFFICES ASSUME Queues!NothingRuns \/ Queues!Init PROVE QueueBenchInv
  BY DEF BenchInit
<1>1. /\ prog \in Queues!Programs \cup {"none"}
      /\ start_flag = FALSE /\ stop_flag = FALSE /\ alive = FALSE
      /\ master \in [pc : {"create", "done"}, test : {0}]
      /\ producer = [pc |-> "off", i |-> 0] /\ consumer = [pc |-> "off", i |-> 0]
  BY DEF Queues!NothingRuns, Queues!Init, Queues!NoThread
<1>2. /\ items \in Seq(UInt) /\ Len(items) = 0
      /\ echo \in Seq(UInt) /\ Len(echo) = 0
  <2>1. items = << >> /\ echo = << >>
    BY DEF Queues!NothingRuns, Queues!Init
  <2> QED
    BY <2>1, EmptySeq
<1>3. 0 \in UInt /\ 0 <= Capacity /\ Later(0, 0) = 0
  BY QueueBoundsFacts DEF UInt, Later
<1>4. QueueTypeOK
  <2>1. master \in [pc : {"create", "start", "sleep", "join", "report", "done"}, test : 0..2]
    BY <1>1
  <2>2. start_flag \in BOOLEAN /\ stop_flag \in BOOLEAN /\ alive \in BOOLEAN
    BY <1>1
  <2>3. Len(items) <= Capacity /\ Len(echo) <= Capacity
    BY <1>2, <1>3
  <2> QED
    BY <1>1, <1>2, <1>3, <2>1, <2>2, <2>3 DEF QueueTypeOK, Queues!TypeOK, UInt
<1>5. OrderKept /\ QueueOutlivesThreads /\ NotBeforeStart /\ Phases
  BY <1>1 DEF OrderKept, Queues!OrderKept, QueueOutlivesThreads,
    Queues!QueueOutlivesThreads, NotBeforeStart, Queues!NotBeforeStart, Phases, InTest
<1>6. InOrder /\ InOnePlace
  BY <1>1, <1>2, <1>3 DEF InOrder, InOnePlace
<1> QED
  BY <1>4, <1>5, <1>6 DEF QueueBenchInv

(* The threads' steps that move no item.                                   *)
LEMMA FlagStepInv ==
  ASSUME QueueBenchInv,
         \/ Queues!ProducerHold \/ Queues!ProducerTest \/ Queues!ProducerJoin
         \/ Queues!ConsumerHold \/ Queues!ConsumerTest
  PROVE  QueueBenchInv'
<1> USE DEF QueueBenchInv, QueueTypeOK, Queues!TypeOK, Queues!flagVars, Queues!queueVars
<1>1. QueueTypeOK'
  BY DEF Queues!ProducerHold, Queues!ProducerTest, Queues!ProducerJoin,
    Queues!ConsumerHold, Queues!ConsumerTest, Queues!AfterStop
<1>2. (OrderKept /\ QueueOutlivesThreads)'
  BY DEF Queues!ProducerHold, Queues!ProducerTest, Queues!ProducerJoin,
    Queues!ConsumerHold, Queues!ConsumerTest, Queues!AfterStop,
    OrderKept, Queues!OrderKept, QueueOutlivesThreads, Queues!QueueOutlivesThreads
<1>3. (NotBeforeStart /\ Phases)'
  BY DEF Queues!ProducerHold, Queues!ProducerTest, Queues!ProducerJoin,
    Queues!ConsumerHold, Queues!ConsumerTest, Queues!AfterStop,
    NotBeforeStart, Queues!NotBeforeStart, Phases, InTest
<1>4. (InOrder /\ InOnePlace)'
  BY DEF Queues!ProducerHold, Queues!ProducerTest, Queues!ProducerJoin,
    Queues!ConsumerHold, Queues!ConsumerTest, Queues!AfterStop,
    InOrder, InOnePlace, Holds, Queues!Echoes, Later
<1> QED
  BY <1>1, <1>2, <1>3, <1>4

(* push puts the next item behind the others.                              *)
LEMMA PushInv ==
  ASSUME QueueBenchInv, Queues!ProducerPush
  PROVE  QueueBenchInv'
<1> USE DEF QueueBenchInv, QueueTypeOK, Queues!TypeOK, Queues!flagVars, Queues!queueVars
<1>1. /\ items' = Append(items, producer.i) /\ Len(items) < Capacity
      /\ producer.pc = "push" /\ producer.i \in UInt /\ consumer.i \in UInt
      /\ items \in Seq(UInt)
      /\ UNCHANGED <<prog, start_flag, stop_flag, echo, alive, master, consumer>>
  BY DEF Queues!ProducerPush, UInt
<1>2. /\ items' \in Seq(UInt) /\ Len(items') = Len(items) + 1
      /\ \A k \in 1..Len(items) : items'[k] = items[k]
      /\ items'[Len(items) + 1] = producer.i
      /\ Len(items) \in 0..Capacity
  BY <1>1, AppendProperties, LenProperties, QueueBoundsFacts
<1>3. CASE Queues!Echoes
  <2>1. producer' = [producer EXCEPT !.pc = "answer"]
    BY <1>3 DEF Queues!ProducerPush
  <2>2. QueueTypeOK'
    BY <1>1, <1>2, <2>1, QueueBoundsFacts DEF UInt
  <2>3. (OrderKept /\ QueueOutlivesThreads /\ NotBeforeStart /\ Phases)'
    BY <1>1, <2>1 DEF OrderKept, Queues!OrderKept, QueueOutlivesThreads,
      Queues!QueueOutlivesThreads, NotBeforeStart, Queues!NotBeforeStart, Phases, InTest
  <2>4. (InOrder /\ InOnePlace)'
    BY <1>1, <1>2, <1>3, <2>1 DEF InOrder, InOnePlace, Queues!Echoes, Holds
  <2> QED
    BY <2>2, <2>3, <2>4
<1>4. CASE ~Queues!Echoes
  <2>1. producer' = [pc |-> "test", i |-> (producer.i + 1) % UIntSize]
    BY <1>4 DEF Queues!ProducerPush, Queues!Counted
  <2>2. /\ producer.i = Later(consumer.i, Len(items))
        /\ (producer.i + 1) % UIntSize = Later(consumer.i, Len(items) + 1)
    BY <1>1, <1>2, <1>4, LaterProperties DEF InOrder
  <2>3. Later(consumer.i, Len(items) + 1) \in UInt
    BY <1>1, <1>2, LaterProperties, QueueBoundsFacts
  <2>4. QueueTypeOK'
    BY <1>1, <1>2, <2>1, <2>2, <2>3, QueueBoundsFacts DEF UInt
  <2>5. (OrderKept /\ QueueOutlivesThreads /\ NotBeforeStart /\ Phases)'
    BY <1>1, <2>1 DEF OrderKept, Queues!OrderKept, QueueOutlivesThreads,
      Queues!QueueOutlivesThreads, NotBeforeStart, Queues!NotBeforeStart, Phases, InTest
  <2>6. \A k \in 1..Len(items') : items'[k] = Later(consumer.i, k - 1)
    <3> SUFFICES ASSUME NEW k \in 1..Len(items') PROVE items'[k] = Later(consumer.i, k - 1)
      OBVIOUS
    <3>1. CASE k = Len(items) + 1
      BY <3>1, <1>2, <2>2
    <3>2. CASE k # Len(items) + 1
      BY <3>2, <1>2, <1>4 DEF InOrder
    <3> QED
      BY <3>1, <3>2
  <2>7. (InOrder /\ InOnePlace)'
    BY <1>1, <1>2, <1>4, <2>1, <2>2, <2>6 DEF InOrder, InOnePlace, Queues!Echoes, Later
  <2> QED
    BY <2>4, <2>5, <2>7
<1> QED
  BY <1>3, <1>4

(* The first item of a queue, and what is left of it.                      *)
LEMMA FirstItem ==
  ASSUME NEW q \in Seq(UInt), q # << >>
  PROVE  /\ Len(q) \in Nat /\ Len(q) > 0
         /\ Head(q) = q[1] /\ Head(q) \in UInt
         /\ Tail(q) \in Seq(UInt) /\ Len(Tail(q)) = Len(q) - 1
         /\ \A k \in 1..(Len(q) - 1) : Tail(q)[k] = q[k + 1]
BY HeadTailProperties, EmptySeq, ElementOfSeq, LenProperties

(* pop takes the item the consumer waits for.                              *)
LEMMA PopInv ==
  ASSUME QueueBenchInv, Queues!ConsumerPop
  PROVE  QueueBenchInv'
<1> USE DEF QueueBenchInv, QueueTypeOK, Queues!TypeOK, Queues!flagVars, Queues!queueVars
<1>1. /\ items' = Tail(items) /\ items # << >> /\ items \in Seq(UInt)
      /\ consumer.pc = "pop" /\ consumer.i \in UInt
      /\ UNCHANGED <<prog, start_flag, stop_flag, echo, alive, master, producer>>
  BY DEF Queues!ConsumerPop, UInt
<1>2. /\ Len(items) \in 1..Capacity
      /\ Head(items) = items[1] /\ Head(items) \in UInt
      /\ items' \in Seq(UInt) /\ Len(items') = Len(items) - 1
      /\ \A k \in 1..(Len(items) - 1) : items'[k] = items[k + 1]
  BY <1>1, FirstItem, QueueBoundsFacts
<1>3. CASE Queues!Echoes
  <2>1. consumer' = [pc |-> "reply", i |-> Head(items)]
    BY <1>3 DEF Queues!ConsumerPop
  <2>2. producer.pc = "answer" /\ Holds(items, producer.i) /\ Len(echo) = 0
    BY <1>2, <1>3 DEF InOnePlace
  <2>3. QueueTypeOK'
    BY <1>1, <1>2, <2>1, QueueBoundsFacts DEF UInt
  <2>4. (OrderKept /\ QueueOutlivesThreads /\ NotBeforeStart /\ Phases)'
    BY <1>1, <1>3, <2>1 DEF OrderKept, Queues!OrderKept, QueueOutlivesThreads,
      Queues!QueueOutlivesThreads, NotBeforeStart, Queues!NotBeforeStart, Phases, InTest,
      Queues!Echoes
  <2>5. (InOrder /\ InOnePlace)'
    BY <1>1, <1>2, <1>3, <2>1, <2>2 DEF InOrder, InOnePlace, Queues!Echoes, Holds
  <2> QED
    BY <2>3, <2>4, <2>5
<1>4. CASE ~Queues!Echoes
  <2>1. Head(items) = consumer.i
    BY <1>1, <1>2, <1>4, LaterProperties DEF InOrder
  <2> DEFINE next == (consumer.i + 1) % UIntSize
  <2>2. consumer' = [pc |-> "test", i |-> next]
    BY <1>4, <2>1 DEF Queues!ConsumerPop, Queues!Checked, Queues!Counted
  <2>3. next \in UInt
    BY <1>1, Increment, QueueBoundsFacts DEF UInt
  <2>4. \A n \in 0..(Len(items) - 1) : Later(next, n) = Later(consumer.i, n + 1)
    <3> SUFFICES ASSUME NEW n \in 0..(Len(items) - 1)
                 PROVE  Later(next, n) = Later(consumer.i, n + 1)
      OBVIOUS
    <3>1. n \in 0..Capacity /\ n < Capacity
      BY <1>2, QueueBoundsFacts
    <3> QED
      BY <1>1, <3>1, LaterProperties
  <2> HIDE DEF next
  <2>5. QueueTypeOK'
    BY <1>1, <1>2, <2>2, <2>3, QueueBoundsFacts DEF UInt
  <2>6. (OrderKept /\ QueueOutlivesThreads /\ NotBeforeStart /\ Phases)'
    BY <1>1, <2>2 DEF OrderKept, Queues!OrderKept, QueueOutlivesThreads,
      Queues!QueueOutlivesThreads, NotBeforeStart, Queues!NotBeforeStart, Phases, InTest
  <2>7. \A k \in 1..Len(items') : items'[k] = Later(next, k - 1)
    <3> SUFFICES ASSUME NEW k \in 1..Len(items') PROVE items'[k] = Later(next, k - 1)
      OBVIOUS
    <3>1. k + 1 \in 1..Len(items) /\ k - 1 \in 0..(Len(items) - 1)
      BY <1>2
    <3>2. items'[k] = Later(consumer.i, k)
      BY <1>2, <1>4, <3>1 DEF InOrder
    <3>3. Later(next, k - 1) = Later(consumer.i, k)
      BY <1>2, <2>4, <3>1
    <3> QED
      BY <3>2, <3>3
  <2>8. producer.i = Later(next, Len(items'))
    BY <1>2, <1>4, <2>4 DEF InOrder
  <2>9. (InOrder /\ InOnePlace)'
    BY <1>1, <1>2, <1>4, <2>2, <2>7, <2>8 DEF InOrder, InOnePlace, Queues!Echoes, Later
  <2> QED
    BY <2>5, <2>6, <2>9
<1> QED
  BY <1>3, <1>4

(* The echo: the item goes back over the second queue.                     *)
LEMMA ReplyInv ==
  ASSUME QueueBenchInv, Queues!ConsumerReply
  PROVE  QueueBenchInv'
<1> USE DEF QueueBenchInv, QueueTypeOK, Queues!TypeOK, Queues!flagVars, Queues!queueVars
<1>1. /\ echo' = Append(echo, consumer.i) /\ Len(echo) < Capacity
      /\ consumer.pc = "reply" /\ consumer.i \in UInt
      /\ echo \in Seq(UInt) /\ consumer' = [pc |-> "test", i |-> 0]
      /\ UNCHANGED <<prog, start_flag, stop_flag, items, alive, master, producer>>
  BY DEF Queues!ConsumerReply, UInt
<1>2. Queues!Echoes
  BY <1>1 DEF InOrder
<1>3. /\ producer.pc = "answer" /\ consumer.i = producer.i
      /\ Len(items) = 0 /\ Len(echo) = 0
  BY <1>1, <1>2 DEF InOnePlace
<1>4. echo' \in Seq(UInt) /\ Len(echo') = 1 /\ echo'[1] = producer.i
  BY <1>1, <1>3, AppendProperties
<1>5. QueueTypeOK'
  BY <1>1, <1>4, QueueBoundsFacts DEF UInt
<1>6. (OrderKept /\ QueueOutlivesThreads /\ NotBeforeStart /\ Phases)'
  BY <1>1, <1>3 DEF OrderKept, Queues!OrderKept, QueueOutlivesThreads,
    Queues!QueueOutlivesThreads, NotBeforeStart, Queues!NotBeforeStart, Phases, InTest
<1>7. (InOrder /\ InOnePlace)'
  BY <1>1, <1>2, <1>3, <1>4 DEF InOrder, InOnePlace, Queues!Echoes, Holds
<1> QED
  BY <1>5, <1>6, <1>7

LEMMA AnswerInv ==
  ASSUME QueueBenchInv, Queues!ProducerAnswer
  PROVE  QueueBenchInv'
<1> USE DEF QueueBenchInv, QueueTypeOK, Queues!TypeOK, Queues!flagVars, Queues!queueVars
<1>1. /\ echo' = Tail(echo) /\ echo # << >> /\ echo \in Seq(UInt)
      /\ producer.pc = "answer" /\ producer.i \in UInt
      /\ UNCHANGED <<prog, start_flag, stop_flag, items, alive, master, consumer>>
  BY DEF Queues!ProducerAnswer, UInt
<1>2. /\ Len(echo) > 0 /\ Head(echo) = echo[1]
      /\ echo' \in Seq(UInt) /\ Len(echo') = Len(echo) - 1
  BY <1>1, FirstItem
<1>3. Queues!Echoes
  BY <1>1 DEF InOrder
<1>4. Len(items) = 0 /\ Holds(echo, producer.i) /\ consumer.pc # "reply"
  BY <1>1, <1>2, <1>3 DEF InOnePlace
<1>5. producer' = [pc |-> "test", i |-> (producer.i + 1) % UIntSize]
  BY <1>2, <1>4 DEF Queues!ProducerAnswer, Queues!Checked, Queues!Counted, Holds
<1>6. (producer.i + 1) % UIntSize \in UInt /\ Len(echo') = 0
  <2>1. (producer.i + 1) % UIntSize \in UInt
    BY <1>1, Increment, QueueBoundsFacts DEF UInt
  <2>2. Len(echo') = 0
    BY <1>1, <1>2, <1>4 DEF Holds
  <2> QED
    BY <2>1, <2>2
<1>7. QueueTypeOK'
  BY <1>1, <1>2, <1>5, <1>6, QueueBoundsFacts DEF UInt
<1>8. (OrderKept /\ QueueOutlivesThreads /\ NotBeforeStart /\ Phases)'
  BY <1>1, <1>5 DEF OrderKept, Queues!OrderKept, QueueOutlivesThreads,
    Queues!QueueOutlivesThreads, NotBeforeStart, Queues!NotBeforeStart, Phases, InTest
<1>9. (InOrder /\ InOnePlace)'
  BY <1>1, <1>3, <1>4, <1>5, <1>6 DEF InOrder, InOnePlace, Queues!Echoes
<1> QED
  BY <1>7, <1>8, <1>9

(* A new test begins with empty queues and both threads at their start.    *)
LEMMA CreateInv ==
  ASSUME QueueBenchInv, Queues!CreateTest \/ Queues!CreateComparison
  PROVE  QueueBenchInv'
<1> USE DEF QueueBenchInv, QueueTypeOK, Queues!TypeOK, Queues!flagVars, Queues!queueVars
<1>1. PICK pc \in {"hold", "test"} : Queues!Begin(pc)
  BY DEF Queues!CreateTest, Queues!CreateComparison
<1>2. /\ items' \in Seq(UInt) /\ Len(items') = 0
      /\ echo' \in Seq(UInt) /\ Len(echo') = 0
  <2>1. items' = << >> /\ echo' = << >>
    BY <1>1 DEF Queues!Begin
  <2> QED
    BY <2>1, EmptySeq
<1>3. /\ alive' = TRUE /\ prog' = prog
      /\ master' = [pc |-> "start", test |-> master.test + 1]
      /\ producer' = [pc |-> pc, i |-> 0] /\ consumer' = [pc |-> pc, i |-> 0]
  BY <1>1 DEF Queues!Begin
<1>4. master.pc = "create" /\ master.test \in 0..1
  BY DEF Queues!CreateTest, Queues!CreateComparison, Phases
<1>5. start_flag' \in BOOLEAN /\ stop_flag' \in BOOLEAN
  BY DEF Queues!CreateTest, Queues!CreateComparison
<1>6. prog = "bench_queue" => pc = "hold" /\ start_flag' = FALSE
  BY <1>3, <1>4 DEF Queues!CreateTest, Queues!CreateComparison, Queues!Begin, Phases
<1>7. 0 \in UInt /\ 0 <= Capacity /\ Later(0, 0) = 0
  BY QueueBoundsFacts DEF UInt, Later
<1>8. QueueTypeOK'
  BY <1>2, <1>3, <1>4, <1>5, <1>7 DEF UInt
<1>9. (OrderKept /\ QueueOutlivesThreads /\ NotBeforeStart /\ Phases)'
  BY <1>3, <1>4, <1>6 DEF OrderKept, Queues!OrderKept, QueueOutlivesThreads,
    Queues!QueueOutlivesThreads, NotBeforeStart, Queues!NotBeforeStart, Phases, InTest
<1>10. (InOrder /\ InOnePlace)'
  BY <1>2, <1>3, <1>7 DEF InOrder, InOnePlace, Queues!Echoes, Later
<1> QED
  BY <1>8, <1>9, <1>10

(* The rest of main.                                                       *)
LEMMA MainInv ==
  ASSUME QueueBenchInv,
         Queues!Start \/ Queues!SignalStop \/ Queues!Join \/ Queues!EndTest
  PROVE  QueueBenchInv'
<1> USE DEF QueueBenchInv, QueueTypeOK, Queues!TypeOK, Queues!flagVars, Queues!queueVars,
           Queues!Start, Queues!SignalStop, Queues!Join, Queues!EndTest
<1>1. QueueTypeOK'
  OBVIOUS
<1>2. (OrderKept /\ QueueOutlivesThreads /\ NotBeforeStart)'
  BY DEF OrderKept, Queues!OrderKept, QueueOutlivesThreads,
    Queues!QueueOutlivesThreads, NotBeforeStart, Queues!NotBeforeStart, Phases, InTest
<1>3. Phases'
  BY DEF Phases, InTest, Queues!Tests
<1>4. (InOrder /\ InOnePlace)'
  BY DEF InOrder, InOnePlace, Holds, Queues!Echoes, Later
<1> QED
  BY <1>1, <1>2, <1>3, <1>4

LEMMA NextQueueBenchInv ==
  QueueBenchInv /\ [BenchNext]_<<rpcVars, queueVars>> => QueueBenchInv'
<1> SUFFICES ASSUME QueueBenchInv, Queues!Next \/ UNCHANGED queueVars
             PROVE  QueueBenchInv'
  BY DEF BenchNext
<1>1. CASE UNCHANGED queueVars
  BY <1>1 DEF queueVars, QueueBenchInv, QueueTypeOK, Queues!TypeOK, OrderKept,
    Queues!OrderKept, QueueOutlivesThreads, Queues!QueueOutlivesThreads, NotBeforeStart,
    Queues!NotBeforeStart, InOrder, InOnePlace, Holds, Queues!Echoes, Later, Phases, InTest
<1>2. CASE Queues!MainStep
  BY <1>2, CreateInv, MainInv DEF Queues!MainStep
<1>3. CASE Queues!ProducerStep
  BY <1>3, FlagStepInv, PushInv, AnswerInv DEF Queues!ProducerStep
<1>4. CASE Queues!ConsumerStep
  BY <1>4, FlagStepInv, PopInv, ReplyInv DEF Queues!ConsumerStep
<1> QED
  BY <1>1, <1>2, <1>3, <1>4 DEF Queues!Next

-----------------------------------------------------------------------------
(***************************************************************************)
(* Types, the bounds of both queues and the wrap-around of the u_int       *)
(* counters included, for every capacity and width of the counters.        *)
(***************************************************************************)
THEOREM QueueTypesCorrect == BenchSpec => []QueueTypeOK
<1>1. QueueBenchInv => QueueTypeOK
  BY DEF QueueBenchInv
<1> QED
  BY <1>1, InitQueueBenchInv, NextQueueBenchInv, PTL DEF BenchSpec

(***************************************************************************)
(* No check of an item fails (the assert in bench_queue/src/bench.cpp, the *)
(* throws in the Boost programs), however often the counters wrap around   *)
(* and whatever an earlier test left in its queue.                         *)
(***************************************************************************)
THEOREM ItemsInOrder == BenchSpec => []OrderKept
<1>1. QueueBenchInv => OrderKept
  BY DEF QueueBenchInv
<1> QED
  BY <1>1, InitQueueBenchInv, NextQueueBenchInv, PTL DEF BenchSpec

(***************************************************************************)
(* The queues are removed or destroyed only when both threads are gone,    *)
(* in bench_queue_boost too, where main joins the producer only and the    *)
(* producer joins the consumer.                                            *)
(***************************************************************************)
THEOREM ThreadsGoneFirst == BenchSpec => []QueueOutlivesThreads
<1>1. QueueBenchInv => QueueOutlivesThreads
  BY DEF QueueBenchInv
<1> QED
  BY <1>1, InitQueueBenchInv, NextQueueBenchInv, PTL DEF BenchSpec

(***************************************************************************)
(* Both threads of both tests of bench_queue wait for start_flag: what the *)
(* first test left in the flags does not start the second.                 *)
(***************************************************************************)
THEOREM StartTogether == BenchSpec => []NotBeforeStart
<1>1. QueueBenchInv => NotBeforeStart
  BY DEF QueueBenchInv
<1> QED
  BY <1>1, InitQueueBenchInv, NextQueueBenchInv, PTL DEF BenchSpec
=============================================================================
