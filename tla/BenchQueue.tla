----------------------------- MODULE BenchQueue -----------------------------
(***************************************************************************)
(* The programs that measure one queue between two threads: bench_queue,   *)
(* which runs two tests over the library's polling queue, and the two      *)
(* comparisons over boost::lockfree::spsc_queue, bench_queue_boost and     *)
(* bench_boost, the last of which echoes every item over a second queue.   *)
(*                                                                         *)
(* A queue is a bounded FIFO: what PollQueue is shown to be, and what the  *)
(* Boost queue is taken to be.  The threads spin inside push and pop, and  *)
(* look at the flags only between two calls.  Times, the sampled depths    *)
(* and the output are left out.                                            *)
(***************************************************************************)
EXTENDS Naturals, Sequences

CONSTANTS
  Capacity,   (* messages a queue holds                                    *)
  UIntSize    (* the values of u_int, which the threads count items with   *)

(* What the constants have to be, assumed where they get their values: two *)
(* items in a queue, or in it and in the threads' hands, never have the    *)
(* same number.                                                            *)
QueueBounds ==
  /\ Capacity \in Nat \ {0}
  /\ UIntSize \in Nat /\ UIntSize > Capacity + 2

Programs == {"bench_queue", "bench_queue_boost", "bench_boost"}
Tests(p) == IF p = "bench_queue" THEN 2 ELSE 1

VARIABLES
  prog,         (* the program that runs; "none" when there is none        *)
  start_flag, stop_flag,
  items, echo,  (* the queue, and the second one of bench_boost            *)
  alive,        (* whether the queues are there                            *)
  master,       (* main's thread, and how many tests it has begun          *)
  producer, consumer   (* where each is, and its count i                   *)

flagVars == <<start_flag, stop_flag>>
queueVars == <<items, echo, alive>>
vars == <<prog, flagVars, queueVars, master, producer, consumer>>

NoThread == [pc |-> "off", i |-> 0]
Echoes == prog = "bench_boost"

NothingRuns ==
  /\ prog = "none"
  /\ start_flag = FALSE /\ stop_flag = FALSE
  /\ items = << >> /\ echo = << >> /\ alive = FALSE
  /\ master = [pc |-> "done", test |-> 0]
  /\ producer = NoThread /\ consumer = NoThread

Init ==
  /\ prog \in Programs
  /\ start_flag = FALSE /\ stop_flag = FALSE
  /\ items = << >> /\ echo = << >> /\ alive = FALSE
  /\ master = [pc |-> "create", test |-> 0]
  /\ producer = NoThread /\ consumer = NoThread

-----------------------------------------------------------------------------
(* The producer and the consumer: the client and the server of bench_boost *)

(* The library's benchmark holds its threads back until start_flag.        *)
ProducerHold ==
  /\ producer.pc = "hold"
  /\ start_flag
  /\ producer' = [producer EXCEPT !.pc = "test"]
  /\ UNCHANGED <<prog, flagVars, queueVars, master, consumer>>

ConsumerHold ==
  /\ consumer.pc = "hold"
  /\ start_flag
  /\ consumer' = [consumer EXCEPT !.pc = "test"]
  /\ UNCHANGED <<prog, flagVars, queueVars, master, producer>>

(* In bench_queue_boost the producer joins the consumer before it ends.    *)
AfterStop == IF prog = "bench_queue_boost" THEN "join" ELSE "done"

ProducerTest ==
  /\ producer.pc = "test"
  /\ producer' = [producer EXCEPT !.pc = IF stop_flag THEN AfterStop ELSE "push"]
  /\ UNCHANGED <<prog, flagVars, queueVars, master, consumer>>

ConsumerTest ==
  /\ consumer.pc = "test"
  /\ consumer' = [consumer EXCEPT !.pc = IF stop_flag THEN "done" ELSE "pop"]
  /\ UNCHANGED <<prog, flagVars, queueVars, master, producer>>

ProducerJoin ==
  /\ producer.pc = "join"
  /\ consumer.pc = "done"
  /\ producer' = [producer EXCEPT !.pc = "done"]
  /\ UNCHANGED <<prog, flagVars, queueVars, master, consumer>>

Counted(thread) == [pc |-> "test", i |-> (thread.i + 1) % UIntSize]

(* The check of the item just popped: assert, or throw.                    *)
Checked(thread, val) ==
  IF val = thread.i THEN Counted(thread) ELSE [thread EXCEPT !.pc = "failed"]

ProducerPushOver ==
  /\ producer.pc = "push"
  /\ items' = Append(items, producer.i)
  /\ producer' = IF Echoes THEN [producer EXCEPT !.pc = "answer"] ELSE Counted(producer)
  /\ UNCHANGED <<prog, flagVars, echo, alive, master, consumer>>

ProducerPush ==
  /\ producer.pc = "push"
  /\ Len(items) < Capacity
  /\ items' = Append(items, producer.i)
  /\ producer' = IF Echoes THEN [producer EXCEPT !.pc = "answer"] ELSE Counted(producer)
  /\ UNCHANGED <<prog, flagVars, echo, alive, master, consumer>>

ProducerAnswer ==
  /\ producer.pc = "answer"
  /\ echo # << >>
  /\ echo' = Tail(echo)
  /\ producer' = Checked(producer, Head(echo))
  /\ UNCHANGED <<prog, flagVars, items, alive, master, consumer>>

ConsumerPop ==
  /\ consumer.pc = "pop"
  /\ items # << >>
  /\ items' = Tail(items)
  /\ consumer' = IF Echoes THEN [pc |-> "reply", i |-> Head(items)]
                 ELSE Checked(consumer, Head(items))
  /\ UNCHANGED <<prog, flagVars, echo, alive, master, producer>>

(* The echo's own count is only reported; i holds the item here.           *)
ConsumerReply ==
  /\ consumer.pc = "reply"
  /\ Len(echo) < Capacity
  /\ echo' = Append(echo, consumer.i)
  /\ consumer' = [pc |-> "test", i |-> 0]
  /\ UNCHANGED <<prog, flagVars, items, alive, master, producer>>

ProducerStep ==
  \/ ProducerHold
  \/ ProducerTest
  \/ ProducerPush
  \/ ProducerAnswer
  \/ ProducerJoin

ConsumerStep ==
  \/ ConsumerHold
  \/ ConsumerTest
  \/ ConsumerPop
  \/ ConsumerReply

-----------------------------------------------------------------------------
(* main                                                                    *)

Begin(pc) ==
  /\ items' = << >> /\ echo' = << >> /\ alive' = TRUE
  /\ master' = [pc |-> "start", test |-> master.test + 1]
  /\ producer' = [pc |-> pc, i |-> 0] /\ consumer' = [pc |-> pc, i |-> 0]
  /\ prog' = prog

CreateTestOldFlags ==
  /\ master.pc = "create"
  /\ prog = "bench_queue"
  /\ Begin("hold")
  /\ UNCHANGED flagVars

CreateTestOldQueue ==
  /\ master.pc = "create"
  /\ prog = "bench_queue"
  /\ alive' = TRUE
  /\ master' = [pc |-> "start", test |-> master.test + 1]
  /\ producer' = [pc |-> "hold", i |-> 0] /\ consumer' = [pc |-> "hold", i |-> 0]
  /\ start_flag' = FALSE /\ stop_flag' = FALSE
  /\ UNCHANGED <<prog, items, echo>>

(* bench_queue: a new queue; the second test takes both flags back.        *)
CreateTest ==
  /\ master.pc = "create"
  /\ prog = "bench_queue"
  /\ Begin("hold")
  /\ IF master.test = 0 THEN UNCHANGED flagVars
     ELSE start_flag' = FALSE /\ stop_flag' = FALSE

(* The comparisons start with stop_flag set, and nothing holds a thread    *)
(* back: one that looks before main goes on leaves at once.                *)
CreateComparison ==
  /\ master.pc = "create"
  /\ prog \in Programs \ {"bench_queue"}
  /\ Begin("test")
  /\ start_flag' = start_flag /\ stop_flag' = TRUE

Start ==
  /\ master.pc = "start"
  /\ IF prog = "bench_queue" THEN start_flag' = TRUE /\ stop_flag' = stop_flag
     ELSE start_flag' = start_flag /\ stop_flag' = FALSE
  /\ master' = [master EXCEPT !.pc = "sleep"]
  /\ UNCHANGED <<prog, queueVars, producer, consumer>>

SignalStopLost ==
  /\ master.pc = "sleep"
  /\ master' = [master EXCEPT !.pc = "join"]
  /\ UNCHANGED <<prog, flagVars, queueVars, producer, consumer>>

(* After EXECUTION_SEC seconds, whatever the threads have done by then.    *)
SignalStop ==
  /\ master.pc = "sleep"
  /\ stop_flag' = TRUE
  /\ master' = [master EXCEPT !.pc = "join"]
  /\ UNCHANGED <<prog, start_flag, queueVars, producer, consumer>>

JoinProducer ==
  /\ master.pc = "join"
  /\ producer.pc = "done"
  /\ master' = [master EXCEPT !.pc = "report"]
  /\ UNCHANGED <<prog, flagVars, queueVars, producer, consumer>>

(* bench_queue_boost joins the producer only.                              *)
Join ==
  /\ master.pc = "join"
  /\ producer.pc = "done"
  /\ prog # "bench_queue_boost" => consumer.pc = "done"
  /\ master' = [master EXCEPT !.pc = "report"]
  /\ UNCHANGED <<prog, flagVars, queueVars, producer, consumer>>

(* The queues go: removed, or destroyed with the stack frame.              *)
EndTest ==
  /\ master.pc = "report"
  /\ alive' = FALSE
  /\ master' = [master EXCEPT !.pc = IF master.test < Tests(prog) THEN "create" ELSE "done"]
  /\ UNCHANGED <<prog, flagVars, items, echo, producer, consumer>>

MainStep ==
  \/ CreateTest
  \/ CreateComparison
  \/ Start
  \/ SignalStop
  \/ Join
  \/ EndTest

Next ==
  \/ MainStep
  \/ ProducerStep
  \/ ConsumerStep

Spec == Init /\ [][Next]_vars

(* Every thread keeps running.                                             *)
Fairness == WF_vars(MainStep) /\ WF_vars(ProducerStep) /\ WF_vars(ConsumerStep)

-----------------------------------------------------------------------------
(* Types of the flags, the queues and the threads.                         *)
TypeOK ==
  /\ prog \in Programs \cup {"none"}
  /\ start_flag \in BOOLEAN /\ stop_flag \in BOOLEAN /\ alive \in BOOLEAN
  /\ items \in Seq(0..(UIntSize - 1)) /\ Len(items) <= Capacity
  /\ echo \in Seq(0..(UIntSize - 1)) /\ Len(echo) <= Capacity
  /\ master \in [pc : {"create", "start", "sleep", "join", "report", "done"}, test : 0..2]
  /\ producer \in [pc : {"off", "hold", "test", "push", "answer", "join", "done", "failed"},
                   i : 0..(UIntSize - 1)]
  /\ consumer \in [pc : {"off", "hold", "test", "pop", "reply", "done", "failed"},
                   i : 0..(UIntSize - 1)]

(***************************************************************************)
(* The items come out in the order they went in: no assert fails and       *)
(* nothing is thrown, in the second test neither, although the first may   *)
(* have ended with items in the queue.                                     *)
(***************************************************************************)
OrderKept == producer.pc # "failed" /\ consumer.pc # "failed"

(***************************************************************************)
(* The queues outlive the threads: they are not removed, detached or       *)
(* destroyed while a thread may still be inside push or pop, although      *)
(* main of bench_queue_boost joins only one of the two.                    *)
(***************************************************************************)
QueueOutlivesThreads ==
  ~alive => producer.pc \in {"off", "done"} /\ consumer.pc \in {"off", "done"}

(***************************************************************************)
(* The tests of bench_queue begin for both threads with start_flag: the    *)
(* flags the first test left set do not let the second's threads run.      *)
(***************************************************************************)
NotBeforeStart ==
  prog = "bench_queue" /\ master.pc = "start" =>
    producer.pc = "hold" /\ consumer.pc = "hold"

(* One thread has seen stop_flag and left; the other is inside a call that *)
(* only the first could complete.                                          *)
Stranded ==
  \/ producer.pc \in {"join", "done"} /\ consumer.pc = "pop" /\ items = << >>
  \/ consumer.pc = "done" /\ producer.pc = "push" /\ Len(items) = Capacity
  \/ consumer.pc = "done" /\ producer.pc = "answer" /\ echo = << >>

(***************************************************************************)
(* After stop_flag the join returns, unless a thread is stranded in push   *)
(* or pop: nothing else keeps a program from ending.                       *)
(***************************************************************************)
JoinReturns == (master.pc = "join") ~> (master.pc = "report" \/ Stranded)
=============================================================================
