----------------------------- MODULE Benchmarks -----------------------------
(***************************************************************************)
(* The benchmark programs of the repository, of which one runs: the RPC    *)
(* benchmark (RpcBench) or one of the queue benchmarks (BenchQueue).       *)
(***************************************************************************)
EXTENDS RpcBench

CONSTANT UIntSize

VARIABLES prog, start_flag, stop_flag, items, echo, alive, master, producer, consumer

rpcVars == vars
queueVars ==
  <<prog, start_flag, stop_flag, items, echo, alive, master, producer, consumer>>

Queues == INSTANCE BenchQueue

ASSUME QueueBenchAssumption == Queues!QueueBounds

(* A program that does not run is one whose tests are all over.            *)
BenchInit ==
  \/ Init /\ Queues!NothingRuns
  \/ InitAfter(Len(bench_run_all)) /\ Queues!Init

BenchNext ==
  \/ Next /\ UNCHANGED queueVars
  \/ Queues!Next /\ UNCHANGED rpcVars

BenchSpec ==
  /\ BenchInit /\ [][BenchNext]_<<rpcVars, queueVars>>
  /\ Fairness /\ Queues!Fairness

(* Types of the flags, the queues and the threads of the queue benchmarks. *)
QueueTypeOK == Queues!TypeOK

(* The consumers of the queue benchmarks get the items in order; see       *)
(* BenchQueue.                                                             *)
OrderKept == Queues!OrderKept

(* No queue is removed while a thread may be inside push or pop; see       *)
(* BenchQueue.                                                             *)
QueueOutlivesThreads == Queues!QueueOutlivesThreads

(* The flags of a finished test do not start the threads of the next; see  *)
(* BenchQueue.                                                             *)
NotBeforeStart == Queues!NotBeforeStart

(* After stop_flag a queue benchmark's join returns, unless a thread is    *)
(* stranded inside push or pop; see BenchQueue.                            *)
JoinReturns == Queues!JoinReturns
=============================================================================
