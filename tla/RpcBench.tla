------------------------------ MODULE RpcBench ------------------------------
(***************************************************************************)
(* Connections and queues put together the way the RPC benchmark uses them *)
(* (bench_rpc/src/bench.cpp, bench_utils.cpp, and the send and receive half*)
(* of rpc.cpp): client threads that open, exchange messages and sometimes  *)
(* close, a main thread that accepts and starts one echo handler for each  *)
(* connection, and run_flag, which holds everybody back.                   *)
(*                                                                         *)
(* The parts are taken at the level of their abstract specifications: a    *)
(* queue is a bounded FIFO (MessageChannel, here always read in one piece),*)
(* and a slot goes through the states of SlotTable.  accept keeps every    *)
(* look at a row that clients and manage_pool may change meanwhile.        *)
(***************************************************************************)
EXTENDS Naturals, Sequences, FiniteSets

CONSTANTS
  Client,     (* the client threads of one test; MAX_CLIENTS of them       *)
  NoClient,   (* who a free slot belongs to                                *)
  SLOT_NUM,   (* slots of the coord region                                 *)
  NUM_ITEMS,  (* each client makes NUM_ITEMS - 1 round trips               *)
  Capacity    (* messages a queue holds                                    *)

MAX_CLIENTS == Cardinality(Client)
Slot == 0..(SLOT_NUM - 1)

ASSUME BenchAssumption ==
  /\ IsFiniteSet(Client) /\ Client # {} /\ NoClient \notin Client
  /\ SLOT_NUM \in Nat /\ MAX_CLIENTS <= SLOT_NUM
  /\ NUM_ITEMS \in Nat \ {0}
  /\ Capacity \in Nat \ {0}

-----------------------------------------------------------------------------
(* The tests.  All register, start MAX_CLIENTS clients, accept until as    *)
(* many contexts are counted, join and shut down.  They differ in whether  *)
(* the clients wait for run_flag before they open or after, exchange       *)
(* messages, and close; times, averages and output are left out.           *)

connection_stress_test ==
  [opens_first |-> FALSE, echoes |-> FALSE, closes |-> FALSE]
rtt_steady_state_conn_test ==
  [opens_first |-> TRUE, echoes |-> TRUE, closes |-> FALSE]
rtt_during_connection_test ==
  [opens_first |-> FALSE, echoes |-> TRUE, closes |-> FALSE]
rtt_connect_disconnect_connection_test ==
  [opens_first |-> FALSE, echoes |-> TRUE, closes |-> TRUE]

bench_run_all ==
  <<connection_stress_test, rtt_steady_state_conn_test,
    rtt_during_connection_test, rtt_connect_disconnect_connection_test>>

-----------------------------------------------------------------------------
VARIABLES
  test,         (* how many tests are over                                 *)
  run_flag,
  slot,         (* the coord table                                         *)
  queue,        (* the two queues of each client's connection              *)
  cl,           (* the client threads                                      *)
  handlers,     (* the echo threads, in the order they were started        *)
  mn,           (* the main thread                                         *)
  accept_slot,
  client_list   (* the ids main has accepted                               *)

tableVars == <<slot, accept_slot>>
mainVars == <<mn, client_list, test, run_flag>>
vars == <<tableVars, queue, cl, handlers, mainVars>>

Free == [state |-> "free", client |-> NoClient, server_attached |-> FALSE]
Empty == [request |-> << >>, response |-> << >>]
Thread == [pc |-> "none", slot |-> 0, i |-> 1]
Main == [pc |-> "register", slot |-> 0, n |-> 0, queues |-> NoClient, id |-> NoClient]

Over == test = Len(bench_run_all)
Test == bench_run_all[test + 1]

InitAfter(tests) ==
  /\ test = tests
  /\ run_flag = FALSE
  /\ slot = [s \in Slot |-> Free]
  /\ queue = [c \in Client |-> Empty]
  /\ cl = [c \in Client |-> Thread]
  /\ handlers = << >>
  /\ mn = Main
  /\ accept_slot = 0
  /\ client_list = << >>

Init == InitAfter(0)

-----------------------------------------------------------------------------
(* Sending and receiving: which queue each function of a context works on. *)
(* The benchmark's contexts are POLL; the other types choose alike.        *)
select_queue_ctx ==
  [client_send |-> "request",  client_receive |-> "response",
   server_send |-> "response", server_receive |-> "request"]

CanSend(c, q) == Len(queue[c][q]) < Capacity
SendTo(c, q, m) == queue' = [queue EXCEPT ![c][q] = Append(@, m)]
CanReceive(c, q) == queue[c][q] # << >>
ReceiveFrom(c, q) == queue' = [queue EXCEPT ![c][q] = Tail(@)]

-----------------------------------------------------------------------------
(* A client thread                                                         *)

Goto(c, pc) == cl' = [cl EXCEPT ![c].pc = pc]

ClientHold(c) ==
  /\ cl[c].pc = "hold"
  /\ run_flag
  /\ Goto(c, IF Test.opens_first THEN "send" ELSE "open")
  /\ UNCHANGED <<tableVars, queue, handlers, mainVars>>

(* client_open takes a free slot: any, since slots are freed while it      *)
(* scans ...                                                               *)
ClientRequest(c) ==
  /\ cl[c].pc = "open"
  /\ \E s \in Slot :
       /\ slot[s] = Free
       /\ slot' = [slot EXCEPT ![s] = [@ EXCEPT !.state = "requested", !.client = c]]
       /\ cl' = [cl EXCEPT ![c].pc = "await", ![c].slot = s]
  /\ UNCHANGED <<accept_slot, queue, handlers, mainVars>>

(* ... and returns once the slot has its queues.                           *)
ClientOpened(c) ==
  /\ cl[c].pc = "await"
  /\ slot[cl[c].slot].state = "ready"
  /\ Goto(c, CASE ~Test.echoes     -> "done"
               [] Test.opens_first -> "hold"
               [] OTHER            -> "send")
  /\ UNCHANGED <<tableVars, queue, handlers, mainVars>>

ClientSend(c) ==
  /\ cl[c].pc = "send"
  /\ cl[c].i < NUM_ITEMS
  /\ CanSend(c, select_queue_ctx.client_send)
  /\ SendTo(c, select_queue_ctx.client_send, cl[c].i)
  /\ Goto(c, "receive")
  /\ UNCHANGED <<tableVars, handlers, mainVars>>

ClientReceiveSkipped(c) ==
  /\ cl[c].pc = "receive"
  /\ cl' = [cl EXCEPT ![c].pc = "send", ![c].i = @ + 1]
  /\ UNCHANGED <<queue, tableVars, handlers, mainVars>>

(* The assertion that pop_buf equals buf ends the process when it fails.   *)
ClientReceive(c) ==
  LET q == select_queue_ctx.client_receive
  IN  /\ cl[c].pc = "receive"
      /\ CanReceive(c, q)
      /\ cl' = IF Head(queue[c][q]) = cl[c].i
                 THEN [cl EXCEPT ![c].pc = "send", ![c].i = @ + 1]
                 ELSE [cl EXCEPT ![c].pc = "aborted"]
      /\ ReceiveFrom(c, q)
      /\ UNCHANGED <<tableVars, handlers, mainVars>>

ClientDone(c) ==
  /\ cl[c].pc = "send"
  /\ cl[c].i = NUM_ITEMS
  /\ Goto(c, "done")
  /\ slot' = IF Test.closes THEN [slot EXCEPT ![cl[c].slot].state = "closing"]
             ELSE slot
  /\ UNCHANGED <<accept_slot, queue, handlers, mainVars>>

ClientStep(c) ==
  \/ ClientHold(c)
  \/ ClientRequest(c)
  \/ ClientOpened(c)
  \/ ClientSend(c)
  \/ ClientReceive(c)
  \/ ClientDone(c)

-----------------------------------------------------------------------------
(* manage_pool gives a requested slot empty queues and frees a closing one.*)

Serve(s) ==
  /\ slot[s].state = "requested"
  /\ slot' = [slot EXCEPT ![s].state = "ready"]
  /\ queue' = [queue EXCEPT ![slot[s].client] = Empty]
  /\ UNCHANGED <<accept_slot, cl, handlers, mainVars>>

Reclaim(s) ==
  /\ slot[s].state = "closing"
  /\ slot' = [slot EXCEPT ![s] = Free]
  /\ UNCHANGED <<accept_slot, queue, cl, handlers, mainVars>>

PoolStep == \E s \in Slot : Serve(s) \/ Reclaim(s)

-----------------------------------------------------------------------------
(* pthread_server_rtt: handler h echoes its connection's requests          *)

HandlerSet(h, pc) == handlers' = [handlers EXCEPT ![h].pc = pc]

HandlerHold(h) ==
  /\ handlers[h].pc = "hold"
  /\ run_flag
  /\ HandlerSet(h, IF NUM_ITEMS > 1 THEN "receive" ELSE "done")
  /\ UNCHANGED <<tableVars, queue, cl, mainVars>>

HandlerReceiveStale(h) ==
  LET c == handlers[h].client
      q == select_queue_ctx.server_receive
  IN  /\ handlers[h].pc = "receive"
      /\ CanReceive(c, q)
      /\ HandlerSet(h, "send")
      /\ ReceiveFrom(c, q)
      /\ UNCHANGED <<tableVars, cl, mainVars>>

HandlerReceive(h) ==
  LET c == handlers[h].client
      q == select_queue_ctx.server_receive
  IN  /\ handlers[h].pc = "receive"
      /\ CanReceive(c, q)
      /\ handlers' = [handlers EXCEPT ![h].pc = "send", ![h].buf = Head(queue[c][q])]
      /\ ReceiveFrom(c, q)
      /\ UNCHANGED <<tableVars, cl, mainVars>>

HandlerSend(h) ==
  LET c == handlers[h].client
      q == select_queue_ctx.server_send
  IN  /\ handlers[h].pc = "send"
      /\ CanSend(c, q)
      /\ SendTo(c, q, handlers[h].buf)
      /\ handlers' = [handlers EXCEPT
           ![h].i = @ + 1,
           ![h].pc = IF handlers[h].i + 1 < NUM_ITEMS THEN "receive" ELSE "done"]
      /\ UNCHANGED <<tableVars, cl, mainVars>>

HandlerStep(h) == HandlerHold(h) \/ HandlerReceive(h) \/ HandlerSend(h)

-----------------------------------------------------------------------------
(* The main thread                                                         *)

MainGoto(pc) == mn' = [mn EXCEPT !.pc = pc]

(* register_server, and one thread per client.                             *)
StartTest ==
  /\ mn.pc = "register"
  /\ ~Over
  /\ cl' = [c \in Client |->
              [Thread EXCEPT !.pc = IF Test.opens_first THEN "open" ELSE "hold"]]
  /\ MainGoto(IF Test.opens_first THEN "accept" ELSE "flag")
  /\ UNCHANGED <<tableVars, queue, handlers, client_list, test, run_flag>>

SetRunFlag ==
  /\ mn.pc = "flag"
  /\ run_flag' = TRUE
  /\ MainGoto(IF Test.opens_first THEN "join" ELSE "accept")
  /\ UNCHANGED <<tableVars, queue, cl, handlers, client_list, test>>

(* accept: one pass over the slots from accept_slot on.                    *)
AcceptCall ==
  /\ mn.pc = "accept"
  /\ mn' = [Main EXCEPT !.pc = "scan", !.slot = accept_slot]
  /\ UNCHANGED <<tableVars, queue, cl, handlers, client_list, test, run_flag>>

AcceptTakeStays ==
  /\ mn.pc = "scan"
  /\ mn.n < SLOT_NUM
  /\ slot[mn.slot].state = "ready"
  /\ accept_slot' = mn.slot
  /\ MainGoto("shms")
  /\ UNCHANGED <<slot, queue, cl, handlers, client_list, test, run_flag>>

AcceptTakeNoWrap ==
  /\ mn.pc = "scan"
  /\ mn.n < SLOT_NUM
  /\ slot[mn.slot].state = "ready"
  /\ accept_slot' = mn.slot + 1
  /\ MainGoto("shms")
  /\ UNCHANGED <<slot, queue, cl, handlers, client_list, test, run_flag>>

(* It takes a slot with queues, also one it has accepted before.           *)
AcceptTake ==
  /\ mn.pc = "scan"
  /\ mn.n < SLOT_NUM
  /\ slot[mn.slot].state = "ready"
  /\ accept_slot' = (mn.slot + 1) % SLOT_NUM
  /\ MainGoto("shms")
  /\ UNCHANGED <<slot, queue, cl, handlers, client_list, test, run_flag>>

AcceptSkip ==
  /\ mn.pc = "scan"
  /\ mn.n < SLOT_NUM
  /\ slot[mn.slot].state # "ready"
  /\ mn' = [mn EXCEPT !.slot = (@ + 1) % SLOT_NUM, !.n = @ + 1]
  /\ UNCHANGED <<tableVars, queue, cl, handlers, client_list, test, run_flag>>

(* accept returned NULL: main calls it again.                              *)
AcceptNone ==
  /\ mn.pc = "scan"
  /\ mn.n = SLOT_NUM
  /\ MainGoto("accept")
  /\ UNCHANGED <<tableVars, queue, cl, handlers, client_list, test, run_flag>>

(* shm_created: manage_pool has made the queues and not taken them back.   *)
Created(s) == slot[s].state \in {"ready", "closing"}

(* check_slot and get_client_id: the row's client, seen through the queues *)
(* made for it and as its id; NoClient stands for zero.                    *)
InRow(s) == IF Created(s) THEN slot[s].client ELSE NoClient

AcceptShms ==
  /\ mn.pc = "shms"
  /\ mn' = [mn EXCEPT !.queues = InRow(mn.slot), !.pc = "id"]
  /\ UNCHANGED <<tableVars, queue, cl, handlers, client_list, test, run_flag>>

AcceptId ==
  /\ mn.pc = "id"
  /\ mn' = [mn EXCEPT !.id = InRow(mn.slot),
                      !.pc = IF mn.queues = NoClient THEN "again" ELSE "state"]
  /\ UNCHANGED <<tableVars, queue, cl, handlers, client_list, test, run_flag>>

AcceptAgain ==
  /\ mn.pc = "again"
  /\ Created(mn.slot)
  /\ mn' = [mn EXCEPT !.queues = InRow(mn.slot), !.pc = "state"]
  /\ UNCHANGED <<tableVars, queue, cl, handlers, client_list, test, run_flag>>

AcceptStateIgnored ==
  /\ mn.pc = "state"
  /\ MainGoto("attach")
  /\ UNCHANGED <<tableVars, queue, cl, handlers, client_list, test, run_flag>>

(* A context for a slot the server is attached to carries no queues, and   *)
(* main drops it whatever its search says.                                 *)
AcceptState ==
  /\ mn.pc = "state"
  /\ MainGoto(IF Created(mn.slot) /\ slot[mn.slot].server_attached
                THEN "accept" ELSE "attach")
  /\ UNCHANGED <<tableVars, queue, cl, handlers, client_list, test, run_flag>>

(* The binary search of the unsorted client_list may miss an id that is in *)
(* it.  The entries not written yet hold what was on the stack: zeros or   *)
(* the ids of an earlier test, never an id of this one.                    *)
BsearchFound(id) ==
  IF id = NoClient \/ \E k \in DOMAIN client_list : client_list[k] = id
    THEN BOOLEAN ELSE {FALSE}

(* Main counts a context whose id it does not find, and starts its handler.*)
CountContext ==
  /\ client_list' = Append(client_list, mn.id)
  /\ handlers' = IF ~Test.echoes THEN handlers
                 ELSE Append(handlers, [client |-> mn.queues, pc |-> "hold",
                                        i |-> 1, buf |-> 0])
  /\ MainGoto(IF Len(client_list) + 1 < MAX_CLIENTS THEN "accept"
              ELSE IF Test.opens_first THEN "flag" ELSE "join")

AcceptAttach ==
  /\ mn.pc = "attach"
  /\ slot' = [slot EXCEPT ![mn.slot].server_attached = @ \/ Created(mn.slot)]
  /\ \E found \in BsearchFound(mn.id) :
       IF found THEN MainGoto("accept") /\ UNCHANGED <<client_list, handlers>>
       ELSE CountContext
  /\ UNCHANGED <<accept_slot, queue, cl, test, run_flag>>

AcceptStep ==
  \/ AcceptCall
  \/ AcceptTake
  \/ AcceptSkip
  \/ AcceptNone
  \/ AcceptShms
  \/ AcceptId
  \/ AcceptAgain
  \/ AcceptState
  \/ AcceptAttach

JoinThreads ==
  /\ mn.pc = "join"
  /\ \A h \in DOMAIN handlers : handlers[h].pc = "done"
  /\ \A c \in Client : cl[c].pc = "done"
  /\ MainGoto("shutdown")
  /\ UNCHANGED <<tableVars, queue, cl, handlers, client_list, test, run_flag>>

(* shutdown, and run_flag is taken back for the next test.                 *)
EndTest ==
  /\ mn.pc = "shutdown"
  /\ slot' = [s \in Slot |-> Free]
  /\ accept_slot' = 0
  /\ queue' = [c \in Client |-> Empty]
  /\ run_flag' = FALSE
  /\ handlers' = << >> /\ client_list' = << >>
  /\ cl' = [c \in Client |-> Thread]
  /\ mn' = Main
  /\ test' = test + 1

MainStep ==
  \/ StartTest
  \/ SetRunFlag
  \/ AcceptStep
  \/ JoinThreads
  \/ EndTest

Next ==
  \/ MainStep
  \/ PoolStep
  \/ \E c \in Client : ClientStep(c)
  \/ \E h \in DOMAIN handlers : HandlerStep(h)

Spec == Init /\ [][Next]_vars

(* Every thread of the benchmark keeps running.                            *)
Fairness ==
  /\ WF_vars(MainStep) /\ WF_vars(PoolStep)
  /\ \A c \in Client : WF_vars(ClientStep(c))
  /\ \A h \in 1..MAX_CLIENTS : WF_vars(h \in DOMAIN handlers /\ HandlerStep(h))

FairSpec == Spec /\ Fairness

-----------------------------------------------------------------------------
(* Types of the table, the queues and the threads.                         *)
TypeOK ==
  /\ test \in 0..Len(bench_run_all)
  /\ run_flag \in BOOLEAN
  /\ slot \in [Slot -> [state : {"free", "requested", "ready", "closing"},
                        client : Client \cup {NoClient}, server_attached : BOOLEAN]]
  /\ queue \in [Client -> [request : Seq(1..NUM_ITEMS), response : Seq(0..NUM_ITEMS)]]
  /\ cl \in [Client -> [pc : {"none", "hold", "open", "await", "send", "receive",
                              "done", "aborted"},
                        slot : Slot, i : 1..NUM_ITEMS]]
  /\ handlers \in Seq([client : Client, pc : {"hold", "receive", "send", "done"},
                       i : 1..NUM_ITEMS, buf : 0..NUM_ITEMS])
  /\ mn \in [pc : {"register", "flag", "accept", "scan", "shms", "id", "again",
                   "state", "attach", "join", "shutdown"},
             slot : Slot, n : 0..SLOT_NUM,
             queues : Client \cup {NoClient}, id : Client \cup {NoClient}]
  /\ accept_slot \in Slot
  /\ client_list \in Seq(Client \cup {NoClient}) /\ Len(client_list) <= MAX_CLIENTS

(***************************************************************************)
(* Each queue has one producer and one consumer, which is all the library's*)
(* queues are made for: although accept returns a slot again and again and *)
(* the search of client_list is unreliable, no connection gets a second    *)
(* handler as long as its client stays.                                    *)
(***************************************************************************)
OneHandlerEach ==
  ~Over /\ ~Test.closes =>
    \A g, h \in DOMAIN handlers : handlers[g].client = handlers[h].client => g = h

(***************************************************************************)
(* A connection has one message in flight, in a queue or in the handler's  *)
(* hands, exactly while its client waits for the answer.  So no queue is   *)
(* ever full in the echo loops, even if it holds a single message.         *)
(***************************************************************************)
OneInFlight ==
  \A c \in Client :
    Len(queue[c].request) + Len(queue[c].response)
      + Cardinality({h \in DOMAIN handlers :
                       handlers[h].client = c /\ handlers[h].pc = "send"})
    = IF cl[c].pc = "receive" THEN 1 ELSE 0

(* Every answer is the answer to the request just sent: the assertion in   *)
(* the client loops never fails.                                           *)
EchoMatches == \A c \in Client : cl[c].pc # "aborted"

(***************************************************************************)
(* A test whose clients stay connected comes to its end: everybody gets a  *)
(* slot, is accepted, makes all round trips and is joined.                 *)
(***************************************************************************)
StayingTestsEnd ==
  \A t \in DOMAIN bench_run_all :
    ~bench_run_all[t].closes => ((test = t - 1) ~> (test = t))
=============================================================================
