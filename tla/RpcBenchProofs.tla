--------------------------- MODULE RpcBenchProofs ---------------------------
(***************************************************************************)
(* Proofs about RpcBench, for every set of clients, number of slots, round *)
(* trips and capacity of the queues.                                       *)
(***************************************************************************)
EXTENDS Benchmarks, SequenceTheorems, FiniteSetTheorems, TLAPS

Pair == [request : Seq(1..NUM_ITEMS), response : Seq(0..NUM_ITEMS)]
Row == [state : {"free", "requested", "ready", "closing"},
        client : Client \cup {NoClient}, server_attached : BOOLEAN]
ClientThread == [pc : {"none", "hold", "open", "await", "send", "receive", "done", "aborted"},
                 slot : Slot, i : 1..NUM_ITEMS]
MainThread == [pc : {"register", "flag", "accept", "scan", "shms", "id", "again",
                     "state", "attach", "join", "shutdown"},
               slot : Slot, n : 0..SLOT_NUM,
               queues : Client \cup {NoClient}, id : Client \cup {NoClient}]
Handler == [client : Client, pc : {"hold", "receive", "send", "done"},
            i : 1..NUM_ITEMS, buf : 0..NUM_ITEMS]

(* There is a client, and a slot.                                          *)
LEMMA Sizes ==
  /\ MAX_CLIENTS \in Nat /\ MAX_CLIENTS >= 1
  /\ SLOT_NUM \in Nat /\ SLOT_NUM >= 1 /\ 0 \in Slot
  /\ NUM_ITEMS \in Nat /\ NUM_ITEMS >= 1
  /\ Capacity \in Nat /\ Capacity >= 1
<1>1. MAX_CLIENTS \in Nat
  BY BenchAssumption, FS_CardinalityType DEF MAX_CLIENTS
<1>2. MAX_CLIENTS # 0
  BY BenchAssumption, FS_EmptySet DEF MAX_CLIENTS
<1>3. MAX_CLIENTS >= 1
  BY <1>1, <1>2
<1> QED
  BY <1>1, <1>3, BenchAssumption DEF Slot

(* The scan of accept stays in the table.                                  *)
LEMMA NextSlot ==
  ASSUME NEW s \in Slot
  PROVE  (s + 1) % SLOT_NUM \in Slot
BY Sizes DEF Slot

(* The tests are four, and what they do is one way or the other.           *)
LEMMA Tests ==
  /\ Len(bench_run_all) = 4
  /\ \A t \in 0..3 : bench_run_all[t + 1] \in
       [opens_first : BOOLEAN, echoes : BOOLEAN, closes : BOOLEAN]
BY DEF bench_run_all, connection_stress_test, rtt_steady_state_conn_test,
  rtt_during_connection_test, rtt_connect_disconnect_connection_test

(* What a send and a receive do to a connection's two queues.              *)
LEMMA SendEffect ==
  ASSUME TypeOK, NEW c \in Client, NEW q \in {"request", "response"},
         NEW m \in 1..NUM_ITEMS, SendTo(c, q, m)
  PROVE  /\ queue' \in [Client -> Pair]
         /\ \A d \in Client \ {c} : queue'[d] = queue[d]
         /\ q = "request" => /\ queue'[c].request = Append(queue[c].request, m)
                             /\ queue'[c].response = queue[c].response
         /\ q = "response" => /\ queue'[c].response = Append(queue[c].response, m)
                              /\ queue'[c].request = queue[c].request
<1> DEFINE v == Append(queue[c][q], m)
<1>1. queue \in [Client -> Pair] /\ queue' = [queue EXCEPT ![c][q] = v]
  BY DEF TypeOK, SendTo, Pair
<1>2. CASE q = "request"
  <2>1. v = Append(queue[c].request, m) /\ v \in Seq(1..NUM_ITEMS)
    BY <1>1, <1>2, AppendProperties DEF Pair
  <2> HIDE DEF v
  <2> QED
    BY <1>1, <1>2, <2>1 DEF Pair
<1>3. CASE q = "response"
  <2>1. v = Append(queue[c].response, m) /\ v \in Seq(0..NUM_ITEMS)
    <3>1. m \in 0..NUM_ITEMS /\ queue[c].response \in Seq(0..NUM_ITEMS)
      BY <1>1, Sizes DEF Pair
    <3> QED
      BY <1>1, <1>3, <3>1, AppendProperties
  <2> HIDE DEF v
  <2> QED
    BY <1>1, <1>3, <2>1 DEF Pair
<1> QED
  BY <1>2, <1>3

LEMMA ReceiveEffect ==
  ASSUME TypeOK, NEW c \in Client, NEW q \in {"request", "response"},
         CanReceive(c, q), ReceiveFrom(c, q)
  PROVE  /\ queue' \in [Client -> Pair]
         /\ \A d \in Client \ {c} : queue'[d] = queue[d]
         /\ q = "request" => /\ queue[c].request # << >>
                             /\ queue'[c].request = Tail(queue[c].request)
                             /\ queue'[c].response = queue[c].response
         /\ q = "response" => /\ queue[c].response # << >>
                              /\ queue'[c].response = Tail(queue[c].response)
                              /\ queue'[c].request = queue[c].request
<1> DEFINE v == Tail(queue[c][q])
<1>1. queue \in [Client -> Pair] /\ queue' = [queue EXCEPT ![c][q] = v]
  BY DEF TypeOK, ReceiveFrom, Pair
<1>2. CASE q = "request"
  <2>1. queue[c].request # << >> /\ queue[c].request \in Seq(1..NUM_ITEMS)
    BY <1>1, <1>2 DEF CanReceive, Pair
  <2>2. v = Tail(queue[c].request) /\ v \in Seq(1..NUM_ITEMS)
    BY <1>1, <1>2, <2>1, HeadTailProperties DEF Pair
  <2> HIDE DEF v
  <2> QED
    BY <1>1, <1>2, <2>1, <2>2 DEF Pair
<1>3. CASE q = "response"
  <2>1. queue[c].response # << >> /\ queue[c].response \in Seq(0..NUM_ITEMS)
    BY <1>1, <1>3 DEF CanReceive, Pair
  <2>2. v = Tail(queue[c].response) /\ v \in Seq(0..NUM_ITEMS)
    BY <1>1, <1>3, <2>1, HeadTailProperties DEF Pair
  <2> HIDE DEF v
  <2> QED
    BY <1>1, <1>3, <2>1, <2>2 DEF Pair
<1> QED
  BY <1>2, <1>3

LEMMA TestType ==
  ASSUME TypeOK, ~Over
  PROVE  /\ test \in 0..3
         /\ Test.opens_first \in BOOLEAN /\ Test.echoes \in BOOLEAN
         /\ Test.closes \in BOOLEAN
<1>1. test \in 0..3
  BY Tests DEF TypeOK, Over
<1> QED
  BY <1>1, Tests DEF Test

-----------------------------------------------------------------------------
(***************************************************************************)
(* The inductive invariant.                                                *)
(***************************************************************************)
Accepting == mn.pc \in {"accept", "scan", "shms", "id", "again", "state", "attach"}

(* Nothing of a test is there before it starts; main accepts until it has  *)
(* counted MAX_CLIENTS contexts; a thread inside its loop has items left.  *)
Phases ==
  /\ mn.pc # "register" => ~Over
  /\ mn.pc = "register" =>
       /\ \A s \in Slot : slot[s] = Free
       /\ \A c \in Client : cl[c].pc = "none"
       /\ Len(handlers) = 0
  /\ Accepting \/ mn.pc = "register" \/ (mn.pc = "flag" /\ ~Test.opens_first) =>
       Len(client_list) < MAX_CLIENTS
  /\ mn.pc \in {"state", "attach"} => mn.queues \in Client
  /\ \A c \in Client : cl[c].pc = "receive" => cl[c].i < NUM_ITEMS
  /\ \A h \in DOMAIN handlers :
       /\ handlers[h].pc = "hold" => handlers[h].i = 1
       /\ handlers[h].pc \in {"receive", "send"} => handlers[h].i < NUM_ITEMS

(* A slot that is not free is a client's, and that client waits for it     *)
(* until it has its queues.                                                *)
Owned ==
  \A s \in Slot :
    IF slot[s].state = "free" THEN slot[s] = Free
    ELSE /\ slot[s].client \in Client
         /\ slot[s].state = "requested" =>
              cl[slot[s].client].pc = "await" /\ cl[slot[s].client].slot = s

(* A client has the slot it was given, with queues once it was told so.    *)
Attached(c) ==
  \/ cl[c].pc \in {"send", "receive"}
  \/ cl[c].pc = "hold" /\ Test.opens_first

Connected ==
  \A c \in Client :
    /\ Attached(c) \/ cl[c].pc = "await" =>
         slot[cl[c].slot].client = c /\ slot[cl[c].slot].state \in {"requested", "ready"}
    /\ Attached(c) => slot[cl[c].slot].state = "ready"

(* Where the one message of a connection is: on its way to the handler, in *)
(* a handler's hands, or on its way back.                                  *)
InHand(c, h) == handlers[h].client = c /\ handlers[h].pc = "send"
NoneInHand(c) == \A h \in DOMAIN handlers : ~InHand(c, h)
OneItem(s, i) == Len(s) = 1 /\ s[1] = i

Asked(c) ==
  OneItem(queue[c].request, cl[c].i) /\ Len(queue[c].response) = 0 /\ NoneInHand(c)
Answered(c) ==
  Len(queue[c].request) = 0 /\ OneItem(queue[c].response, cl[c].i) /\ NoneInHand(c)
Working(c) ==
  /\ Len(queue[c].request) = 0 /\ Len(queue[c].response) = 0
  /\ \E h \in DOMAIN handlers :
       /\ InHand(c, h) /\ handlers[h].buf = cl[c].i
       /\ \A g \in DOMAIN handlers : InHand(c, g) => g = h
Quiet(c) ==
  Len(queue[c].request) = 0 /\ Len(queue[c].response) = 0 /\ NoneInHand(c)

Flight ==
  \A c \in Client : IF cl[c].pc = "receive" THEN Asked(c) \/ Working(c) \/ Answered(c)
                    ELSE Quiet(c)

BenchInv == TypeOK /\ Phases /\ Owned /\ Connected /\ Flight /\ EchoMatches

(* While clients stay: a client has at most one slot, the slot accept has  *)
(* taken stays as it is, and every handler's slot carries server_attached. *)
Staying == mn.pc # "register" /\ ~Test.closes

ReadySlot(s, c) == slot[s].state = "ready" /\ slot[s].client = c

OneSlotEach ==
  /\ \A s \in Slot : slot[s].state # "closing"
  /\ \A s, t \in Slot :
       slot[s].state # "free" /\ slot[s].client = slot[t].client => s = t
  /\ \A s \in Slot : slot[s].state # "free" =>
       cl[slot[s].client].pc \notin {"none", "open"}
  /\ ~Test.opens_first =>
       \A s \in Slot : slot[s].state # "free" => cl[slot[s].client].pc # "hold"

AcceptedSlot ==
  /\ mn.pc \in {"shms", "id", "again", "state", "attach"} => slot[mn.slot].state = "ready"
  /\ mn.pc \in {"id", "again", "state", "attach"} => mn.queues = slot[mn.slot].client
  /\ mn.pc = "attach" => ~slot[mn.slot].server_attached

HandlerSlots ==
  \A h \in DOMAIN handlers :
    \E s \in Slot : ReadySlot(s, handlers[h].client) /\ slot[s].server_attached

StayInv == Staying => OneSlotEach /\ AcceptedSlot /\ HandlerSlots /\ OneHandlerEach

(* Clients' steps                                                          *)

(* A client that neither waits for an answer nor starts to only moves on.  *)
LEMMA GotoInv ==
  ASSUME BenchInv, NEW c \in Client, NEW p \in {"send", "open", "hold", "done"},
         Goto(c, p),
         cl[c].pc \in {"hold", "await", "send"},
         cl[c].pc = "await" => slot[cl[c].slot].state = "ready",
         p = "send" \/ (p = "hold" /\ Test.opens_first) =>
           cl[c].pc = "await" \/ Attached(c),
         UNCHANGED <<tableVars, queue, handlers, mainVars>>
  PROVE  BenchInv'
<1> USE DEF BenchInv, tableVars, mainVars
<1>1. /\ cl' \in [Client -> ClientThread]
      /\ cl'[c].pc = p /\ cl'[c].slot = cl[c].slot /\ cl'[c].i = cl[c].i
      /\ \A d \in Client \ {c} : cl'[d] = cl[d]
  BY DEF TypeOK, Goto, ClientThread
<1>2. TypeOK'
  BY <1>1 DEF TypeOK, ClientThread
<1>3. Phases'
  BY <1>1 DEF Phases, Accepting, Over, Test
<1>4. Owned'
  BY <1>1 DEF Owned
<1>5. Connected'
  BY <1>1 DEF Connected, Attached, Test
<1>6. Flight'
  BY <1>1 DEF Flight, Quiet, Asked, Answered, Working, NoneInHand, InHand
<1>7. EchoMatches'
  BY <1>1 DEF EchoMatches
<1> QED
  BY <1>2, <1>3, <1>4, <1>5, <1>6, <1>7

(* A client that runs belongs to a test.                                   *)
LEMMA TestRuns ==
  ASSUME BenchInv, NEW c \in Client, cl[c].pc # "none"
  PROVE  /\ mn.pc # "register" /\ ~Over
         /\ Test.opens_first \in BOOLEAN /\ Test.echoes \in BOOLEAN
         /\ Test.closes \in BOOLEAN
<1>1. mn.pc # "register" /\ ~Over
  BY DEF BenchInv, Phases
<1> QED
  BY <1>1, TestType DEF BenchInv

LEMMA ClientHoldInv ==
  ASSUME BenchInv, NEW c \in Client, ClientHold(c)
  PROVE  BenchInv'
<1>1. cl[c].pc = "hold"
  BY DEF ClientHold
<1>2. Test.opens_first \in BOOLEAN
  BY <1>1, TestRuns
<1>3. Test.opens_first => Attached(c)
  BY <1>1 DEF Attached
<1> QED
  BY <1>1, <1>2, <1>3, GotoInv DEF ClientHold

LEMMA ClientOpenedInv ==
  ASSUME BenchInv, NEW c \in Client, ClientOpened(c)
  PROVE  BenchInv'
<1>1. cl[c].pc = "await" /\ slot[cl[c].slot].state = "ready"
  BY DEF ClientOpened
<1>2. Test.opens_first \in BOOLEAN /\ Test.echoes \in BOOLEAN
  BY <1>1, TestRuns
<1> DEFINE p == CASE ~Test.echoes     -> "done"
                  [] Test.opens_first -> "hold"
                  [] OTHER            -> "send"
<1>3. p \in {"done", "hold", "send"} /\ Goto(c, p)
  BY <1>2 DEF ClientOpened
<1>4. UNCHANGED <<tableVars, queue, handlers, mainVars>>
  BY DEF ClientOpened
<1> HIDE DEF p
<1> QED
  BY <1>1, <1>3, <1>4, GotoInv

(* A client that takes a slot takes a free one.                            *)
LEMMA ClientRequestInv ==
  ASSUME BenchInv, NEW c \in Client, ClientRequest(c)
  PROVE  BenchInv'
<1> USE DEF BenchInv
<1>1. PICK s \in Slot :
        /\ slot[s] = Free
        /\ slot' = [slot EXCEPT ![s] = [@ EXCEPT !.state = "requested", !.client = c]]
        /\ cl' = [cl EXCEPT ![c].pc = "await", ![c].slot = s]
  BY DEF ClientRequest
<1>2. /\ cl[c].pc = "open"
      /\ UNCHANGED <<accept_slot, queue, handlers, mn, client_list, test, run_flag>>
  BY DEF ClientRequest, mainVars
<1>3. /\ slot'[s].state = "requested" /\ slot'[s].client = c
      /\ ~slot'[s].server_attached
      /\ \A t \in Slot \ {s} : slot'[t] = slot[t]
      /\ slot' \in [Slot -> Row]
  <2> DEFINE r == [slot[s] EXCEPT !.state = "requested", !.client = c]
  <2>1. slot \in [Slot -> Row] /\ slot[s] \in Row /\ ~slot[s].server_attached
    BY <1>1 DEF Row, TypeOK, Free
  <2>2. slot' = [slot EXCEPT ![s] = r]
    BY <1>1
  <2>3. r \in Row /\ r.state = "requested" /\ r.client = c /\ ~r.server_attached
    BY <2>1 DEF Row
  <2> HIDE DEF r
  <2> QED
    BY <2>1, <2>2, <2>3
<1>4. /\ cl' \in [Client -> ClientThread]
      /\ cl'[c].pc = "await" /\ cl'[c].slot = s /\ cl'[c].i = cl[c].i
      /\ \A d \in Client \ {c} : cl'[d] = cl[d]
  BY <1>1 DEF TypeOK, ClientThread
<1>5. TypeOK'
  BY <1>2, <1>3, <1>4 DEF TypeOK, ClientThread, Row
<1>6. Phases'
  BY <1>2, <1>4 DEF Phases, Accepting, Over, Test
<1>7. Owned'
  BY <1>2, <1>3, <1>4 DEF Owned
<1>8. Connected'
  <2> SUFFICES ASSUME NEW d \in Client
               PROVE  (/\ Attached(d) \/ cl[d].pc = "await" =>
                            /\ slot[cl[d].slot].client = d
                            /\ slot[cl[d].slot].state \in {"requested", "ready"}
                       /\ Attached(d) => slot[cl[d].slot].state = "ready")'
    BY DEF Connected
  <2>1. CASE d = c
    BY <2>1, <1>3, <1>4 DEF Attached
  <2>2. CASE d # c
    <3>1. cl'[d] = cl[d] /\ cl[d].slot \in Slot /\ (Attached(d)' <=> Attached(d))
      BY <2>2, <1>2, <1>4 DEF Attached, Test, TypeOK
    <3>2. Attached(d) \/ cl[d].pc = "await" => cl[d].slot # s
      BY <1>1, BenchAssumption DEF Connected, Free
    <3> QED
      BY <3>1, <3>2, <1>3 DEF Connected
  <2> QED
    BY <2>1, <2>2
<1>9. Flight'
  BY <1>2, <1>4 DEF Flight, Quiet, Asked, Answered, Working, NoneInHand, InHand
<1>10. EchoMatches'
  BY <1>4 DEF EchoMatches
<1> QED
  BY <1>5, <1>6, <1>7, <1>8, <1>9, <1>10

LEMMA ClientSendInv ==
  ASSUME BenchInv, NEW c \in Client, ClientSend(c)
  PROVE  BenchInv'
<1> USE DEF BenchInv
<1>1. /\ cl[c].pc = "send" /\ cl[c].i < NUM_ITEMS
      /\ SendTo(c, "request", cl[c].i) /\ Goto(c, "receive")
      /\ UNCHANGED <<slot, accept_slot, handlers, mn, client_list, test, run_flag>>
  BY DEF ClientSend, select_queue_ctx, tableVars, mainVars
<1>2. cl[c].i \in 1..NUM_ITEMS /\ queue[c].request \in Seq(1..NUM_ITEMS)
  BY DEF TypeOK
<1>3. /\ queue' \in [Client -> Pair]
      /\ \A d \in Client \ {c} : queue'[d] = queue[d]
      /\ queue'[c].request = Append(queue[c].request, cl[c].i)
      /\ queue'[c].response = queue[c].response
  BY <1>1, <1>2, SendEffect
<1>4. Quiet(c)
  BY <1>1 DEF Flight
<1>5. OneItem(queue'[c].request, cl[c].i)
  BY <1>2, <1>3, <1>4, AppendProperties DEF Quiet, OneItem
<1>6. /\ cl' \in [Client -> ClientThread]
      /\ cl'[c].pc = "receive" /\ cl'[c].slot = cl[c].slot /\ cl'[c].i = cl[c].i
      /\ \A d \in Client \ {c} : cl'[d] = cl[d]
  BY <1>1 DEF TypeOK, Goto, ClientThread
<1>7. TypeOK'
  BY <1>1, <1>3, <1>6 DEF TypeOK, Pair, ClientThread
<1>8. Phases'
  BY <1>1, <1>6 DEF Phases, Accepting, Over, Test
<1>9. Owned'
  BY <1>1, <1>6 DEF Owned
<1>10. Connected'
  BY <1>1, <1>6 DEF Connected, Attached, Test
<1>11. Flight'
  <2> SUFFICES ASSUME NEW d \in Client
               PROVE  (IF cl[d].pc = "receive" THEN Asked(d) \/ Working(d) \/ Answered(d)
                       ELSE Quiet(d))'
    BY DEF Flight
  <2>1. CASE d = c
    BY <2>1, <1>1, <1>3, <1>4, <1>5, <1>6 DEF Asked, Quiet, NoneInHand, InHand
  <2>2. CASE d # c
    BY <2>2, <1>1, <1>3, <1>6
    DEF Flight, Quiet, Asked, Answered, Working, NoneInHand, InHand
  <2> QED
    BY <2>1, <2>2
<1>12. EchoMatches'
  BY <1>6 DEF EchoMatches
<1> QED
  BY <1>7, <1>8, <1>9, <1>10, <1>11, <1>12

(* The answer a client gets is the one to its request.                     *)
LEMMA ClientReceiveInv ==
  ASSUME BenchInv, NEW c \in Client, ClientReceive(c)
  PROVE  BenchInv'
<1> USE DEF BenchInv
<1>1. /\ cl[c].pc = "receive"
      /\ CanReceive(c, "response") /\ ReceiveFrom(c, "response")
      /\ UNCHANGED <<slot, accept_slot, handlers, mn, client_list, test, run_flag>>
  BY DEF ClientReceive, select_queue_ctx, tableVars, mainVars
<1>2. /\ queue' \in [Client -> Pair]
      /\ \A d \in Client \ {c} : queue'[d] = queue[d]
      /\ queue[c].response # << >>
      /\ queue'[c].response = Tail(queue[c].response)
      /\ queue'[c].request = queue[c].request
  BY <1>1, ReceiveEffect
<1>3. /\ queue[c].response \in Seq(0..NUM_ITEMS) /\ Len(queue[c].response) # 0
      /\ Head(queue[c].response) = queue[c].response[1]
      /\ Len(queue'[c].response) = Len(queue[c].response) - 1
  BY <1>2, EmptySeq, HeadTailProperties DEF TypeOK
<1>4. Answered(c) /\ cl[c].i \in 1..NUM_ITEMS /\ cl[c].i < NUM_ITEMS
  BY <1>1, <1>3 DEF Flight, Asked, Working, Phases, TypeOK
<1>5. cl' = [cl EXCEPT ![c].pc = "send", ![c].i = @ + 1]
  <2>1. Head(queue[c]["response"]) = cl[c].i
    BY <1>3, <1>4 DEF Answered, OneItem, TypeOK
  <2> QED
    BY <2>1 DEF ClientReceive, select_queue_ctx
<1>6. /\ cl' \in [Client -> ClientThread]
      /\ cl'[c].pc = "send" /\ cl'[c].slot = cl[c].slot
      /\ \A d \in Client \ {c} : cl'[d] = cl[d]
  <2> DEFINE r == [cl[c] EXCEPT !.pc = "send", !.i = @ + 1]
  <2>1. r \in ClientThread /\ cl \in [Client -> ClientThread]
    <3>1. cl \in [Client -> ClientThread] /\ cl[c] \in ClientThread
      BY DEF TypeOK, ClientThread
    <3>2. cl[c].i + 1 \in 1..NUM_ITEMS
      BY <1>4, Sizes
    <3> QED
      BY <3>1, <3>2 DEF ClientThread
  <2>2. r.pc = "send" /\ r.slot = cl[c].slot
    BY <2>1 DEF ClientThread
  <2>3. cl' = [cl EXCEPT ![c] = r]
    BY <1>5, <2>1
  <2> HIDE DEF r
  <2> QED
    BY <2>1, <2>2, <2>3
<1>7. TypeOK'
  BY <1>1, <1>2, <1>6 DEF TypeOK, Pair, ClientThread
<1>8. Phases'
  BY <1>1, <1>6 DEF Phases, Accepting, Over, Test
<1>9. Owned'
  BY <1>1, <1>6 DEF Owned
<1>10. Connected'
  BY <1>1, <1>6 DEF Connected, Attached, Test
<1>11. Flight'
  <2> SUFFICES ASSUME NEW d \in Client
               PROVE  (IF cl[d].pc = "receive" THEN Asked(d) \/ Working(d) \/ Answered(d)
                       ELSE Quiet(d))'
    BY DEF Flight
  <2>1. CASE d = c
    BY <2>1, <1>1, <1>2, <1>3, <1>4, <1>6 DEF Answered, OneItem, Quiet, NoneInHand, InHand
  <2>2. CASE d # c
    BY <2>2, <1>1, <1>2, <1>6
    DEF Flight, Quiet, Asked, Answered, Working, NoneInHand, InHand
  <2> QED
    BY <2>1, <2>2
<1>12. EchoMatches'
  BY <1>6 DEF EchoMatches
<1> QED
  BY <1>7, <1>8, <1>9, <1>10, <1>11, <1>12

(* A client that closes marks its own slot.                                *)
LEMMA ClientDoneInv ==
  ASSUME BenchInv, NEW c \in Client, ClientDone(c)
  PROVE  BenchInv'
<1> USE DEF BenchInv
<1>1. /\ cl[c].pc = "send" /\ Goto(c, "done")
      /\ UNCHANGED <<accept_slot, queue, handlers, mn, client_list, test, run_flag>>
  BY DEF ClientDone, mainVars
<1>2. CASE slot' = slot
  BY <1>1, <1>2, GotoInv DEF tableVars, mainVars
<1>3. CASE slot' = [slot EXCEPT ![cl[c].slot].state = "closing"]
  <2> DEFINE s == cl[c].slot
  <2>1. s \in Slot /\ slot[s].client = c /\ slot[s].state = "ready"
    BY <1>1 DEF Connected, Attached, TypeOK
  <2>2. /\ slot'[s].state = "closing" /\ slot'[s].client = c
        /\ \A t \in Slot \ {s} : slot'[t] = slot[t]
        /\ slot' \in [Slot -> Row]
    <3> DEFINE r == [slot[s] EXCEPT !.state = "closing"]
    <3>1. slot \in [Slot -> Row] /\ slot' = [slot EXCEPT ![s] = r]
      BY <1>3, <2>1 DEF TypeOK, Row
    <3>2. r \in Row /\ r.state = "closing" /\ r.client = c
      BY <2>1, <3>1 DEF Row
    <3> HIDE DEF r
    <3> QED
      BY <2>1, <3>1, <3>2
  <2>3. /\ cl' \in [Client -> ClientThread]
        /\ cl'[c].pc = "done" /\ cl'[c].slot = s /\ cl'[c].i = cl[c].i
        /\ \A d \in Client \ {c} : cl'[d] = cl[d]
    BY <1>1 DEF TypeOK, Goto, ClientThread
  <2> HIDE DEF s
  <2>4. TypeOK'
    BY <1>1, <2>2, <2>3 DEF TypeOK, ClientThread, Row
  <2>5. Phases'
    BY <1>1, <2>3 DEF Phases, Accepting, Over, Test
  <2>6. Owned'
    BY <1>1, <2>1, <2>2, <2>3 DEF Owned
  <2>7. Connected'
    <3> SUFFICES ASSUME NEW d \in Client
                 PROVE  (/\ Attached(d) \/ cl[d].pc = "await" =>
                              /\ slot[cl[d].slot].client = d
                              /\ slot[cl[d].slot].state \in {"requested", "ready"}
                         /\ Attached(d) => slot[cl[d].slot].state = "ready")'
      BY DEF Connected
    <3>1. CASE d = c
      BY <3>1, <2>3 DEF Attached
    <3>2. CASE d # c
      <4>1. cl'[d] = cl[d] /\ cl[d].slot \in Slot /\ (Attached(d)' <=> Attached(d))
        BY <3>2, <1>1, <2>3 DEF Attached, Test, TypeOK
      <4>2. Attached(d) \/ cl[d].pc = "await" => cl[d].slot # s
        BY <3>2, <2>1 DEF Connected
      <4> QED
        BY <4>1, <4>2, <2>2 DEF Connected
    <3> QED
      BY <3>1, <3>2
  <2>8. Flight'
    BY <1>1, <2>3 DEF Flight, Quiet, Asked, Answered, Working, NoneInHand, InHand
  <2>9. EchoMatches'
    BY <2>3 DEF EchoMatches
  <2> QED
    BY <2>4, <2>5, <2>6, <2>7, <2>8, <2>9
<1> QED
  BY <1>2, <1>3 DEF ClientDone

-----------------------------------------------------------------------------
(* manage_pool's steps                                                     *)

(* The queues a slot is given are empty, and so were the ones its client   *)
(* had: it waits for them.                                                 *)
LEMMA ServeInv ==
  ASSUME BenchInv, NEW s \in Slot, Serve(s)
  PROVE  BenchInv'
<1> USE DEF BenchInv
<1> DEFINE c == slot[s].client
<1>1. /\ slot[s].state = "requested"
      /\ slot' = [slot EXCEPT ![s].state = "ready"]
      /\ queue' = [queue EXCEPT ![c] = Empty]
      /\ UNCHANGED <<accept_slot, cl, handlers, mn, client_list, test, run_flag>>
  BY DEF Serve, mainVars
<1>2. c \in Client /\ cl[c].pc = "await" /\ cl[c].slot = s
  BY <1>1 DEF Owned
<1>3. /\ slot'[s].state = "ready" /\ slot'[s].client = c
      /\ \A t \in Slot \ {s} : slot'[t] = slot[t]
      /\ slot' \in [Slot -> Row]
  <2> DEFINE r == [slot[s] EXCEPT !.state = "ready"]
  <2>1. slot \in [Slot -> Row] /\ slot[s] \in Row
    BY DEF Row, TypeOK
  <2>2. slot' = [slot EXCEPT ![s] = r]
    BY <1>1
  <2>3. r \in Row /\ r.state = "ready" /\ r.client = c
    BY <2>1 DEF Row
  <2> HIDE DEF r
  <2> QED
    BY <2>1, <2>2, <2>3
<1> HIDE DEF c
<1>4. /\ queue' \in [Client -> Pair]
      /\ \A d \in Client \ {c} : queue'[d] = queue[d]
      /\ Len(queue'[c].request) = 0 /\ Len(queue'[c].response) = 0
  <2>1. Empty \in Pair /\ Len(Empty.request) = 0 /\ Len(Empty.response) = 0
    BY EmptySeq DEF Empty, Pair
  <2>2. queue \in [Client -> Pair]
    BY DEF TypeOK, Pair
  <2> HIDE DEF Empty
  <2> QED
    BY <1>1, <1>2, <2>1, <2>2
<1>5. TypeOK'
  BY <1>1, <1>3, <1>4 DEF TypeOK, Row, Pair
<1>6. Phases'
  BY <1>1, <1>2 DEF Phases, Accepting, Over, Test
<1>7. Owned'
  BY <1>1, <1>2, <1>3 DEF Owned
<1>8. Connected'
  <2> SUFFICES ASSUME NEW d \in Client
               PROVE  (/\ Attached(d) \/ cl[d].pc = "await" =>
                            /\ slot[cl[d].slot].client = d
                            /\ slot[cl[d].slot].state \in {"requested", "ready"}
                       /\ Attached(d) => slot[cl[d].slot].state = "ready")'
    BY DEF Connected
  <2>1. cl'[d] = cl[d] /\ cl[d].slot \in Slot /\ (Attached(d)' <=> Attached(d))
    BY <1>1 DEF Attached, Test, TypeOK
  <2>2. CASE cl[d].slot = s
    BY <2>1, <2>2, <1>3 DEF Connected, c
  <2>3. CASE cl[d].slot # s
    BY <2>1, <2>3, <1>3 DEF Connected
  <2> QED
    BY <2>2, <2>3
<1>9. Flight'
  <2> SUFFICES ASSUME NEW d \in Client
               PROVE  (IF cl[d].pc = "receive" THEN Asked(d) \/ Working(d) \/ Answered(d)
                       ELSE Quiet(d))'
    BY DEF Flight
  <2>1. CASE d = c
    BY <2>1, <1>1, <1>2, <1>4 DEF Flight, Quiet, NoneInHand, InHand
  <2>2. CASE d # c
    BY <2>2, <1>1, <1>4
    DEF Flight, Quiet, Asked, Answered, Working, NoneInHand, InHand
  <2> QED
    BY <2>1, <2>2
<1>10. EchoMatches'
  BY <1>1 DEF EchoMatches
<1> QED
  BY <1>5, <1>6, <1>7, <1>8, <1>9, <1>10

LEMMA ReclaimInv ==
  ASSUME BenchInv, NEW s \in Slot, Reclaim(s)
  PROVE  BenchInv'
<1> USE DEF BenchInv
<1>1. /\ slot[s].state = "closing"
      /\ slot' = [slot EXCEPT ![s] = Free]
      /\ UNCHANGED <<accept_slot, queue, cl, handlers, mn, client_list, test, run_flag>>
  BY DEF Reclaim, mainVars
<1>2. Free \in Row /\ slot \in [Slot -> Row]
  BY DEF Free, Row, TypeOK
<1>3. /\ slot'[s] = Free /\ slot' \in [Slot -> Row]
      /\ \A t \in Slot \ {s} : slot'[t] = slot[t]
  BY <1>1, <1>2
<1>4. TypeOK'
  BY <1>1, <1>3 DEF TypeOK, Row
<1>5. Phases'
  BY <1>1, <1>3 DEF Phases, Accepting, Over, Test
<1>6. Owned'
  BY <1>1, <1>3 DEF Owned, Free
<1>7. Connected'
  <2> SUFFICES ASSUME NEW d \in Client
               PROVE  (/\ Attached(d) \/ cl[d].pc = "await" =>
                            /\ slot[cl[d].slot].client = d
                            /\ slot[cl[d].slot].state \in {"requested", "ready"}
                       /\ Attached(d) => slot[cl[d].slot].state = "ready")'
    BY DEF Connected
  <2>1. cl'[d] = cl[d] /\ cl[d].slot \in Slot /\ (Attached(d)' <=> Attached(d))
    BY <1>1 DEF Attached, Test, TypeOK
  <2>2. Attached(d) \/ cl[d].pc = "await" => cl[d].slot # s
    BY <1>1 DEF Connected
  <2> QED
    BY <2>1, <2>2, <1>3 DEF Connected
<1>8. Flight'
  BY <1>1 DEF Flight, Quiet, Asked, Answered, Working, NoneInHand, InHand
<1>9. EchoMatches'
  BY <1>1 DEF EchoMatches
<1> QED
  BY <1>4, <1>5, <1>6, <1>7, <1>8, <1>9

-----------------------------------------------------------------------------
(* The handlers' steps                                                     *)

LEMMA HandlerType ==
  ASSUME TypeOK
  PROVE  /\ handlers \in Seq(Handler) /\ Len(handlers) \in Nat
         /\ DOMAIN handlers = 1..Len(handlers)
         /\ \A h \in DOMAIN handlers : handlers[h] \in Handler
<1>1. handlers \in Seq(Handler)
  BY DEF TypeOK, Handler
<1>2. DOMAIN handlers = 1..Len(handlers) /\ Len(handlers) \in Nat
  BY <1>1, LenProperties
<1> QED
  BY <1>1, <1>2, ElementOfSeq

(* What is left to show when a handler changes and no client does.         *)
LEMMA HandlerStepInv ==
  ASSUME BenchInv, NEW h \in DOMAIN handlers, NEW r \in Handler,
         handlers' = [handlers EXCEPT ![h] = r],
         r.pc # "hold", r.pc \in {"receive", "send"} => r.i < NUM_ITEMS,
         queue' \in [Client -> Pair], Flight',
         UNCHANGED <<tableVars, cl, mainVars>>
  PROVE  BenchInv'
<1> USE DEF BenchInv, tableVars, mainVars
<1>1. handlers \in Seq(Handler) /\ h \in 1..Len(handlers)
  BY HandlerType
<1>2. /\ handlers' \in Seq(Handler) /\ Len(handlers') = Len(handlers)
      /\ \A g \in 1..Len(handlers) : handlers'[g] = IF g = h THEN r ELSE handlers[g]
  BY <1>1, ExceptSeq
<1>3. DOMAIN handlers = 1..Len(handlers) /\ DOMAIN handlers' = 1..Len(handlers)
  BY <1>1, <1>2, LenProperties
<1>4. TypeOK'
  BY <1>2 DEF TypeOK, Pair, Handler
<1>5. Phases'
  BY <1>1, <1>2, <1>3 DEF Phases, Accepting, Over, Test
<1>6. Owned' /\ EchoMatches'
  BY DEF Owned, EchoMatches
<1>7. Connected'
  BY DEF Connected, Attached, Test
<1> QED
  BY <1>4, <1>5, <1>6, <1>7

(* The handlers after one of them changed.                                 *)
LEMMA OneHandlerChanged ==
  ASSUME TypeOK, NEW h \in DOMAIN handlers, NEW r \in Handler,
         handlers' = [handlers EXCEPT ![h] = r]
  PROVE  /\ DOMAIN handlers' = DOMAIN handlers /\ handlers'[h] = r
         /\ \A g \in DOMAIN handlers \ {h} : handlers'[g] = handlers[g]
         /\ handlers[h] \in Handler
<1>1. /\ handlers \in Seq(Handler) /\ h \in 1..Len(handlers)
      /\ DOMAIN handlers = 1..Len(handlers) /\ handlers[h] \in Handler
  BY HandlerType
<1>2. /\ handlers' \in Seq(Handler) /\ Len(handlers') = Len(handlers)
      /\ \A g \in 1..Len(handlers) : handlers'[g] = IF g = h THEN r ELSE handlers[g]
  BY <1>1, ExceptSeq
<1>3. DOMAIN handlers' = 1..Len(handlers)
  BY <1>2, LenProperties
<1> QED
  BY <1>1, <1>2, <1>3

LEMMA HandlerHoldInv ==
  ASSUME BenchInv, NEW h \in DOMAIN handlers, HandlerHold(h)
  PROVE  BenchInv'
<1> DEFINE p == IF NUM_ITEMS > 1 THEN "receive" ELSE "done"
           r == [handlers[h] EXCEPT !.pc = p]
<1>1. handlers[h] \in Handler /\ handlers[h].pc = "hold" /\ handlers[h].i = 1
  BY HandlerType DEF BenchInv, Phases, HandlerHold
<1>2. /\ handlers' = [handlers EXCEPT ![h] = r]
      /\ UNCHANGED <<tableVars, queue, cl, mainVars>>
  BY DEF HandlerHold, HandlerSet
<1>3. r \in Handler /\ r.pc = p /\ r.client = handlers[h].client /\ r.i = handlers[h].i
  BY <1>1 DEF Handler
<1> HIDE DEF r
<1>4. /\ DOMAIN handlers' = DOMAIN handlers /\ handlers'[h] = r
      /\ \A g \in DOMAIN handlers \ {h} : handlers'[g] = handlers[g]
  BY <1>2, <1>3, OneHandlerChanged DEF BenchInv
<1>5. Flight'
  BY <1>1, <1>2, <1>3, <1>4
  DEF BenchInv, Flight, Quiet, Asked, Answered, Working, NoneInHand, InHand
<1> QED
  <2>1. r.pc # "hold" /\ (r.pc \in {"receive", "send"} => r.i < NUM_ITEMS)
    BY <1>1, <1>3, Sizes
  <2>2. queue' \in [Client -> Pair]
    BY <1>2 DEF BenchInv, TypeOK, Pair
  <2> QED
    BY <1>2, <1>3, <1>5, <2>1, <2>2, HandlerStepInv

(* A handler takes the request of its client's connection ...              *)
LEMMA HandlerReceiveInv ==
  ASSUME BenchInv, NEW h \in DOMAIN handlers, HandlerReceive(h)
  PROVE  BenchInv'
<1> USE DEF BenchInv
<1>0. PICK c \in Client : c = handlers[h].client
  BY HandlerType DEF Handler
<1> DEFINE m == Head(queue[c].request)
           r == [handlers[h] EXCEPT !.pc = "send", !.buf = m]
<1>1. handlers[h] \in Handler /\ handlers[h].pc = "receive"
  BY HandlerType DEF HandlerReceive
<1>2. /\ CanReceive(c, "request") /\ ReceiveFrom(c, "request")
      /\ handlers' = [handlers EXCEPT ![h] = r]
      /\ UNCHANGED <<tableVars, cl, mainVars>>
  BY <1>0 DEF HandlerReceive, select_queue_ctx, TypeOK
<1>3. /\ queue' \in [Client -> Pair]
      /\ \A d \in Client \ {c} : queue'[d] = queue[d]
      /\ queue[c].request # << >>
      /\ queue'[c].request = Tail(queue[c].request)
      /\ queue'[c].response = queue[c].response
  BY <1>1, <1>2, ReceiveEffect
<1>4. /\ queue[c].request \in Seq(1..NUM_ITEMS) /\ Len(queue[c].request) # 0
      /\ m = queue[c].request[1]
      /\ Len(queue'[c].request) = Len(queue[c].request) - 1
  <2>1. queue[c].request \in Seq(1..NUM_ITEMS)
    BY DEF TypeOK
  <2> QED
    BY <1>3, <2>1, EmptySeq, HeadTailProperties
<1>5. cl[c].pc = "receive" /\ Asked(c) /\ cl[c].i \in 1..NUM_ITEMS
  BY <1>1, <1>4 DEF Flight, Quiet, Working, Answered, TypeOK
<1>6. m = cl[c].i /\ m \in 0..NUM_ITEMS
  BY <1>4, <1>5, Sizes DEF Asked, OneItem
<1>7. r \in Handler /\ r.pc = "send" /\ r.client = c /\ r.i = handlers[h].i /\ r.buf = m
  <2> HIDE DEF m
  <2> QED
    BY <1>0, <1>1, <1>6 DEF Handler
<1> HIDE DEF r, m
<1>8. /\ DOMAIN handlers' = DOMAIN handlers /\ handlers'[h] = r
      /\ \A g \in DOMAIN handlers \ {h} : handlers'[g] = handlers[g]
  BY <1>2, <1>7, OneHandlerChanged
<1>9. Flight'
  <2> SUFFICES ASSUME NEW d \in Client
               PROVE  (IF cl[d].pc = "receive" THEN Asked(d) \/ Working(d) \/ Answered(d)
                       ELSE Quiet(d))'
    BY DEF Flight
  <2>1. CASE d = c
    <3>1. Len(queue'[c].request) = 0 /\ Len(queue'[c].response) = 0
      BY <1>3, <1>4, <1>5 DEF Asked, OneItem
    <3>2. \A g \in DOMAIN handlers' : InHand(c, g)' => g = h
      BY <1>5, <1>8 DEF Asked, NoneInHand, InHand
    <3>3. InHand(c, h)' /\ handlers'[h].buf = cl'[c].i
      BY <1>2, <1>6, <1>7, <1>8 DEF InHand
    <3> QED
      BY <2>1, <3>1, <3>2, <3>3, <1>2, <1>5, <1>8 DEF Working
  <2>2. CASE d # c
    <3>1. \A g \in DOMAIN handlers : InHand(d, g)' <=> InHand(d, g)
      BY <2>2, <1>0, <1>7, <1>8 DEF InHand
    <3>2. \A g \in DOMAIN handlers : InHand(d, g) => handlers'[g] = handlers[g]
      BY <2>2, <1>0, <1>8 DEF InHand
    <3> QED
      BY <2>2, <3>1, <3>2, <1>2, <1>3, <1>8
      DEF Flight, Quiet, Asked, Answered, Working, NoneInHand
  <2> QED
    BY <2>1, <2>2
<1>10. r.pc # "hold" /\ (r.pc \in {"receive", "send"} => r.i < NUM_ITEMS)
  BY <1>1, <1>7 DEF Phases
<1> QED
  BY <1>2, <1>3, <1>7, <1>9, <1>10, HandlerStepInv

(* ... and sends it back.                                                  *)
LEMMA HandlerSendInv ==
  ASSUME BenchInv, NEW h \in DOMAIN handlers, HandlerSend(h)
  PROVE  BenchInv'
<1> USE DEF BenchInv
<1>0. PICK c \in Client : c = handlers[h].client
  BY HandlerType DEF Handler
<1> DEFINE m == handlers[h].buf
           p == IF handlers[h].i + 1 < NUM_ITEMS THEN "receive" ELSE "done"
           r == [handlers[h] EXCEPT !.i = @ + 1, !.pc = p]
<1>1. /\ handlers[h] \in Handler /\ handlers[h].pc = "send"
      /\ handlers[h].i \in 1..NUM_ITEMS /\ handlers[h].i < NUM_ITEMS
  BY HandlerType DEF HandlerSend, Handler, Phases
<1>2. /\ SendTo(c, "response", m)
      /\ handlers' = [handlers EXCEPT ![h] = r]
      /\ UNCHANGED <<tableVars, cl, mainVars>>
  BY <1>0 DEF HandlerSend, select_queue_ctx
<1>3. /\ cl[c].pc = "receive" /\ m = cl[c].i /\ cl[c].i \in 1..NUM_ITEMS
      /\ Len(queue[c].request) = 0 /\ Len(queue[c].response) = 0
      /\ \A g \in DOMAIN handlers : InHand(c, g) => g = h
  <2>1. InHand(c, h)
    BY <1>0, <1>1 DEF InHand
  <2>2. cl[c].pc = "receive" /\ Working(c)
    BY <1>1, <2>1 DEF Flight, Quiet, Asked, Answered, NoneInHand
  <2> QED
    BY <1>1, <2>1, <2>2 DEF Working, TypeOK
<1>4. /\ queue' \in [Client -> Pair]
      /\ \A d \in Client \ {c} : queue'[d] = queue[d]
      /\ queue'[c].response = Append(queue[c].response, m)
      /\ queue'[c].request = queue[c].request
  BY <1>1, <1>2, <1>3, SendEffect
<1>5. OneItem(queue'[c].response, cl[c].i)
  <2>1. queue[c].response \in Seq(0..NUM_ITEMS)
    BY DEF TypeOK
  <2>2. m \in 0..NUM_ITEMS
    BY <1>3, Sizes
  <2> QED
    BY <1>3, <1>4, <2>1, <2>2, AppendProperties DEF OneItem
<1>6. /\ r \in Handler /\ r.client = c /\ r.pc = p /\ r.i = handlers[h].i + 1
      /\ p # "hold" /\ p # "send" /\ (p = "receive" => r.i < NUM_ITEMS)
  <2>1. handlers[h].i + 1 \in 1..NUM_ITEMS
    BY <1>1, Sizes
  <2> QED
    BY <1>0, <1>1, <2>1 DEF Handler
<1> HIDE DEF r, p
<1>7. /\ DOMAIN handlers' = DOMAIN handlers /\ handlers'[h] = r
      /\ \A g \in DOMAIN handlers \ {h} : handlers'[g] = handlers[g]
  BY <1>2, <1>6, OneHandlerChanged
<1> HIDE DEF m
<1>8. Flight'
  <2> SUFFICES ASSUME NEW d \in Client
               PROVE  (IF cl[d].pc = "receive" THEN Asked(d) \/ Working(d) \/ Answered(d)
                       ELSE Quiet(d))'
    BY DEF Flight
  <2>1. CASE d = c
    <3>1. NoneInHand(c)'
      BY <1>3, <1>6, <1>7 DEF NoneInHand, InHand
    <3> QED
      BY <2>1, <3>1, <1>2, <1>3, <1>4, <1>5 DEF Answered
  <2>2. CASE d # c
    <3>1. \A g \in DOMAIN handlers : InHand(d, g)' <=> InHand(d, g)
      BY <2>2, <1>0, <1>6, <1>7 DEF InHand
    <3>2. \A g \in DOMAIN handlers : InHand(d, g) => handlers'[g] = handlers[g]
      BY <2>2, <1>0, <1>7 DEF InHand
    <3> QED
      BY <2>2, <3>1, <3>2, <1>2, <1>4, <1>7
      DEF Flight, Quiet, Asked, Answered, Working, NoneInHand
  <2> QED
    BY <2>1, <2>2
<1> QED
  BY <1>2, <1>4, <1>6, <1>8, HandlerStepInv

-----------------------------------------------------------------------------
(* The main thread's steps                                                 *)

AcceptPcs == {"accept", "scan", "shms", "id", "again", "state", "attach"}

(* Inside accept only main's own locals and accept_slot change, until it   *)
(* attaches.                                                               *)
LEMMA AcceptMoveInv ==
  ASSUME BenchInv, mn.pc \in AcceptPcs,
         mn' \in MainThread, mn'.pc \in AcceptPcs, accept_slot' \in Slot,
         mn'.pc \in {"state", "attach"} => mn'.queues \in Client,
         UNCHANGED <<slot, queue, cl, handlers, client_list, test, run_flag>>
  PROVE  BenchInv'
<1> USE DEF BenchInv, AcceptPcs
<1>1. TypeOK'
  BY DEF TypeOK, MainThread
<1>2. Phases'
  BY DEF Phases, Accepting, Over, Test
<1>3. Owned' /\ EchoMatches'
  BY DEF Owned, EchoMatches
<1>4. Connected'
  BY DEF Connected, Attached, Test
<1>5. Flight'
  BY DEF Flight, Quiet, Asked, Answered, Working, NoneInHand, InHand
<1> QED
  BY <1>1, <1>2, <1>3, <1>4, <1>5

(* What a row seen by accept shows is a client, or nothing.                *)
LEMMA InRowType ==
  ASSUME BenchInv, NEW s \in Slot
  PROVE  /\ InRow(s) \in Client \cup {NoClient}
         /\ Created(s) => InRow(s) \in Client
BY DEF BenchInv, Owned, InRow, Created

LEMMA AcceptStepInv ==
  ASSUME BenchInv,
         \/ AcceptCall \/ AcceptTake \/ AcceptSkip \/ AcceptNone \/ AcceptShms
         \/ AcceptId \/ AcceptAgain \/ AcceptState
  PROVE  BenchInv'
<1>0. mn \in MainThread /\ mn.slot \in Slot /\ accept_slot \in Slot
  BY DEF BenchInv, TypeOK, MainThread
<1> USE DEF AcceptPcs
<1>1. CASE AcceptCall
  <2>1. [Main EXCEPT !.pc = "scan", !.slot = accept_slot] \in MainThread
    <3>1. Main \in MainThread
      BY Sizes DEF Main, MainThread
    <3> QED
      BY <1>0, <3>1 DEF MainThread
  <2>2. mn' \in MainThread /\ mn'.pc = "scan"
    BY <1>1, <2>1 DEF AcceptCall, Main
  <2> QED
    BY <1>0, <1>1, <2>2, AcceptMoveInv DEF AcceptCall, tableVars
<1>2. CASE AcceptTake
  <2>1. [mn EXCEPT !.pc = "shms"] \in MainThread /\ (mn.slot + 1) % SLOT_NUM \in Slot
    BY <1>0, NextSlot DEF MainThread
  <2> QED
    BY <1>0, <1>2, <2>1, AcceptMoveInv DEF AcceptTake, MainGoto, MainThread
<1>3. CASE AcceptSkip
  <2>1. (mn.slot + 1) % SLOT_NUM \in Slot /\ mn.n + 1 \in 0..SLOT_NUM
    BY <1>0, <1>3, NextSlot, Sizes DEF MainThread, AcceptSkip
  <2>2. mn' \in MainThread /\ mn'.pc = "scan"
    BY <1>0, <1>3, <2>1 DEF AcceptSkip, MainThread
  <2> QED
    BY <1>0, <1>3, <2>2, AcceptMoveInv DEF AcceptSkip, tableVars
<1>4. CASE AcceptNone
  <2>1. mn' \in MainThread /\ mn'.pc = "accept"
    BY <1>0, <1>4 DEF AcceptNone, MainGoto, MainThread
  <2> QED
    BY <1>0, <1>4, <2>1, AcceptMoveInv DEF AcceptNone, tableVars
<1>5. CASE AcceptShms
  <2>1. InRow(mn.slot) \in Client \cup {NoClient}
    BY <1>0, InRowType
  <2>2. mn' \in MainThread /\ mn'.pc = "id"
    BY <1>0, <1>5, <2>1 DEF AcceptShms, MainThread
  <2> QED
    BY <1>0, <1>5, <2>2, AcceptMoveInv DEF AcceptShms, tableVars
<1>6. CASE AcceptId
  <2>1. InRow(mn.slot) \in Client \cup {NoClient}
    BY <1>0, InRowType
  <2>2. /\ mn' \in MainThread /\ mn'.queues = mn.queues
        /\ mn'.pc = IF mn.queues = NoClient THEN "again" ELSE "state"
    BY <1>0, <1>6, <2>1 DEF AcceptId, MainThread
  <2>3. mn'.pc \in {"again", "state"} /\ (mn'.pc = "state" => mn'.queues \in Client)
    BY <1>0, <2>2 DEF MainThread
  <2> QED
    BY <1>0, <1>6, <2>2, <2>3, AcceptMoveInv DEF AcceptId, tableVars
<1>7. CASE AcceptAgain
  <2>1. InRow(mn.slot) \in Client
    BY <1>0, <1>7, InRowType DEF AcceptAgain
  <2>2. mn' \in MainThread /\ mn'.pc = "state" /\ mn'.queues \in Client
    BY <1>0, <1>7, <2>1 DEF AcceptAgain, MainThread
  <2> QED
    BY <1>0, <1>7, <2>2, AcceptMoveInv DEF AcceptAgain, tableVars
<1>8. CASE AcceptState
  <2>1. mn.queues \in Client
    BY <1>8 DEF AcceptState, BenchInv, Phases
  <2>2. mn' \in MainThread /\ mn'.pc \in {"accept", "attach"} /\ mn'.queues \in Client
    BY <1>0, <1>8, <2>1 DEF AcceptState, MainGoto, MainThread
  <2> QED
    BY <1>0, <1>8, <2>2, AcceptMoveInv DEF AcceptState, tableVars
<1> QED
  BY <1>1, <1>2, <1>3, <1>4, <1>5, <1>6, <1>7, <1>8

(* The step that starts a handler: it begins outside its loop.             *)
LEMMA AcceptAttachInv ==
  ASSUME BenchInv, AcceptAttach
  PROVE  BenchInv'
<1> USE DEF BenchInv
<1>0. /\ mn.pc = "attach" /\ mn \in MainThread /\ mn.slot \in Slot /\ mn.queues \in Client
      /\ mn.id \in Client \cup {NoClient}
      /\ ~Over /\ Len(client_list) < MAX_CLIENTS
      /\ client_list \in Seq(Client \cup {NoClient})
      /\ UNCHANGED <<accept_slot, queue, cl, test, run_flag>>
  BY DEF AcceptAttach, TypeOK, MainThread, Phases, Accepting
<1>1. /\ slot' \in [Slot -> Row]
      /\ \A s \in Slot : /\ slot'[s].state = slot[s].state
                         /\ slot'[s].client = slot[s].client
                         /\ slot[s] = Free => slot'[s] = Free
  <2> DEFINE r == [slot[mn.slot] EXCEPT !.server_attached = @ \/ Created(mn.slot)]
  <2>1. slot \in [Slot -> Row] /\ slot[mn.slot] \in Row /\ Created(mn.slot) \in BOOLEAN
    BY <1>0 DEF TypeOK, Row, Created
  <2>2. slot' = [slot EXCEPT ![mn.slot] = r]
    BY DEF AcceptAttach
  <2>3. r \in Row /\ r.state = slot[mn.slot].state /\ r.client = slot[mn.slot].client
    BY <2>1 DEF Row
  <2>4. slot[mn.slot] = Free => r = slot[mn.slot]
    <3> SUFFICES ASSUME slot[mn.slot] = Free PROVE r = slot[mn.slot]
      OBVIOUS
    <3>1. ~Created(mn.slot) /\ slot[mn.slot].server_attached = FALSE
      BY DEF Created, Free
    <3> QED
      BY <2>1, <3>1 DEF Row
  <2> HIDE DEF r
  <2> QED
    BY <1>0, <2>1, <2>2, <2>3, <2>4
<1>2. /\ mn' \in MainThread
      /\ mn'.pc \in {"accept", "flag", "join"}
      /\ mn'.pc = "flag" => Test.opens_first
  BY <1>0, TestType DEF AcceptAttach, CountContext, MainGoto, MainThread
<1>3. /\ client_list' \in Seq(Client \cup {NoClient}) /\ Len(client_list') <= MAX_CLIENTS
      /\ mn'.pc = "accept" => Len(client_list') < MAX_CLIENTS
  <2>1. CASE client_list' = client_list
    BY <1>0, <2>1, Sizes, LenProperties
  <2>2. CASE CountContext
    <3>1. /\ client_list' \in Seq(Client \cup {NoClient})
          /\ Len(client_list') = Len(client_list) + 1
          /\ Len(client_list) \in Nat
      BY <1>0, <2>2, AppendProperties, LenProperties DEF CountContext
    <3> QED
      BY <1>0, <2>2, <3>1, Sizes, TestType DEF CountContext, MainGoto, MainThread
  <2> QED
    BY <2>1, <2>2 DEF AcceptAttach
<1>4. /\ handlers' \in Seq(Handler)
      /\ DOMAIN handlers \subseteq DOMAIN handlers'
      /\ \A h \in DOMAIN handlers : handlers'[h] = handlers[h]
      /\ \A h \in DOMAIN handlers' \ DOMAIN handlers :
           handlers'[h].pc = "hold" /\ handlers'[h].i = 1
  <2>1. CASE handlers' = handlers
    BY <2>1, HandlerType
  <2> DEFINE r == [client |-> mn.queues, pc |-> "hold", i |-> 1, buf |-> 0]
  <2>2. CASE handlers' = Append(handlers, r)
    <3>1. r \in Handler /\ r.pc = "hold" /\ r.i = 1
      BY <1>0, Sizes DEF Handler
    <3>2. /\ handlers \in Seq(Handler) /\ Len(handlers) \in Nat
          /\ DOMAIN handlers = 1..Len(handlers)
      BY HandlerType
    <3> HIDE DEF r
    <3>3. /\ handlers' \in Seq(Handler) /\ Len(handlers') = Len(handlers) + 1
          /\ \A k \in 1..Len(handlers) : handlers'[k] = handlers[k]
          /\ handlers'[Len(handlers) + 1] = r
      BY <2>2, <3>1, <3>2, AppendProperties
    <3>4. DOMAIN handlers' = 1..(Len(handlers) + 1)
      BY <3>3, LenProperties
    <3> QED
      BY <3>1, <3>2, <3>3, <3>4
  <2> QED
    BY <2>1, <2>2 DEF AcceptAttach, CountContext
<1>5. TypeOK'
  BY <1>0, <1>1, <1>2, <1>3, <1>4 DEF TypeOK, MainThread, Row, Handler
<1>6. Phases'
  <2>1. mn'.pc # "register" /\ ~Over' /\ (mn'.pc = "flag" => Test.opens_first')
    BY <1>0, <1>2 DEF Over, Test
  <2>2. \A h \in DOMAIN handlers' :
          /\ handlers'[h].pc = "hold" => handlers'[h].i = 1
          /\ handlers'[h].pc \in {"receive", "send"} => handlers'[h].i < NUM_ITEMS
    BY <1>4 DEF Phases
  <2> QED
    BY <1>0, <1>2, <1>3, <2>1, <2>2 DEF Phases, Accepting
<1>7. Owned' /\ EchoMatches'
  BY <1>0, <1>1 DEF Owned, EchoMatches, TypeOK
<1>8. Connected'
  BY <1>0, <1>1 DEF Connected, Attached, Test, TypeOK
<1>9. Flight'
  <2>1. \A d \in Client, g \in DOMAIN handlers' :
          InHand(d, g)' <=> g \in DOMAIN handlers /\ InHand(d, g)
    BY <1>4 DEF InHand
  <2> QED
    BY <2>1, <1>0, <1>4 DEF Flight, Quiet, Asked, Answered, Working, NoneInHand
<1> QED
  BY <1>5, <1>6, <1>7, <1>8, <1>9

LEMMA StartTestInv ==
  ASSUME BenchInv, StartTest
  PROVE  BenchInv'
<1> USE DEF BenchInv
<1>0. /\ mn.pc = "register" /\ ~Over
      /\ UNCHANGED <<slot, accept_slot, queue, handlers, client_list, test, run_flag>>
  BY DEF StartTest, tableVars
<1>1. Test.opens_first \in BOOLEAN
  BY <1>0, TestType
<1>2. /\ cl' \in [Client -> ClientThread]
      /\ \A c \in Client : cl'[c].pc = IF Test.opens_first THEN "open" ELSE "hold"
  <2> DEFINE r == [Thread EXCEPT !.pc = IF Test.opens_first THEN "open" ELSE "hold"]
  <2>1. Thread \in ClientThread
    BY Sizes DEF Thread, ClientThread
  <2>2. r \in ClientThread /\ r.pc = IF Test.opens_first THEN "open" ELSE "hold"
    BY <1>1, <2>1 DEF ClientThread
  <2>3. cl' = [c \in Client |-> r]
    BY DEF StartTest
  <2> HIDE DEF r
  <2> QED
    BY <2>2, <2>3
<1>3. /\ mn' \in MainThread
      /\ mn'.pc = IF Test.opens_first THEN "accept" ELSE "flag"
  BY <1>1 DEF StartTest, MainGoto, TypeOK, MainThread
<1>4. TypeOK'
  BY <1>0, <1>2, <1>3 DEF TypeOK, MainThread, ClientThread
<1>5. Phases'
  BY <1>0, <1>1, <1>2, <1>3 DEF Phases, Accepting, Over, Test
<1>6. Owned' /\ EchoMatches'
  BY <1>0, <1>1, <1>2 DEF Owned, EchoMatches, Phases, Free
<1>7. Connected'
  BY <1>0, <1>1, <1>2 DEF Connected, Attached, Test
<1>8. Flight'
  BY <1>0, <1>1, <1>2 DEF Flight, Quiet, Phases, NoneInHand, InHand
<1> QED
  BY <1>4, <1>5, <1>6, <1>7, <1>8

LEMMA SetRunFlagOrJoinInv ==
  ASSUME BenchInv, SetRunFlag \/ JoinThreads
  PROVE  BenchInv'
<1> USE DEF BenchInv
<1>1. /\ UNCHANGED <<slot, accept_slot, queue, cl, handlers, client_list, test>>
      /\ run_flag' \in BOOLEAN /\ mn.pc \in {"flag", "join"}
  BY DEF SetRunFlag, JoinThreads, tableVars, TypeOK
<1>2. ~Over /\ Test.opens_first \in BOOLEAN
  BY <1>1, TestType DEF Phases
<1>3. /\ mn' \in MainThread /\ mn'.pc \in {"join", "accept", "shutdown"}
      /\ mn'.pc = "accept" => mn.pc = "flag" /\ ~Test.opens_first
  BY <1>2 DEF SetRunFlag, JoinThreads, MainGoto, TypeOK, MainThread
<1>4. TypeOK'
  BY <1>1, <1>3 DEF TypeOK, MainThread
<1>5. Phases'
  BY <1>1, <1>2, <1>3 DEF Phases, Accepting, Over, Test
<1>6. Owned' /\ EchoMatches'
  BY <1>1 DEF Owned, EchoMatches
<1>7. Connected'
  BY <1>1 DEF Connected, Attached, Test
<1>8. Flight'
  BY <1>1 DEF Flight, Quiet, Asked, Answered, Working, NoneInHand, InHand
<1> QED
  BY <1>4, <1>5, <1>6, <1>7, <1>8

(* What a test begins with: a fresh region, no thread and no message.      *)
Fresh ==
  /\ run_flag = FALSE
  /\ slot = [s \in Slot |-> Free]
  /\ queue = [c \in Client |-> Empty]
  /\ cl = [c \in Client |-> Thread]
  /\ handlers = << >>
  /\ mn = Main
  /\ accept_slot = 0
  /\ client_list = << >>

LEMMA FreshInv ==
  ASSUME Fresh, test \in 0..4
  PROVE  BenchInv
<1>1. Free \in Row /\ Thread \in ClientThread /\ Main \in MainThread
  BY Sizes DEF Free, Row, Thread, ClientThread, Main, MainThread
<1>2. Empty \in Pair /\ Len(Empty.request) = 0 /\ Len(Empty.response) = 0
  BY EmptySeq DEF Empty, Pair
<1>3. /\ slot \in [Slot -> Row] /\ cl \in [Client -> ClientThread]
      /\ queue \in [Client -> Pair] /\ mn \in MainThread /\ accept_slot \in Slot
  BY <1>1, <1>2, Sizes DEF Fresh
<1>4. /\ handlers \in Seq(Handler) /\ Len(handlers) = 0 /\ DOMAIN handlers = {}
      /\ client_list \in Seq(Client \cup {NoClient}) /\ Len(client_list) = 0
  <2>1. handlers = << >> /\ client_list = << >>
    BY DEF Fresh
  <2> QED
    BY <2>1, EmptySeq
<1>5. TypeOK
  <2>1. run_flag \in BOOLEAN
    BY DEF Fresh
  <2>2. test \in 0..Len(bench_run_all)
    BY Tests
  <2> QED
    BY <1>3, <1>4, <2>1, <2>2, Sizes
    DEF TypeOK, Row, ClientThread, Pair, MainThread, Handler
<1>6. \A c \in Client : cl[c].pc = "none"
  BY DEF Fresh, Thread
<1>7. \A s \in Slot : slot[s] = Free
  BY DEF Fresh
<1>8. Phases
  BY <1>4, <1>6, <1>7, Sizes DEF Fresh, Phases, Accepting, Main
<1>9. Owned /\ EchoMatches
  <2>1. Free.state = "free"
    BY DEF Free
  <2>2. Owned
    BY <1>7, <2>1 DEF Owned
  <2>3. EchoMatches
    BY <1>6 DEF EchoMatches
  <2> QED
    BY <2>2, <2>3
<1>10. Connected
  BY <1>6 DEF Connected, Attached
<1>11. Flight
  BY <1>2, <1>4, <1>6 DEF Fresh, Flight, Quiet, NoneInHand
<1> QED
  BY <1>5, <1>8, <1>9, <1>10, <1>11 DEF BenchInv

LEMMA FreshInvNext == Fresh' /\ (test \in 0..4)' => BenchInv'
<1>1. Fresh /\ test \in 0..4 => BenchInv
  BY FreshInv
<1> QED
  BY <1>1, PTL

LEMMA EndTestInv ==
  ASSUME BenchInv, EndTest
  PROVE  BenchInv'
<1>1. test' \in 0..4
  BY TestType DEF BenchInv, Phases, EndTest
<1>2. Fresh'
  BY DEF EndTest, Fresh
<1> QED
  BY <1>1, <1>2, FreshInvNext

(* Any of the tests may come first.                                        *)
LEMMA InitBenchInv == \A t \in 0..4 : InitAfter(t) => BenchInv
BY FreshInv DEF InitAfter, Fresh

LEMMA NextBenchInv == BenchInv /\ [Next]_vars => BenchInv'
<1> SUFFICES ASSUME BenchInv, [Next]_vars PROVE BenchInv'
  OBVIOUS
<1>1. CASE MainStep
  BY <1>1, StartTestInv, SetRunFlagOrJoinInv, AcceptStepInv, AcceptAttachInv, EndTestInv
  DEF MainStep, AcceptStep
<1>2. CASE PoolStep
  BY <1>2, ServeInv, ReclaimInv DEF PoolStep
<1>3. ASSUME NEW c \in Client, ClientStep(c) PROVE BenchInv'
  BY <1>3, ClientHoldInv, ClientRequestInv, ClientOpenedInv, ClientSendInv,
     ClientReceiveInv, ClientDoneInv DEF ClientStep
<1>4. ASSUME NEW h \in DOMAIN handlers, HandlerStep(h) PROVE BenchInv'
  BY <1>4, HandlerHoldInv, HandlerReceiveInv, HandlerSendInv DEF HandlerStep
<1>5. CASE UNCHANGED vars
  <2> USE <1>5 DEF vars, tableVars, mainVars, BenchInv
  <2>1. TypeOK' /\ Owned' /\ EchoMatches'
    BY DEF TypeOK, Owned, EchoMatches
  <2>2. Phases'
    BY DEF Phases, Accepting, Over, Test
  <2>3. Connected'
    BY DEF Connected, Attached, Test
  <2>4. Flight'
    BY DEF Flight, Quiet, Asked, Answered, Working, NoneInHand, InHand
  <2> QED
    BY <2>1, <2>2, <2>3, <2>4
<1> QED
  BY <1>1, <1>2, <1>3, <1>4, <1>5 DEF Next

-----------------------------------------------------------------------------
(* While clients stay                                                      *)

(* A client that has been told of its slot moves on, and one that has none *)
(* begins to ask.                                                          *)
LEMMA StayClient ==
  ASSUME BenchInv, StayInv, BenchInv', NEW c \in Client,
         \/ ClientHold(c) \/ ClientOpened(c) \/ ClientSend(c)
         \/ ClientReceive(c) \/ ClientDone(c)
  PROVE  StayInv'
<1> USE DEF BenchInv
<1> SUFFICES ASSUME Staying' PROVE (OneSlotEach /\ AcceptedSlot /\ HandlerSlots /\ OneHandlerEach)'
  BY DEF StayInv
<1>1. UNCHANGED <<accept_slot, handlers, mn, test>>
  BY DEF ClientHold, ClientOpened, ClientSend, ClientReceive, ClientDone, tableVars, mainVars
<1>2. Staying /\ OneSlotEach /\ AcceptedSlot /\ HandlerSlots /\ OneHandlerEach
  BY <1>1 DEF StayInv, Staying, Test
<1>3. ~Over /\ Test.opens_first \in BOOLEAN /\ Test.echoes \in BOOLEAN /\ ~Test.closes
  BY <1>2, TestType DEF Staying, Phases
<1>4. slot' = slot
  BY <1>3 DEF ClientHold, ClientOpened, ClientSend, ClientReceive, ClientDone, tableVars
<1>5. \A d \in Client \ {c} : cl'[d] = cl[d]
  BY DEF ClientHold, ClientOpened, ClientSend, ClientReceive, ClientDone, Goto, TypeOK
<1>6. /\ cl'[c].pc # "none"
      /\ cl'[c].pc = "open" => cl[c].pc = "hold" /\ ~Test.opens_first
      /\ cl'[c].pc = "hold" => Test.opens_first
  <2>0. cl \in [Client -> ClientThread]
    BY DEF TypeOK, ClientThread
  <2>1. CASE ClientHold(c)
    BY <2>0, <2>1, <1>3 DEF ClientHold, Goto, ClientThread
  <2>2. CASE ClientOpened(c)
    BY <2>0, <2>2, <1>3 DEF ClientOpened, Goto, ClientThread
  <2>3. CASE ClientSend(c) \/ ClientDone(c)
    BY <2>0, <2>3 DEF ClientSend, ClientDone, Goto, ClientThread
  <2>4. CASE ClientReceive(c)
    BY <2>0, <2>4 DEF ClientReceive, ClientThread
  <2> QED
    BY <2>1, <2>2, <2>3, <2>4
<1>7. OneSlotEach'
  <2>1. \A s \in Slot : slot[s].state # "free" => slot[s].client \in Client
    BY DEF Owned
  <2>2. Test' = Test
    BY <1>1 DEF Test
  <2> QED
    BY <1>2, <1>4, <1>5, <1>6, <2>1, <2>2 DEF OneSlotEach
<1>8. AcceptedSlot' /\ HandlerSlots' /\ OneHandlerEach'
  BY <1>1, <1>2, <1>4 DEF AcceptedSlot, HandlerSlots, ReadySlot, OneHandlerEach, Over, Test
<1> QED
  BY <1>7, <1>8

(* A client asks for a slot when it has none.                              *)
LEMMA StayRequest ==
  ASSUME BenchInv, StayInv, BenchInv', NEW c \in Client, ClientRequest(c)
  PROVE  StayInv'
<1> USE DEF BenchInv
<1> SUFFICES ASSUME Staying' PROVE (OneSlotEach /\ AcceptedSlot /\ HandlerSlots /\ OneHandlerEach)'
  BY DEF StayInv
<1>1. cl[c].pc = "open" /\ UNCHANGED <<handlers, mn, test>>
  BY DEF ClientRequest, mainVars
<1>2. Staying /\ OneSlotEach /\ AcceptedSlot /\ HandlerSlots /\ OneHandlerEach
  BY <1>1 DEF StayInv, Staying, Test
<1>3. PICK s \in Slot :
        /\ slot[s] = Free
        /\ slot' = [slot EXCEPT ![s] = [@ EXCEPT !.state = "requested", !.client = c]]
        /\ cl' = [cl EXCEPT ![c].pc = "await", ![c].slot = s]
  BY DEF ClientRequest
<1>4. /\ slot[s].state = "free"
      /\ slot'[s].state = "requested" /\ slot'[s].client = c
      /\ \A t \in Slot \ {s} : slot'[t] = slot[t]
  <2>1. slot \in [Slot -> Row]
    BY DEF TypeOK, Row
  <2> QED
    BY <1>3, <2>1 DEF Free, Row
<1>5. cl'[c].pc = "await" /\ \A d \in Client \ {c} : cl'[d] = cl[d]
  BY <1>3 DEF TypeOK
<1>6. \A t \in Slot : slot[t].client # c
  BY <1>1, <1>2, BenchAssumption DEF OneSlotEach, Owned, Free
<1>7. OneSlotEach'
  <2>1. Test' = Test
    BY <1>1 DEF Test
  <2>2. \A t \in Slot : slot'[t].state # "free" => slot'[t].client \in Client
    BY DEF Owned
  <2>3. \A t \in Slot \ {s} : slot'[t].state # "free" =>
           slot[t].state # "free" /\ cl'[slot'[t].client] = cl[slot[t].client]
    BY <1>4, <1>5, <1>6, <2>2
  <2> QED
    BY <1>2, <1>4, <1>5, <1>6, <2>1, <2>2, <2>3 DEF OneSlotEach
<1>8. AcceptedSlot'
  <2>1. mn.slot \in Slot
    BY DEF TypeOK
  <2> QED
    BY <1>1, <1>2, <1>4, <2>1 DEF AcceptedSlot
<1>9. HandlerSlots' /\ OneHandlerEach'
  BY <1>1, <1>2, <1>4 DEF HandlerSlots, ReadySlot, OneHandlerEach, Over, Test
<1> QED
  BY <1>7, <1>8, <1>9

(* manage_pool only gives requested slots their queues: nobody closes.     *)
LEMMA StayPool ==
  ASSUME BenchInv, StayInv, BenchInv', NEW s \in Slot, Serve(s) \/ Reclaim(s)
  PROVE  StayInv'
<1> USE DEF BenchInv
<1> SUFFICES ASSUME Staying' PROVE (OneSlotEach /\ AcceptedSlot /\ HandlerSlots /\ OneHandlerEach)'
  BY DEF StayInv
<1>1. UNCHANGED <<handlers, mn, test, cl>>
  BY DEF Serve, Reclaim, mainVars
<1>2. Staying /\ OneSlotEach /\ AcceptedSlot /\ HandlerSlots /\ OneHandlerEach
  BY <1>1 DEF StayInv, Staying, Test
<1>3. Serve(s)
  BY <1>2 DEF OneSlotEach, Reclaim
<1>4. /\ slot[s].state = "requested"
      /\ slot'[s].state = "ready" /\ slot'[s].client = slot[s].client
      /\ \A t \in Slot \ {s} : slot'[t] = slot[t]
  <2>1. slot \in [Slot -> Row]
    BY DEF TypeOK, Row
  <2> QED
    BY <1>3, <2>1 DEF Serve, Row
<1>5. Test' = Test
  BY <1>1 DEF Test
<1>6. OneSlotEach'
  BY <1>1, <1>2, <1>4, <1>5 DEF OneSlotEach
<1>7. AcceptedSlot'
  <2>1. mn.slot \in Slot
    BY DEF TypeOK
  <2> QED
    BY <1>1, <1>2, <1>4, <2>1 DEF AcceptedSlot
<1>8. HandlerSlots' /\ OneHandlerEach'
  BY <1>1, <1>2, <1>4, <1>5 DEF HandlerSlots, ReadySlot, OneHandlerEach, Over
<1> QED
  BY <1>6, <1>7, <1>8

(* A handler stays with its client.                                        *)
LEMMA StayHandler ==
  ASSUME BenchInv, StayInv, BenchInv', NEW h \in DOMAIN handlers, HandlerStep(h)
  PROVE  StayInv'
<1> USE DEF BenchInv
<1> SUFFICES ASSUME Staying' PROVE (OneSlotEach /\ AcceptedSlot /\ HandlerSlots /\ OneHandlerEach)'
  BY DEF StayInv
<1>1. UNCHANGED <<slot, mn, test, cl>>
  BY DEF HandlerStep, HandlerHold, HandlerReceive, HandlerSend, mainVars, tableVars
<1>2. Staying /\ OneSlotEach /\ AcceptedSlot /\ HandlerSlots /\ OneHandlerEach
  BY <1>1 DEF StayInv, Staying, Test
<1>3. /\ DOMAIN handlers' = DOMAIN handlers
      /\ \A g \in DOMAIN handlers : handlers'[g].client = handlers[g].client
  <2>1. \A g \in DOMAIN handlers : handlers[g] \in Handler
    BY HandlerType, ElementOfSeq
  <2> QED
    BY <2>1 DEF HandlerStep, HandlerHold, HandlerReceive, HandlerSend, HandlerSet, Handler
<1>4. Test' = Test /\ (Over' <=> Over)
  BY <1>1 DEF Test, Over
<1>5. OneSlotEach' /\ AcceptedSlot'
  BY <1>1, <1>2, <1>4 DEF OneSlotEach, AcceptedSlot
<1>6. HandlerSlots' /\ OneHandlerEach'
  BY <1>1, <1>2, <1>3, <1>4 DEF HandlerSlots, ReadySlot, OneHandlerEach
<1> QED
  BY <1>5, <1>6

(* accept's looks at the row all see the same connection.                  *)
LEMMA StayAccept ==
  ASSUME BenchInv, StayInv, BenchInv',
         \/ AcceptCall \/ AcceptTake \/ AcceptSkip \/ AcceptNone \/ AcceptShms
         \/ AcceptId \/ AcceptAgain \/ AcceptState \/ SetRunFlag \/ JoinThreads
  PROVE  StayInv'
<1> USE DEF BenchInv
<1> SUFFICES ASSUME Staying' PROVE (OneSlotEach /\ AcceptedSlot /\ HandlerSlots /\ OneHandlerEach)'
  BY DEF StayInv
<1>1. UNCHANGED <<slot, handlers, test, cl>> /\ mn.pc # "register"
  BY DEF AcceptCall, AcceptTake, AcceptSkip, AcceptNone, AcceptShms, AcceptId, AcceptAgain,
    AcceptState, SetRunFlag, JoinThreads, tableVars
<1>2. Test' = Test /\ (Over' <=> Over)
  BY <1>1 DEF Test, Over
<1>3. Staying /\ OneSlotEach /\ AcceptedSlot /\ HandlerSlots /\ OneHandlerEach
  BY <1>1, <1>2 DEF StayInv, Staying
<1>4. OneSlotEach' /\ HandlerSlots' /\ OneHandlerEach'
  BY <1>1, <1>2, <1>3 DEF OneSlotEach, HandlerSlots, ReadySlot, OneHandlerEach
<1>5. mn \in MainThread /\ mn.slot \in Slot
  BY DEF TypeOK, MainThread
<1>6. AcceptedSlot'
  <2> USE <1>1, <1>3, <1>5 DEF AcceptedSlot, MainThread, MainGoto
  <2>1. CASE AcceptCall
    BY <2>1 DEF AcceptCall, Main
  <2>2. CASE AcceptTake
    BY <2>2 DEF AcceptTake
  <2>3. CASE AcceptSkip \/ AcceptNone \/ JoinThreads
    BY <2>3 DEF AcceptSkip, AcceptNone, JoinThreads
  <2>4. CASE AcceptShms
    BY <2>4 DEF AcceptShms, InRow, Created
  <2>5. CASE AcceptId
    BY <2>5 DEF AcceptId
  <2>6. CASE AcceptAgain
    BY <2>6 DEF AcceptAgain, InRow, Created
  <2>7. CASE AcceptState
    BY <2>7 DEF AcceptState, Created
  <2>8. CASE SetRunFlag
    BY <2>8, TestType DEF SetRunFlag, Phases
  <2> QED
    BY <2>1, <2>2, <2>3, <2>4, <2>5, <2>6, <2>7, <2>8
<1> QED
  BY <1>4, <1>6

(***************************************************************************)
(* The step that could start a second handler.  The handlers there are     *)
(* have slots that the server is attached to, the slot in accept's hands   *)
(* is not one of those, and a client has one slot only.                    *)
(***************************************************************************)
LEMMA StayAttach ==
  ASSUME BenchInv, StayInv, BenchInv', AcceptAttach
  PROVE  StayInv'
<1> USE DEF BenchInv
<1> SUFFICES ASSUME Staying' PROVE (OneSlotEach /\ AcceptedSlot /\ HandlerSlots /\ OneHandlerEach)'
  BY DEF StayInv
<1>1. mn.pc = "attach" /\ mn.slot \in Slot /\ UNCHANGED <<cl, test>>
  BY DEF AcceptAttach, TypeOK
<1>2. Test' = Test /\ (Over' <=> Over)
  BY <1>1 DEF Test, Over
<1>3. Staying /\ OneSlotEach /\ AcceptedSlot /\ HandlerSlots /\ OneHandlerEach
  BY <1>1, <1>2 DEF StayInv, Staying
<1>4. ReadySlot(mn.slot, mn.queues) /\ ~slot[mn.slot].server_attached
  BY <1>1, <1>3 DEF AcceptedSlot, ReadySlot
<1>5. /\ \A s \in Slot : /\ slot'[s].state = slot[s].state
                         /\ slot'[s].client = slot[s].client
      /\ slot'[mn.slot].server_attached
      /\ \A s \in Slot : slot[s].server_attached => slot'[s].server_attached
  <2>1. slot \in [Slot -> Row] /\ Created(mn.slot)
    BY <1>4 DEF TypeOK, Row, Created, ReadySlot
  <2>2. slot' = [slot EXCEPT ![mn.slot].server_attached = TRUE]
    BY <1>1, <2>1 DEF AcceptAttach
  <2> QED
    BY <1>1, <2>1, <2>2 DEF Row
<1>6. OneSlotEach'
  BY <1>1, <1>2, <1>3, <1>5 DEF OneSlotEach
<1>7. AcceptedSlot'
  <2>1. mn'.pc \in {"accept", "flag", "join"}
    BY <1>1, <1>3, TestType DEF AcceptAttach, CountContext, MainGoto, TypeOK, Staying, Phases
  <2> QED
    BY <2>1 DEF AcceptedSlot
<1>8. \A h \in DOMAIN handlers : handlers[h].client # mn.queues
  BY <1>1, <1>3, <1>4 DEF HandlerSlots, OneSlotEach, ReadySlot
<1>9. \/ handlers' = handlers
      \/ /\ DOMAIN handlers \subseteq DOMAIN handlers'
         /\ DOMAIN handlers' \subseteq DOMAIN handlers \cup {Len(handlers) + 1}
         /\ \A h \in DOMAIN handlers : handlers'[h] = handlers[h]
         /\ handlers'[Len(handlers) + 1].client = mn.queues
  <2> DEFINE r == [client |-> mn.queues, pc |-> "hold", i |-> 1, buf |-> 0]
  <2>1. handlers' = handlers \/ handlers' = Append(handlers, r)
    BY DEF AcceptAttach, CountContext
  <2>2. r \in Handler /\ r.client = mn.queues
    BY <1>1, Sizes DEF Handler, Phases
  <2>3. /\ handlers \in Seq(Handler) /\ Len(handlers) \in Nat
        /\ DOMAIN handlers = 1..Len(handlers)
    BY HandlerType
  <2> HIDE DEF r
  <2>4. CASE handlers' = Append(handlers, r)
    <3>1. /\ handlers' \in Seq(Handler) /\ Len(handlers') = Len(handlers) + 1
          /\ \A k \in 1..Len(handlers) : handlers'[k] = handlers[k]
          /\ handlers'[Len(handlers) + 1] = r
      BY <2>2, <2>3, <2>4, AppendProperties
    <3>2. DOMAIN handlers' = 1..(Len(handlers) + 1)
      BY <3>1, LenProperties
    <3> QED
      BY <2>2, <2>3, <3>1, <3>2
  <2> QED
    BY <2>1, <2>4
<1>10. HandlerSlots'
  <2> SUFFICES ASSUME NEW h \in DOMAIN handlers'
               PROVE  \E s \in Slot : ReadySlot(s, handlers[h].client)' /\ slot'[s].server_attached
    BY DEF HandlerSlots
  <2>1. CASE h \in DOMAIN handlers
    BY <2>1, <1>3, <1>5, <1>9 DEF HandlerSlots, ReadySlot
  <2>2. CASE h \notin DOMAIN handlers
    BY <2>2, <1>1, <1>4, <1>5, <1>9 DEF ReadySlot
  <2> QED
    BY <2>1, <2>2
<1>11. OneHandlerEach'
  BY <1>2, <1>3, <1>8, <1>9 DEF OneHandlerEach
<1> QED
  BY <1>6, <1>7, <1>10, <1>11

LEMMA StayStart ==
  ASSUME BenchInv, BenchInv', StartTest \/ EndTest
  PROVE  StayInv'
<1> USE DEF BenchInv
<1> SUFFICES ASSUME Staying' PROVE (OneSlotEach /\ AcceptedSlot /\ HandlerSlots /\ OneHandlerEach)'
  BY DEF StayInv
<1>1. StartTest
  BY DEF EndTest, Staying, Main
<1>2. mn.pc = "register" /\ UNCHANGED <<slot, handlers, test>>
  BY <1>1 DEF StartTest, tableVars
<1>3. DOMAIN handlers' = {} /\ \A s \in Slot : slot'[s].state = "free"
  <2>1. Len(handlers) = 0 /\ \A s \in Slot : slot[s] = Free
    BY <1>2 DEF Phases
  <2>2. DOMAIN handlers = {}
    BY <2>1, HandlerType
  <2> QED
    BY <1>2, <2>1, <2>2 DEF Free
<1>4. mn'.pc \in {"accept", "flag"}
  BY <1>1, TestType DEF StartTest, MainGoto, TypeOK
<1> QED
  BY <1>3, <1>4 DEF OneSlotEach, AcceptedSlot, HandlerSlots, OneHandlerEach

LEMMA NextStayInv == BenchInv /\ StayInv /\ BenchInv' /\ [Next]_vars => StayInv'
<1> SUFFICES ASSUME BenchInv, StayInv, BenchInv', [Next]_vars PROVE StayInv'
  OBVIOUS
<1>1. CASE MainStep
  BY <1>1, StayStart, StayAccept, StayAttach DEF MainStep, AcceptStep
<1>2. CASE PoolStep
  BY <1>2, StayPool DEF PoolStep
<1>3. ASSUME NEW c \in Client, ClientStep(c) PROVE StayInv'
  BY <1>3, StayClient, StayRequest DEF ClientStep
<1>4. ASSUME NEW h \in DOMAIN handlers, HandlerStep(h) PROVE StayInv'
  BY <1>4, StayHandler
<1>5. CASE UNCHANGED vars
  BY <1>5 DEF vars, tableVars, mainVars, StayInv, Staying, Test, OneSlotEach, AcceptedSlot,
    HandlerSlots, ReadySlot, OneHandlerEach, Over
<1> QED
  BY <1>1, <1>2, <1>3, <1>4, <1>5 DEF Next

-----------------------------------------------------------------------------
(* The RPC benchmark alone, and as the one of the benchmark programs that  *)
(* runs or has nothing left to do.                                         *)
LEMMA BenchInvariant == Spec \/ BenchSpec => [](BenchInv /\ StayInv)
<1>1. ASSUME NEW t \in 0..4 PROVE InitAfter(t) => BenchInv /\ StayInv
  BY InitBenchInv DEF InitAfter, Main, StayInv, Staying
<1>2. Init => BenchInv /\ StayInv
  BY <1>1 DEF Init
<1>3. BenchInit => BenchInv /\ StayInv
  <2>1. Len(bench_run_all) \in 0..4
    BY DEF bench_run_all
  <2> QED
    BY <1>1, <1>2, <2>1 DEF BenchInit
<1>4. BenchInv /\ StayInv /\ [Next]_vars => (BenchInv /\ StayInv)'
  BY NextBenchInv, NextStayInv
<1>5. [BenchNext]_<<rpcVars, queueVars>> => [Next]_vars
  BY DEF BenchNext, rpcVars
<1> QED
  BY <1>2, <1>3, <1>4, <1>5, PTL DEF Spec, BenchSpec

(***************************************************************************)
(* Types: accept's scan stays in the table, main never counts more than    *)
(* MAX_CLIENTS contexts into client_list, and no handler is started on a   *)
(* context without queues.                                                 *)
(***************************************************************************)
THEOREM TypeCorrect == Spec \/ BenchSpec => []TypeOK
<1>1. BenchInv => TypeOK
  BY DEF BenchInv
<1> QED
  BY <1>1, BenchInvariant, PTL

(***************************************************************************)
(* The assertion in the client loops (bench_rpc/src/bench.cpp) never fails,*)
(* for any number of clients and round trips: the answer a client reads is *)
(* the one to the request it just sent, also when a slot is reused.        *)
(***************************************************************************)
THEOREM AnswersMatch == Spec \/ BenchSpec => []EchoMatches
<1>1. BenchInv => EchoMatches
  BY DEF BenchInv
<1> QED
  BY <1>1, BenchInvariant, PTL

(***************************************************************************)
(* A connection's queues and its handlers hold one message, exactly while  *)
(* the client waits in client_receive_buf: a send never finds its queue    *)
(* full, whatever the capacity, even where a client that closed has got a  *)
(* second handler.                                                         *)
(***************************************************************************)
THEOREM MessageInOnePlace == Spec \/ BenchSpec => []OneInFlight
<1>1. BenchInv => OneInFlight
  <2> SUFFICES ASSUME BenchInv, NEW c \in Client
               PROVE  Len(queue[c].request) + Len(queue[c].response)
                        + Cardinality({h \in DOMAIN handlers : InHand(c, h)})
                      = IF cl[c].pc = "receive" THEN 1 ELSE 0
    BY DEF OneInFlight, InHand
  <2> DEFINE H == {h \in DOMAIN handlers : InHand(c, h)}
  <2>1. NoneInHand(c) => Cardinality(H) = 0
    <3> SUFFICES ASSUME NoneInHand(c) PROVE Cardinality(H) = 0
      OBVIOUS
    <3>1. H = {}
      BY DEF NoneInHand
    <3> QED
      BY <3>1, FS_EmptySet
  <2>2. Working(c) => Cardinality(H) = 1
    <3> SUFFICES ASSUME Working(c) PROVE Cardinality(H) = 1
      OBVIOUS
    <3>1. PICK h \in DOMAIN handlers :
            InHand(c, h) /\ \A g \in DOMAIN handlers : InHand(c, g) => g = h
      BY DEF Working
    <3>2. H = {h}
      BY <3>1
    <3> QED
      BY <3>2, FS_Singleton
  <2> HIDE DEF H
  <2>3. IF cl[c].pc = "receive" THEN Asked(c) \/ Working(c) \/ Answered(c) ELSE Quiet(c)
    BY DEF BenchInv, Flight
  <2>4. Asked(c) => Len(queue[c].request) + Len(queue[c].response) + Cardinality(H) = 1
    BY <2>1 DEF Asked, OneItem
  <2>5. Working(c) => Len(queue[c].request) + Len(queue[c].response) + Cardinality(H) = 1
    BY <2>2 DEF Working
  <2>6. Answered(c) => Len(queue[c].request) + Len(queue[c].response) + Cardinality(H) = 1
    BY <2>1 DEF Answered, OneItem
  <2>7. Quiet(c) => Len(queue[c].request) + Len(queue[c].response) + Cardinality(H) = 0
    BY <2>1 DEF Quiet
  <2> QED
    BY <2>3, <2>4, <2>5, <2>6, <2>7 DEF H
<1> QED
  BY <1>1, BenchInvariant, PTL

(***************************************************************************)
(* One handler for each connection while clients stay, although main calls *)
(* accept until it has counted MAX_CLIENTS contexts, accept returns a slot *)
(* again and again, and bsearch looks through a list that is not sorted:   *)
(* it is server_attached alone that keeps the second one out.              *)
(***************************************************************************)
THEOREM OneConsumerEach == Spec \/ BenchSpec => []OneHandlerEach
<1>1. BenchInv /\ StayInv => OneHandlerEach
  <2> SUFFICES ASSUME BenchInv, StayInv PROVE OneHandlerEach
    OBVIOUS
  <2>1. CASE mn.pc = "register"
    <3>1. DOMAIN handlers = {}
      BY <2>1, HandlerType DEF BenchInv, Phases
    <3> QED
      BY <3>1 DEF OneHandlerEach
  <2>2. CASE mn.pc # "register"
    BY <2>2 DEF StayInv, Staying, OneHandlerEach
  <2> QED
    BY <2>1, <2>2
<1> QED
  BY <1>1, BenchInvariant, PTL
=============================================================================
