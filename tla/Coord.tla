------------------------------- MODULE Coord --------------------------------
(***************************************************************************)
(* Connection set-up and tear-down in libnotnets (coord.cpp, the connection*)
(* half of rpc.cpp, the allocators, mem.cpp): clients open and close, the  *)
(* server's manage-pool thread gives every reserved slot a pair of queues  *)
(* and takes them back, and the server's own thread accepts and shuts down.*)
(*                                                                         *)
(* Only request_slot and the scan of accept take the mutex of the coord    *)
(* region.  The manage-pool thread, client_close and all that follows the  *)
(* scans run without it, so each of their looks at a row is a step.  A     *)
(* scan's look at one slot is one step: the flags it reads can only change *)
(* under it in ways that equal a change just before or just after.         *)
(*                                                                         *)
(* A client is its client_id, the hash of "Client Address + Nonce", used   *)
(* for one connection.  What travels through the queues is left to the     *)
(* queue modules; message_size is the same for all and left out.           *)
(***************************************************************************)
EXTENDS Integers, Sequences, FiniteSets

CONSTANTS
  Client,      (* the ids of the clients                                   *)
  SLOT_NUM,    (* rows of the coord region                                 *)
  TypeOf,      (* the queue type each client asks for                      *)
  Applications (* the applications considered: which clients close, and    *)
               (* which of accept and shutdown the server calls            *)

QUEUE_TYPE == {"POLL", "BOOST", "SEM"}
Slot == 0..(SLOT_NUM - 1)

ASSUME CoordAssumption ==
  /\ Client \subseteq Int
  /\ SLOT_NUM \in Nat \ {0}
  /\ TypeOf \in [Client -> QUEUE_TYPE]
  /\ Applications \subseteq [closers : SUBSET Client,
                              calls : SUBSET {"accept", "shutdown"}]

VARIABLES
  region,       (* the coord region: "none", "ready" or "removed"          *)
  mutex,        (* whether header->mutex is held                           *)
  accept_slot,  (* header->accept_slot                                     *)
  reserved,     (* header->available_slots[i].client_reserved              *)
  row,          (* header->slots[i]                                        *)
  shm,          (* the System V segments, shmid = position                 *)
  cl,           (* each client's thread                                    *)
  rn,           (* the thread running manage_pool                          *)
  sv,           (* the server's own thread                                 *)
  pool_state,   (* handler->manage_pool_state                              *)
  accepted      (* the contexts accept has returned                        *)

tableVars == <<accept_slot, reserved, row>>
serverVars == <<sv, accepted, pool_state>>
vars == <<region, mutex, tableVars, shm, cl, rn, serverVars>>

NoShm == [key |-> 0, shmid |-> 0]
NoShms == [request |-> NoShm, response |-> NoShm]

(* A row of fresh or memset memory.                                        *)
ZeroRow == [client_id |-> 0, type |-> "POLL", shm_created |-> FALSE,
            client_attached |-> FALSE, server_attached |-> FALSE,
            shms |-> NoShms, detach |-> FALSE]

NoConn == [request |-> 0, response |-> 0]

Init ==
  /\ region = "none"
  /\ mutex = FALSE
  /\ accept_slot = 0
  /\ reserved = [i \in Slot |-> FALSE]
  /\ row = [i \in Slot |-> ZeroRow]
  /\ shm = << >>
  /\ rn = [pc |-> "off", i |-> 0, type |-> "POLL"]
  /\ \E a \in Applications :
       /\ cl = [c \in Client |->
                  [pc |-> "start", slot |-> 0, i |-> 0, shms |-> NoShms,
                   conn |-> NoConn, closes |-> c \in a.closers]]
       /\ sv = [pc |-> "register", slot |-> 0, n |-> 0, type |-> "POLL",
                shms |-> NoShms, id |-> 0, calls |-> a.calls]
  /\ pool_state = "NOT_RUNNING"
  /\ accepted = {}

-----------------------------------------------------------------------------
(* System V shared memory behind shm_create, shm_attach and shm_remove.    *)
(* shmget returns the segment that has the key, and makes one if there is  *)
(* none.  IPC_RMID unlinks the key at once; the memory, and its shmid, go  *)
(* when no one is attached.  Neither side ever detaches from a queue.      *)

shm_create(mem, key) ==
  IF \E i \in DOMAIN mem : mem[i].linked /\ mem[i].key = key
    THEN [mem |-> mem,
          id  |-> CHOOSE i \in DOMAIN mem : mem[i].linked /\ mem[i].key = key]
    ELSE [mem |-> Append(mem, [key |-> key, linked |-> TRUE, mapped |-> FALSE,
                               format |-> "POLL"]),
          id  |-> Len(mem) + 1]

Attachable(mem, id) ==
  id \in DOMAIN mem /\ (mem[id].linked \/ mem[id].mapped)

(* A failed shmat returns the address -1.                                  *)
shm_attach(mem, id) == IF Attachable(mem, id) THEN id ELSE -1

Mapped(mem, ids) ==
  [i \in DOMAIN mem |->
     IF i \in ids /\ Attachable(mem, i) THEN [mem[i] EXCEPT !.mapped = TRUE]
     ELSE mem[i]]

shm_remove(mem, ids) ==
  [i \in DOMAIN mem |->
     IF i \in ids THEN [mem[i] EXCEPT !.linked = FALSE] ELSE mem[i]]

(* Integer division of C, towards zero.                                    *)
Quot(a, b) == IF a >= 0 THEN a \div b ELSE -((-a) \div b)

(* Get the segments of two keys and lay a queue of the type out in each.   *)
CreatePair(type, key1, key2) ==
  LET req == shm_create(shm, key1)
      rsp == shm_create(req.mem, key2)
  IN  [mem  |-> [i \in DOMAIN rsp.mem |->
                   IF i \in {req.id, rsp.id}
                     THEN [rsp.mem[i] EXCEPT !.format = type]
                     ELSE rsp.mem[i]],
       shms |-> [request  |-> [key |-> key1, shmid |-> req.id],
                 response |-> [key |-> key2, shmid |-> rsp.id]]]

hash_shm_allocator_one_key(id) == CreatePair("POLL", id, id)
hash_shm_allocator(id) == CreatePair("POLL", id, id + 1)
boost_shm_allocator(id) == CreatePair("BOOST", id, id + 1)
hash_sem_shm_allocator(id) == CreatePair("SEM", Quot(id, 2), Quot(id, 3))

allocation(type, id) ==
  CASE type = "POLL"  -> hash_shm_allocator(id)
    [] type = "BOOST" -> boost_shm_allocator(id)
    [] type = "SEM"   -> hash_sem_shm_allocator(id)

Ids(shms) == {shms.request.shmid, shms.response.shmid}
Unset(shms) == shms.request.key = 0 \/ shms.response.key = 0

(* check_slot: all zero unless shm_created.                                *)
check_slot(i) == IF row[i].shm_created THEN row[i].shms ELSE NoShms
get_client_id(i) == IF row[i].shm_created THEN row[i].client_id ELSE 0

(* The attach flags read as false, and stay as they are, while there are   *)
(* no queues.                                                              *)
get_client_attach_state(i) == row[i].shm_created /\ row[i].client_attached
get_server_attach_state(i) == row[i].shm_created /\ row[i].server_attached

set_client_attach_state(i) ==
  row' = [row EXCEPT ![i].client_attached = @ \/ row[i].shm_created]
set_server_attach_state(i) ==
  row' = [row EXCEPT ![i].server_attached = @ \/ row[i].shm_created]

-----------------------------------------------------------------------------
(* Client c: client_open and client_close                                  *)

Goto(c, pc) == cl' = [cl EXCEPT ![c].pc = pc]

(* coord_attach; with no region client_open returns NULL and is called     *)
(* again.                                                                  *)
CoordAttach(c) ==
  /\ cl[c].pc = "start"
  /\ region = "ready"
  /\ Goto(c, "lock")
  /\ UNCHANGED <<region, mutex, tableVars, shm, rn, serverVars>>

RequestLockUnguarded(c) ==
  /\ cl[c].pc = "lock"
  /\ mutex' = TRUE
  /\ cl' = [cl EXCEPT ![c].pc = "scan", ![c].slot = 0]
  /\ UNCHANGED <<region, tableVars, shm, rn, serverVars>>

RequestLock(c) ==
  /\ cl[c].pc = "lock"
  /\ ~mutex
  /\ mutex' = TRUE
  /\ cl' = [cl EXCEPT ![c].pc = "scan", ![c].slot = 0]
  /\ UNCHANGED <<region, tableVars, shm, rn, serverVars>>

RequestTake(c) ==
  /\ cl[c].pc = "scan"
  /\ ~reserved[cl[c].slot]
  /\ Goto(c, "write")
  /\ UNCHANGED <<region, mutex, tableVars, shm, rn, serverVars>>

RequestSkipUnbounded(c) ==
  /\ cl[c].pc = "scan"
  /\ reserved[cl[c].slot]
  /\ cl' = [cl EXCEPT ![c].slot = @ + 1]
  /\ UNCHANGED <<region, mutex, tableVars, shm, rn, serverVars>>

RequestSkip(c) ==
  /\ cl[c].pc = "scan"
  /\ reserved[cl[c].slot]
  /\ cl[c].slot + 1 \in Slot
  /\ cl' = [cl EXCEPT ![c].slot = @ + 1]
  /\ UNCHANGED <<region, mutex, tableVars, shm, rn, serverVars>>

(* No slot: request_slot returns -1 and client_open calls it again.        *)
RequestFail(c) ==
  /\ cl[c].pc = "scan"
  /\ reserved[cl[c].slot]
  /\ cl[c].slot + 1 \notin Slot
  /\ mutex' = FALSE
  /\ Goto(c, "lock")
  /\ UNCHANGED <<region, tableVars, shm, rn, serverVars>>

RequestWrite(c) ==
  /\ cl[c].pc = "write"
  /\ row' = [row EXCEPT ![cl[c].slot] =
               [@ EXCEPT !.client_id = c, !.detach = FALSE, !.type = TypeOf[c],
                         !.client_attached = FALSE, !.server_attached = FALSE,
                         !.shm_created = FALSE]]
  /\ Goto(c, "reserve")
  /\ UNCHANGED <<region, mutex, accept_slot, reserved, shm, rn, serverVars>>

RequestReserve(c) ==
  /\ cl[c].pc = "reserve"
  /\ reserved' = [reserved EXCEPT ![cl[c].slot] = TRUE]
  /\ mutex' = FALSE
  /\ Goto(c, "await")
  /\ UNCHANGED <<region, accept_slot, row, shm, rn, serverVars>>

OpenAwait(c) ==
  /\ cl[c].pc = "await"
  /\ row[cl[c].slot].shm_created
  /\ Goto(c, "pair")
  /\ UNCHANGED <<region, mutex, tableVars, shm, rn, serverVars>>

(* _create_client_queue_pair re-reads the row until both keys are set.     *)
OpenPair(c) ==
  /\ cl[c].pc = "pair"
  /\ ~Unset(check_slot(cl[c].slot))
  /\ cl' = [cl EXCEPT ![c].shms = check_slot(cl[c].slot), ![c].pc = "attach"]
  /\ UNCHANGED <<region, mutex, tableVars, shm, rn, serverVars>>

(* A slot whose client is attached already gives NULL addresses.           *)
OpenAttach(c) ==
  LET shms  == cl[c].shms
      twice == get_client_attach_state(cl[c].slot)
  IN  /\ cl[c].pc = "attach"
      /\ set_client_attach_state(cl[c].slot)
      /\ shm' = IF twice THEN shm ELSE Mapped(shm, Ids(shms))
      /\ cl' = [cl EXCEPT ![c].pc = "open",
                  ![c].conn = IF twice THEN NoConn ELSE
                    [request  |-> shm_attach(shm, shms.request.shmid),
                     response |-> shm_attach(shm, shms.response.shmid)]]
      /\ UNCHANGED <<region, mutex, accept_slot, reserved, rn, serverVars>>

CloseCall(c) ==
  /\ cl[c].pc = "open"
  /\ cl[c].closes
  /\ region = "ready"
  /\ cl' = [cl EXCEPT ![c].pc = "find", ![c].i = 0]
  /\ UNCHANGED <<region, mutex, tableVars, shm, rn, serverVars>>

(* coord_attach returned NULL, and client_close does not look.             *)
CloseCrash(c) ==
  /\ cl[c].pc = "open"
  /\ cl[c].closes
  /\ region = "removed"
  /\ Goto(c, "crashed")
  /\ UNCHANGED <<region, mutex, tableVars, shm, rn, serverVars>>

CloseSkip(c) ==
  /\ cl[c].pc = "find"
  /\ row[cl[c].i].client_id # c
  /\ cl' = IF cl[c].i + 1 \in Slot
             THEN [cl EXCEPT ![c].i = @ + 1]
             ELSE [cl EXCEPT ![c].pc = "notfound"]
  /\ UNCHANGED <<region, mutex, tableVars, shm, rn, serverVars>>

CloseFound(c) ==
  /\ cl[c].pc = "find"
  /\ row[cl[c].i].client_id = c
  /\ Goto(c, "detach")
  /\ UNCHANGED <<region, mutex, tableVars, shm, rn, serverVars>>

CloseDetach(c) ==
  /\ cl[c].pc = "detach"
  /\ row' = [row EXCEPT ![cl[c].i].detach = TRUE]
  /\ Goto(c, "closed")
  /\ UNCHANGED <<region, mutex, accept_slot, reserved, shm, rn, serverVars>>

ClientStep(c) ==
  \/ CoordAttach(c)
  \/ RequestLock(c)
  \/ RequestTake(c)
  \/ RequestSkip(c)
  \/ RequestFail(c)
  \/ RequestWrite(c)
  \/ RequestReserve(c)
  \/ OpenAwait(c)
  \/ OpenPair(c)
  \/ OpenAttach(c)
  \/ CloseCall(c)
  \/ CloseCrash(c)
  \/ CloseSkip(c)
  \/ CloseFound(c)
  \/ CloseDetach(c)

-----------------------------------------------------------------------------
(* manage_pool, one pass over the slots: run over and over by the          *)
(* manage-pool thread, and once more by shutdown.                          *)

(* After the last slot the manage-pool thread looks at pool_state again,   *)
(* and shutdown goes on.                                                   *)
NextSlot ==
  IF rn.i + 1 \in Slot THEN [rn EXCEPT !.i = @ + 1, !.pc = "type"]
  ELSE [rn EXCEPT !.i = 0, !.pc = IF sv.pc = "final" THEN "done" ELSE "loop"]

RunnerLoopSilent ==
  /\ rn.pc = "loop"
  /\ rn' = [rn EXCEPT !.pc = IF pool_state = "RUNNING_SHUTDOWN" THEN "off" ELSE "type"]
  /\ UNCHANGED <<region, mutex, tableVars, shm, cl, serverVars>>

RunnerLoop ==
  /\ rn.pc = "loop"
  /\ IF pool_state = "RUNNING_SHUTDOWN"
       THEN pool_state' = "NOT_RUNNING" /\ rn' = [rn EXCEPT !.pc = "off"]
       ELSE pool_state' = pool_state /\ rn' = [rn EXCEPT !.pc = "type"]
  /\ UNCHANGED <<region, mutex, tableVars, shm, cl, sv, accepted>>

(* The type picks the allocator before anything tells that the slot is     *)
(* taken.                                                                  *)
PoolType ==
  /\ rn.pc = "type"
  /\ rn' = [rn EXCEPT !.type = row[rn.i].type, !.pc = "service"]
  /\ UNCHANGED <<region, mutex, tableVars, shm, cl, serverVars>>

(* service_slot: allocate and write shms, then publish with shm_created.   *)
ServiceAllocate ==
  LET a == allocation(rn.type, row[rn.i].client_id)
  IN  /\ rn.pc = "service"
      /\ reserved[rn.i] /\ ~row[rn.i].shm_created
      /\ shm' = a.mem
      /\ row' = [row EXCEPT ![rn.i].shms = a.shms]
      /\ rn' = [rn EXCEPT !.pc = "publish"]
      /\ UNCHANGED <<region, mutex, accept_slot, reserved, cl, serverVars>>

ServicePublishForgotten ==
  /\ rn.pc = "publish"
  /\ rn' = [rn EXCEPT !.pc = "cleanup"]
  /\ UNCHANGED <<region, mutex, tableVars, shm, cl, serverVars>>

ServicePublish ==
  /\ rn.pc = "publish"
  /\ row' = [row EXCEPT ![rn.i].shm_created = TRUE]
  /\ rn' = [rn EXCEPT !.pc = "cleanup"]
  /\ UNCHANGED <<region, mutex, accept_slot, reserved, shm, cl, serverVars>>

ServiceNothing ==
  /\ rn.pc = "service"
  /\ ~(reserved[rn.i] /\ ~row[rn.i].shm_created)
  /\ rn' = [rn EXCEPT !.pc = "cleanup"]
  /\ UNCHANGED <<region, mutex, tableVars, shm, cl, serverVars>>

(* clean_up_queue_resources: destroy_semaphores reads the semaphores' ids  *)
(* from the two queues; after a failed attach it dereferences address -1.  *)
(* What becomes of the semaphores is the subject of SemSets.               *)
CleanUp ==
  LET sem == reserved[rn.i] /\ row[rn.i].detach /\ row[rn.i].type = "SEM"
  IN  /\ rn.pc = "cleanup"
      /\ rn' = [rn EXCEPT !.pc =
                  IF sem /\ \E k \in Ids(row[rn.i].shms) : ~Attachable(shm, k)
                    THEN "crashed" ELSE "clear"]
      /\ UNCHANGED <<region, mutex, tableVars, shm, cl, serverVars>>

ClearRowFrees ==
  /\ rn.pc = "clear"
  /\ row[rn.i].detach
  /\ shm' = IF row[rn.i].shm_created THEN shm_remove(shm, Ids(row[rn.i].shms)) ELSE shm
  /\ row' = [row EXCEPT ![rn.i] = ZeroRow]
  /\ reserved' = [reserved EXCEPT ![rn.i] = FALSE]
  /\ rn' = [rn EXCEPT !.pc = "free"]
  /\ UNCHANGED <<region, mutex, accept_slot, cl, serverVars>>

ClearRowLeaks ==
  /\ rn.pc = "clear"
  /\ row[rn.i].detach
  /\ row' = [row EXCEPT ![rn.i] = ZeroRow]
  /\ rn' = [rn EXCEPT !.pc = "free"]
  /\ UNCHANGED <<region, mutex, accept_slot, reserved, shm, cl, serverVars>>

(* clear_slot: remove the segments and wipe the row, then free the slot.   *)
ClearRow ==
  /\ rn.pc = "clear"
  /\ row[rn.i].detach
  /\ shm' = IF row[rn.i].shm_created THEN shm_remove(shm, Ids(row[rn.i].shms)) ELSE shm
  /\ row' = [row EXCEPT ![rn.i] = ZeroRow]
  /\ rn' = [rn EXCEPT !.pc = "free"]
  /\ UNCHANGED <<region, mutex, accept_slot, reserved, cl, serverVars>>

ClearFree ==
  /\ rn.pc = "free"
  /\ reserved' = [reserved EXCEPT ![rn.i] = FALSE]
  /\ rn' = NextSlot
  /\ UNCHANGED <<region, mutex, accept_slot, row, shm, cl, serverVars>>

ClearNothing ==
  /\ rn.pc = "clear"
  /\ ~row[rn.i].detach
  /\ rn' = NextSlot
  /\ UNCHANGED <<region, mutex, tableVars, shm, cl, serverVars>>

PoolStep ==
  \/ RunnerLoop
  \/ PoolType
  \/ ServiceAllocate
  \/ ServicePublish
  \/ ServiceNothing
  \/ CleanUp
  \/ ClearRow
  \/ ClearFree
  \/ ClearNothing

-----------------------------------------------------------------------------
(* The server's thread: register_server, accept, shutdown                  *)

ServerGoto(pc) == sv' = [sv EXCEPT !.pc = pc]

coord_create ==
  /\ region' = "ready"
  /\ accept_slot' = 0
  /\ reserved' = [i \in Slot |-> FALSE]
  /\ mutex' = FALSE

(* The region and the manage-pool thread.  One step: a client that finds   *)
(* the region while coord_create is still initialising it is left out.     *)
RegisterServer ==
  /\ sv.pc = "register"
  /\ coord_create
  /\ pool_state' = "RUNNING_NO_SHUTDOWN"
  /\ rn' = [rn EXCEPT !.pc = "loop"]
  /\ ServerGoto("serve")
  /\ UNCHANGED <<row, shm, cl, accepted>>

AcceptCall ==
  /\ sv.pc = "serve"
  /\ "accept" \in sv.calls
  /\ sv' = [sv EXCEPT !.pc = "lock", !.slot = accept_slot, !.n = 0]
  /\ UNCHANGED <<region, mutex, tableVars, shm, cl, rn, accepted, pool_state>>

AcceptLock ==
  /\ sv.pc = "lock"
  /\ ~mutex
  /\ mutex' = TRUE
  /\ ServerGoto("scan")
  /\ UNCHANGED <<region, tableVars, shm, cl, rn, accepted, pool_state>>

AcceptableUncreated(i) == ~row[i].detach /\ reserved[i]

Acceptable(i) == ~row[i].detach /\ reserved[i] /\ row[i].shm_created

AcceptTakeStays ==
  /\ sv.pc = "scan"
  /\ sv.n < SLOT_NUM
  /\ Acceptable(sv.slot)
  /\ accept_slot' = sv.slot
  /\ mutex' = FALSE
  /\ ServerGoto("type")
  /\ UNCHANGED <<region, reserved, row, shm, cl, rn, accepted, pool_state>>

AcceptTake ==
  /\ sv.pc = "scan"
  /\ sv.n < SLOT_NUM
  /\ Acceptable(sv.slot)
  /\ accept_slot' = (sv.slot + 1) % SLOT_NUM
  /\ mutex' = FALSE
  /\ ServerGoto("type")
  /\ UNCHANGED <<region, reserved, row, shm, cl, rn, accepted, pool_state>>

AcceptSkip ==
  /\ sv.pc = "scan"
  /\ sv.n < SLOT_NUM
  /\ ~Acceptable(sv.slot)
  /\ sv' = [sv EXCEPT !.slot = (@ + 1) % SLOT_NUM, !.n = @ + 1]
  /\ UNCHANGED <<region, mutex, tableVars, shm, cl, rn, accepted, pool_state>>

AcceptNone ==
  /\ sv.pc = "scan"
  /\ sv.n = SLOT_NUM
  /\ mutex' = FALSE
  /\ ServerGoto("serve")
  /\ UNCHANGED <<region, tableVars, shm, cl, rn, accepted, pool_state>>

(* From here on the mutex is not held.                                     *)
AcceptType ==
  /\ sv.pc = "type"
  /\ sv' = [sv EXCEPT !.type = row[sv.slot].type, !.pc = "shms"]
  /\ UNCHANGED <<region, mutex, tableVars, shm, cl, rn, accepted, pool_state>>

AcceptShms ==
  /\ sv.pc = "shms"
  /\ sv' = [sv EXCEPT !.shms = check_slot(sv.slot), !.pc = "id"]
  /\ UNCHANGED <<region, mutex, tableVars, shm, cl, rn, accepted, pool_state>>

AcceptId ==
  /\ sv.pc = "id"
  /\ sv' = [sv EXCEPT !.id = get_client_id(sv.slot),
                      !.pc = IF Unset(sv.shms) THEN "again" ELSE "state"]
  /\ UNCHANGED <<region, mutex, tableVars, shm, cl, rn, accepted, pool_state>>

(* ... while a key is 0.                                                   *)
AcceptAgain ==
  /\ sv.pc = "again"
  /\ ~Unset(check_slot(sv.slot))
  /\ sv' = [sv EXCEPT !.shms = check_slot(sv.slot), !.pc = "state"]
  /\ UNCHANGED <<region, mutex, tableVars, shm, cl, rn, accepted, pool_state>>

Returned == [sv EXCEPT !.pc = "serve", !.n = 0, !.type = "POLL",
                       !.shms = NoShms, !.id = 0]

(* A context for a slot the server is attached to already has NULL         *)
(* addresses; nobody can use it.                                           *)
AcceptState ==
  /\ sv.pc = "state"
  /\ sv' = IF get_server_attach_state(sv.slot) THEN Returned
           ELSE [sv EXCEPT !.pc = "attach"]
  /\ UNCHANGED <<region, mutex, tableVars, shm, cl, rn, accepted, pool_state>>

AcceptAttach ==
  /\ sv.pc = "attach"
  /\ set_server_attach_state(sv.slot)
  /\ shm' = Mapped(shm, Ids(sv.shms))
  /\ accepted' = accepted \cup
       {[id |-> sv.id, type |-> sv.type,
         request  |-> shm_attach(shm, sv.shms.request.shmid),
         response |-> shm_attach(shm, sv.shms.response.shmid)]}
  /\ sv' = Returned
  /\ UNCHANGED <<region, mutex, accept_slot, reserved, cl, rn, pool_state>>

(* shutdown: stop the manage-pool thread, mark every row, clear, delete.   *)
ShutdownSignal ==
  /\ sv.pc = "serve"
  /\ "shutdown" \in sv.calls
  /\ pool_state' = "RUNNING_SHUTDOWN"
  /\ ServerGoto("join")
  /\ UNCHANGED <<region, mutex, tableVars, shm, cl, rn, accepted>>

ShutdownJoin ==
  /\ sv.pc = "join"
  /\ pool_state = "NOT_RUNNING"
  /\ sv' = [sv EXCEPT !.pc = "mark", !.slot = 0]
  /\ UNCHANGED <<region, mutex, tableVars, shm, cl, rn, accepted, pool_state>>

ShutdownMarkFirst ==
  /\ sv.pc = "mark"
  /\ row' = [row EXCEPT ![sv.slot].detach = TRUE]
  /\ sv' = [sv EXCEPT !.pc = "final"]
  /\ rn' = [rn EXCEPT !.pc = "type"]
  /\ UNCHANGED <<region, mutex, accept_slot, reserved, shm, cl, accepted, pool_state>>

(* coord_shutdown, slot by slot; then manage_pool is called once.          *)
ShutdownMark ==
  /\ sv.pc = "mark"
  /\ row' = [row EXCEPT ![sv.slot].detach = TRUE]
  /\ IF sv.slot + 1 \in Slot
       THEN sv' = [sv EXCEPT !.slot = @ + 1] /\ rn' = rn
       ELSE sv' = [sv EXCEPT !.pc = "final"] /\ rn' = [rn EXCEPT !.pc = "type"]
  /\ UNCHANGED <<region, mutex, accept_slot, reserved, shm, cl, accepted, pool_state>>

CoordDelete ==
  /\ sv.pc = "final"
  /\ rn.pc = "done"
  /\ region' = "removed"
  /\ ServerGoto("done")
  /\ UNCHANGED <<mutex, tableVars, shm, cl, rn, accepted, pool_state>>

AcceptStep ==
  \/ AcceptLock
  \/ AcceptTake
  \/ AcceptSkip
  \/ AcceptNone
  \/ AcceptType
  \/ AcceptShms
  \/ AcceptId
  \/ AcceptAgain
  \/ AcceptState
  \/ AcceptAttach

ShutdownStep ==
  \/ ShutdownJoin
  \/ ShutdownMark
  \/ CoordDelete

ServerStep ==
  \/ RegisterServer
  \/ AcceptCall
  \/ AcceptStep
  \/ ShutdownSignal
  \/ ShutdownStep

Next ==
  \/ \E c \in Client : ClientStep(c)
  \/ PoolStep
  \/ ServerStep

Spec == Init /\ [][Next]_vars

(***************************************************************************)
(* Fairness.  Every thread keeps running.  A thread that waits for the     *)
(* mutex gets it: whoever holds it only scans the slots, and a client that *)
(* found none sleeps before it tries again.  Applications that close do so *)
(* in the end, and a server that accepts keeps accepting; nothing obliges  *)
(* a server to shut down.                                                  *)
(***************************************************************************)
Fairness ==
  /\ \A c \in Client : WF_vars(ClientStep(c)) /\ SF_vars(RequestLock(c))
  /\ WF_vars(PoolStep)
  /\ WF_vars(RegisterServer \/ AcceptCall)
  /\ WF_vars(AcceptStep) /\ SF_vars(AcceptLock)
  /\ WF_vars(ShutdownStep)

FairSpec == Spec /\ Fairness

-----------------------------------------------------------------------------
(* Properties                                                              *)

(* Types of the region, the segments and the threads.                      *)
TypeOK ==
  /\ region \in {"none", "ready", "removed"}
  /\ mutex \in BOOLEAN
  /\ accept_slot \in Slot
  /\ reserved \in [Slot -> BOOLEAN]
  /\ \A i \in Slot : /\ row[i].client_id \in Client \cup {0}
                      /\ row[i].type \in QUEUE_TYPE
  /\ \A c \in Client : /\ cl[c].pc \in {"start", "lock", "scan", "write", "reserve",
                             "await", "pair", "attach", "open", "find",
                             "notfound", "detach", "closed", "crashed"}
                        /\ cl[c].slot \in Slot /\ cl[c].i \in Slot
  /\ rn.pc \in {"off", "loop", "type", "service", "publish", "cleanup",
                "clear", "free", "done", "crashed"}
  /\ rn.i \in Slot
  /\ sv.pc \in {"register", "serve", "lock", "scan", "type", "shms",
                "id", "again", "state", "attach", "join", "mark", "final", "done"}
  /\ pool_state \in {"NOT_RUNNING", "RUNNING_NO_SHUTDOWN", "RUNNING_SHUTDOWN"}

(* Until shutdown starts to mark the rows.                                 *)
Serving == sv.pc \notin {"mark", "final", "done"}

Holds(c) == cl[c].pc \in {"await", "pair", "attach", "open", "find", "detach"}
Connected(c) == cl[c].pc \in {"open", "find", "detach"}

(***************************************************************************)
(* From the moment request_slot returns to the moment client_close marks   *)
(* the row, a client's slot stays reserved under its id and is not marked: *)
(* no other client is given it and manage_pool does not clear it, although *)
(* manage_pool works without the mutex.                                    *)
(***************************************************************************)
ReservationKept ==
  \A c \in Client : Holds(c) /\ Serving =>
    LET r == row[cl[c].slot]
    IN  reserved[cl[c].slot] /\ r.client_id = c /\ ~r.detach

(***************************************************************************)
(* A client's open connection is attached to two different live segments,  *)
(* the ones its row names, until the client closes.                        *)
(***************************************************************************)
OpenQueuesLive ==
  \A c \in Client : Connected(c) /\ Serving =>
    LET q == {cl[c].conn.request, cl[c].conn.response}
    IN  /\ Cardinality(q) = 2
        /\ q = Ids(row[cl[c].slot].shms)
        /\ \A k \in q : k \in DOMAIN shm /\ shm[k].linked

(* A slot whose row manage_pool has wiped counts as free already.          *)
SlotView ==
  [i \in Slot |->
     LET r == row[i]
         T == INSTANCE SlotTable WITH slot <- << >>, Queue <- {}
     IN  IF ~reserved[i] \/ (rn.pc = "free" /\ rn.i = i) THEN T!Free
         ELSE IF r.detach THEN T!Closing(r.client_id, Ids(r.shms))
         ELSE IF r.shm_created THEN T!Ready(r.client_id, Ids(r.shms))
         ELSE T!Requested(r.client_id)]

Table == INSTANCE SlotTable WITH
  slot  <- SlotView,
  Queue <- 1..(2 * Cardinality(Client))

(***************************************************************************)
(* Refinement: up to shutdown, the rows and flags that clients, manage_pool*)
(* and accept write without a common lock behave as the slot table.        *)
(***************************************************************************)
SlotTableSpec == Table!TableSpec

(***************************************************************************)
(* client_open returns, when the clients ahead of it close.                *)
(***************************************************************************)
OpenReturns == \A c \in Client : (cl[c].pc = "lock") ~> (cl[c].pc = "open")

KeysOf(c) == {c, c + 1, Quot(c, 2), Quot(c, 3)}

SegmentsOf(c) == {i \in DOMAIN shm : shm[i].linked /\ shm[i].key \in KeysOf(c)}

(***************************************************************************)
(* What a closed client held is given back: its segments are removed and   *)
(* no row carries its id.                                                  *)
(***************************************************************************)
Reclaimed ==
  \A c \in Client : (cl[c].pc = "closed") ~>
    (SegmentsOf(c) = {} /\ \A i \in Slot : row[i].client_id # c)

EveryoneStays == \A c \in Client : ~cl[c].closes

(***************************************************************************)
(* The server's end of a connection is one client's: the id, the type and  *)
(* both queues that accept returned all belong to the same client, while   *)
(* manage_pool serves and other clients reserve slots without the mutex    *)
(* that accept has given up.  A client that closes can break it.           *)
(***************************************************************************)
AcceptedIsOneClient ==
  EveryoneStays => \A a \in accepted :
    /\ a.id \in Client
    /\ a.type = TypeOf[a.id]
    /\ \A k \in {a.request, a.response} :
         k \in DOMAIN shm /\ shm[k].key \in KeysOf(a.id)

(***************************************************************************)
(* Round robin: a server that keeps accepting gets every open connection   *)
(* in the end, when no client closes.                                      *)
(***************************************************************************)
EveryoneAccepted ==
  \A c \in Client :
    (cl[c].pc = "open" /\ "accept" \in sv.calls /\ EveryoneStays) ~>
    (\E a \in accepted : a.id = c /\ a.request = cl[c].conn.request)

(* accept returns.                                                         *)
AcceptReturns == (sv.pc = "lock") ~> (sv.pc = "serve")

(***************************************************************************)
(* The queues of every connection that was open when shutdown was called   *)
(* are removed, whatever other clients do meanwhile.                       *)
(***************************************************************************)
ShutdownTakesDownOpen ==
  \A c \in Client : (Connected(c) /\ sv.pc = "join") ~> (SegmentsOf(c) = {})

(* shutdown, once called, returns.                                         *)
ShutdownReturns == (sv.pc = "join") ~> (sv.pc = "done")

(* The queues a client is given are of the type it asked for.              *)
QueuesMatchType ==
  \A c \in Client : cl[c].pc = "open" =>
    \A k \in Ids(cl[c].shms) : shm[k].format = TypeOf[c]
=============================================================================
