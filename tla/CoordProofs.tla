---------------------------- MODULE CoordProofs -----------------------------
(***************************************************************************)
(* Proofs about Coord, for every set of clients, number of slots, choice   *)
(* of queue types and set of applications.                                 *)
(***************************************************************************)
EXTENDS Coord, SequenceTheorems, FiniteSetTheorems, TLAPS

ShmInfo == [key : Int, shmid : Nat]
ShmPair == [request : ShmInfo, response : ShmInfo]
Segment == [key : Int, linked : BOOLEAN, mapped : BOOLEAN, format : QUEUE_TYPE]
RowType == [client_id : Client \cup {0}, type : QUEUE_TYPE, shm_created : BOOLEAN,
            client_attached : BOOLEAN, server_attached : BOOLEAN,
            shms : ShmPair, detach : BOOLEAN]
ClientThread ==
  [pc : {"start", "lock", "scan", "write", "reserve", "await", "pair", "attach", "open",
         "find", "notfound", "detach", "closed", "crashed"},
   slot : Slot, i : Slot, shms : ShmPair, conn : [request : Int, response : Int],
   closes : BOOLEAN]
Runner ==
  [pc : {"off", "loop", "type", "service", "publish", "cleanup", "clear", "free", "done",
         "crashed"},
   i : Slot, type : QUEUE_TYPE]
Server ==
  [pc : {"register", "serve", "lock", "scan", "type", "shms", "id", "again", "state",
         "attach", "join", "mark", "final", "done"},
   slot : Slot, n : 0..SLOT_NUM, type : QUEUE_TYPE, shms : ShmPair,
   id : Client \cup {0}, calls : SUBSET {"accept", "shutdown"}]

(* TypeOK and the types it leaves out.                                     *)
Types ==
  /\ region \in {"none", "ready", "removed"}
  /\ mutex \in BOOLEAN
  /\ accept_slot \in Slot
  /\ reserved \in [Slot -> BOOLEAN]
  /\ row \in [Slot -> RowType]
  /\ shm \in Seq(Segment)
  /\ cl \in [Client -> ClientThread]
  /\ rn \in Runner
  /\ sv \in Server
  /\ pool_state \in {"NOT_RUNNING", "RUNNING_NO_SHUTDOWN", "RUNNING_SHUTDOWN"}

-----------------------------------------------------------------------------
(* Slots, and the segments behind them                                     *)

LEMMA Slots ==
  /\ SLOT_NUM \in Nat /\ SLOT_NUM >= 1 /\ 0 \in Slot
  /\ Slot \subseteq Nat
  /\ \A s \in Slot : (s + 1) % SLOT_NUM \in Slot
BY CoordAssumption DEF Slot

LEMMA ClientIds == Client \subseteq Int /\ \A c \in Client : TypeOf[c] \in QUEUE_TYPE
BY CoordAssumption

LEMMA QuotType ==
  ASSUME NEW a \in Int, NEW b \in {2, 3}
  PROVE  Quot(a, b) \in Int
BY DEF Quot

LEMMA QuotZero == Quot(0, 2) = 0 /\ Quot(0, 3) = 0
BY DEF Quot

(* shm_create returns a linked segment of the key: the one that had it, or *)
(* a new one.  The others stay as they are.                                *)
LEMMA ShmCreate ==
  ASSUME NEW mem \in Seq(Segment), NEW key \in Int
  PROVE  LET r == shm_create(mem, key)
         IN  /\ r.mem \in Seq(Segment)
             /\ r.id \in DOMAIN r.mem /\ r.id \in Nat
             /\ r.mem[r.id].linked /\ r.mem[r.id].key = key
             /\ DOMAIN mem \subseteq DOMAIN r.mem
             /\ Len(r.mem) \in Nat /\ Len(mem) <= Len(r.mem) /\ Len(r.mem) <= Len(mem) + 1
             /\ \A k \in DOMAIN mem : r.mem[k] = mem[k]
             /\ \A k \in DOMAIN r.mem : k \in DOMAIN mem \/ k = r.id
             /\ r.id \in DOMAIN mem \/
                  ~\E k \in DOMAIN mem : mem[k].linked /\ mem[k].key = key
<1> DEFINE r == shm_create(mem, key)
           seg == [key |-> key, linked |-> TRUE, mapped |-> FALSE, format |-> "POLL"]
           Has(i) == mem[i].linked /\ mem[i].key = key
<1>0. Len(mem) \in Nat /\ DOMAIN mem = 1..Len(mem)
  BY LenProperties
<1>1. CASE \E i \in DOMAIN mem : Has(i)
  <2>1. PICK k \in DOMAIN mem : k = (CHOOSE i \in DOMAIN mem : Has(i))
    BY <1>1
  <2>2. Has(k)
    BY <1>1, <2>1
  <2>3. r.mem = mem /\ r.id = k
    BY <1>1, <2>1 DEF shm_create
  <2> QED
    BY <1>0, <2>2, <2>3
<1>2. CASE ~\E i \in DOMAIN mem : Has(i)
  <2>1. seg \in Segment /\ seg.linked /\ seg.key = key
    BY DEF Segment, QUEUE_TYPE
  <2>2. r.mem = Append(mem, seg) /\ r.id = Len(mem) + 1
    BY <1>2 DEF shm_create
  <2> HIDE DEF seg
  <2> DEFINE new == Append(mem, seg)
  <2>3. /\ new \in Seq(Segment) /\ Len(new) = Len(mem) + 1
        /\ \A k \in 1..Len(mem) : new[k] = mem[k]
        /\ new[Len(mem) + 1] = seg
    BY <2>1, AppendProperties
  <2>4. DOMAIN new = 1..(Len(mem) + 1)
    BY <2>3, LenProperties
  <2> HIDE DEF new
  <2>5. r.mem = new
    BY <2>2 DEF new
  <2> QED
    BY <1>0, <1>2, <2>1, <2>2, <2>3, <2>4, <2>5
<1> QED
  BY <1>1, <1>2

LEMMA MapSeq ==
  ASSUME NEW S, NEW n \in Nat, NEW f \in [1..n -> S]
  PROVE  f \in Seq(S) /\ Len(f) = n
<1>1. f \in Seq(S)
  BY SeqDef
<1>2. Len(f) \in Nat /\ DOMAIN f = 1..Len(f) /\ DOMAIN f = 1..n
  BY <1>1, LenProperties
<1> QED
  BY <1>1, <1>2

(* What a step leaves of every segment: its shmid and its key.             *)
KeepsKeys(mem, new) ==
  /\ DOMAIN mem \subseteq DOMAIN new
  /\ \A k \in DOMAIN mem : new[k].key = mem[k].key

(* Linked segments have different keys.                                    *)
UniqueKeys(mem) ==
  \A j, k \in DOMAIN mem :
    mem[j].linked /\ mem[k].linked /\ mem[j].key = mem[k].key => j = k

(* Two segments under the two keys, beside those that were there.          *)
PairMade(a, key1, key2) ==
  /\ a.mem \in Seq(Segment) /\ a.shms \in ShmPair
  /\ KeepsKeys(shm, a.mem)
  /\ Len(a.mem) \in Nat /\ Len(shm) \in Nat
  /\ Len(shm) <= Len(a.mem) /\ Len(a.mem) <= Len(shm) + 2
  /\ \A k \in DOMAIN shm : a.mem[k].linked = shm[k].linked
  /\ \A k \in DOMAIN a.mem : k \in DOMAIN shm \/ k \in Ids(a.shms)
  /\ a.shms.request.key = key1 /\ a.shms.response.key = key2
  /\ a.shms.request.shmid \in DOMAIN a.mem
  /\ a.mem[a.shms.request.shmid].linked
  /\ a.mem[a.shms.request.shmid].key = key1
  /\ a.shms.response.shmid \in DOMAIN a.mem
  /\ a.mem[a.shms.response.shmid].linked
  /\ a.mem[a.shms.response.shmid].key = key2
  /\ UniqueKeys(shm) => UniqueKeys(a.mem)

LEMMA PairCreated ==
  ASSUME Types, NEW type \in QUEUE_TYPE, NEW key1 \in Int, NEW key2 \in Int
  PROVE  PairMade(CreatePair(type, key1, key2), key1, key2)
<1> DEFINE req == shm_create(shm, key1)
           rsp == shm_create(req.mem, key2)
           mem == [i \in DOMAIN rsp.mem |->
                     IF i \in {req.id, rsp.id} THEN [rsp.mem[i] EXCEPT !.format = type]
                     ELSE rsp.mem[i]]
           shms == [request  |-> [key |-> key1, shmid |-> req.id],
                    response |-> [key |-> key2, shmid |-> rsp.id]]
           a == CreatePair(type, key1, key2)
<1>0. a.mem = mem /\ a.shms = shms
  BY DEF CreatePair
<1>1. shm \in Seq(Segment) /\ Len(shm) \in Nat /\ DOMAIN shm = 1..Len(shm)
  BY LenProperties DEF Types
<1>2. /\ req.mem \in Seq(Segment)
      /\ req.id \in DOMAIN req.mem /\ req.id \in Nat
      /\ req.mem[req.id].linked /\ req.mem[req.id].key = key1
      /\ DOMAIN shm \subseteq DOMAIN req.mem
      /\ Len(req.mem) \in Nat /\ Len(shm) <= Len(req.mem) /\ Len(req.mem) <= Len(shm) + 1
      /\ \A k \in DOMAIN shm : req.mem[k] = shm[k]
      /\ \A k \in DOMAIN req.mem : k \in DOMAIN shm \/ k = req.id
      /\ req.id \in DOMAIN shm \/ ~\E k \in DOMAIN shm : shm[k].linked /\ shm[k].key = key1
  <2>1. PICK m \in Seq(Segment) : m = shm
    BY <1>1
  <2>2. req = shm_create(m, key1)
    BY <2>1
  <2> HIDE DEF req
  <2> QED
    BY <2>1, <2>2, ShmCreate
<1> HIDE DEF req
<1>3. /\ rsp.mem \in Seq(Segment)
      /\ rsp.id \in DOMAIN rsp.mem /\ rsp.id \in Nat
      /\ rsp.mem[rsp.id].linked /\ rsp.mem[rsp.id].key = key2
      /\ DOMAIN req.mem \subseteq DOMAIN rsp.mem
      /\ Len(rsp.mem) \in Nat /\ Len(req.mem) <= Len(rsp.mem)
      /\ Len(rsp.mem) <= Len(req.mem) + 1
      /\ \A k \in DOMAIN req.mem : rsp.mem[k] = req.mem[k]
      /\ \A k \in DOMAIN rsp.mem : k \in DOMAIN req.mem \/ k = rsp.id
      /\ rsp.id \in DOMAIN req.mem \/
           ~\E k \in DOMAIN req.mem : req.mem[k].linked /\ req.mem[k].key = key2
  <2>1. PICK m \in Seq(Segment) : m = req.mem
    BY <1>2
  <2>2. rsp = shm_create(m, key2)
    BY <2>1
  <2> HIDE DEF rsp
  <2> QED
    BY <2>1, <2>2, ShmCreate
<1> HIDE DEF rsp
<1>4. DOMAIN rsp.mem = 1..Len(rsp.mem) /\ \A k \in DOMAIN rsp.mem : rsp.mem[k] \in Segment
  BY <1>3, LenProperties, ElementOfSeq
<1>5. /\ DOMAIN mem = DOMAIN rsp.mem
      /\ \A k \in DOMAIN mem : /\ mem[k] \in Segment
                               /\ mem[k].key = rsp.mem[k].key
                               /\ mem[k].linked = rsp.mem[k].linked
  BY <1>4 DEF Segment
<1>6. mem \in [1..Len(rsp.mem) -> Segment]
  BY <1>4, <1>5
<1> HIDE DEF mem
<1>7. mem \in Seq(Segment) /\ Len(mem) = Len(rsp.mem)
  BY <1>3, <1>6, MapSeq
<1>8. shms \in ShmPair
  BY <1>2, <1>3 DEF ShmPair, ShmInfo
<1>9. UniqueKeys(shm) => UniqueKeys(mem)
  <2>1. UniqueKeys(shm) => UniqueKeys(req.mem)
    BY <1>2 DEF UniqueKeys
  <2>2. ASSUME UniqueKeys(req.mem) PROVE UniqueKeys(rsp.mem)
    <3>1. CASE rsp.id \in DOMAIN req.mem
      BY <1>3, <2>2, <3>1 DEF UniqueKeys
    <3>2. CASE ~\E k \in DOMAIN req.mem : req.mem[k].linked /\ req.mem[k].key = key2
      BY <1>3, <2>2, <3>2 DEF UniqueKeys
    <3> QED
      BY <1>3, <3>1, <3>2
  <2>3. UniqueKeys(rsp.mem) => UniqueKeys(mem)
    BY <1>5 DEF UniqueKeys
  <2> QED
    BY <2>1, <2>2, <2>3
<1>10. KeepsKeys(shm, mem) /\ \A k \in DOMAIN shm : mem[k].linked = shm[k].linked
  <2>1. \A k \in DOMAIN shm : k \in DOMAIN rsp.mem /\ rsp.mem[k] = shm[k]
    BY <1>2, <1>3
  <2>2. \A k \in DOMAIN shm : /\ k \in DOMAIN mem /\ mem[k].key = shm[k].key
                              /\ mem[k].linked = shm[k].linked
    BY <1>5, <2>1
  <2> QED
    BY <2>2 DEF KeepsKeys
<1>11. /\ mem[req.id].linked /\ mem[req.id].key = key1 /\ req.id \in DOMAIN mem
       /\ mem[rsp.id].linked /\ mem[rsp.id].key = key2 /\ rsp.id \in DOMAIN mem
  BY <1>2, <1>3, <1>5
<1>12. \A k \in DOMAIN mem : k \in DOMAIN shm \/ k \in Ids(shms)
  BY <1>2, <1>3, <1>5 DEF Ids
<1>13. Len(shm) <= Len(mem) /\ Len(mem) <= Len(shm) + 2 /\ Len(mem) \in Nat
  BY <1>1, <1>2, <1>3, <1>7
<1> HIDE DEF a
<1>14. PairMade(a, key1, key2)
  BY <1>0, <1>1, <1>7, <1>8, <1>9, <1>10, <1>11, <1>12, <1>13 DEF PairMade
<1> QED
  BY <1>14 DEF a

(* The keys an allocator gives a client id, and the segments behind them.  *)
OwnKeys(shms, id) ==
  \/ shms.request.key = id /\ shms.response.key = id + 1
  \/ shms.request.key = Quot(id, 2) /\ shms.response.key = Quot(id, 3)

Backed(mem, shms) ==
  /\ shms.request.shmid \in DOMAIN mem /\ mem[shms.request.shmid].linked
  /\ mem[shms.request.shmid].key = shms.request.key
  /\ shms.response.shmid \in DOMAIN mem /\ mem[shms.response.shmid].linked
  /\ mem[shms.response.shmid].key = shms.response.key

LEMMA Allocation ==
  ASSUME Types, NEW type \in QUEUE_TYPE, NEW id \in Client \cup {0}
  PROVE  LET a == allocation(type, id)
         IN  /\ a.mem \in Seq(Segment) /\ a.shms \in ShmPair
             /\ KeepsKeys(shm, a.mem)
             /\ Len(a.mem) \in Nat /\ Len(shm) \in Nat
             /\ Len(shm) <= Len(a.mem) /\ Len(a.mem) <= Len(shm) + 2
             /\ \A k \in DOMAIN shm : a.mem[k].linked = shm[k].linked
             /\ \A k \in DOMAIN a.mem : k \in DOMAIN shm \/ k \in Ids(a.shms)
             /\ OwnKeys(a.shms, id) /\ Backed(a.mem, a.shms)
             /\ UniqueKeys(shm) => UniqueKeys(a.mem)
<1>1. id \in Int /\ id + 1 \in Int /\ Quot(id, 2) \in Int /\ Quot(id, 3) \in Int
  BY ClientIds, QuotType
<1>2. PICK key1 \in Int, key2 \in Int :
        /\ allocation(type, id) = CreatePair(type, key1, key2)
        /\ \/ key1 = id /\ key2 = id + 1
           \/ key1 = Quot(id, 2) /\ key2 = Quot(id, 3)
  <2>1. CASE type = "POLL"
    BY <1>1, <2>1 DEF allocation, hash_shm_allocator
  <2>2. CASE type = "BOOST"
    BY <1>1, <2>2 DEF allocation, boost_shm_allocator
  <2>3. CASE type = "SEM"
    BY <1>1, <2>3 DEF allocation, hash_sem_shm_allocator
  <2> QED
    BY <2>1, <2>2, <2>3 DEF QUEUE_TYPE
<1>3. PICK a : a = allocation(type, id)
  OBVIOUS
<1>4. PairMade(a, key1, key2)
  <2>1. PairMade(CreatePair(type, key1, key2), key1, key2)
    BY PairCreated
  <2> QED
    BY <1>2, <1>3, <2>1
<1>5. OwnKeys(a.shms, id) /\ Backed(a.mem, a.shms)
  BY <1>2, <1>4 DEF PairMade, OwnKeys, Backed
<1> QED
  BY <1>3, <1>4, <1>5 DEF PairMade

(* shmat and IPC_RMID on some of the segments.                             *)
LEMMA ShmMapped ==
  ASSUME NEW mem \in Seq(Segment), NEW ids
  PROVE  /\ Mapped(mem, ids) \in Seq(Segment) /\ KeepsKeys(mem, Mapped(mem, ids))
         /\ DOMAIN Mapped(mem, ids) = DOMAIN mem /\ Len(Mapped(mem, ids)) = Len(mem)
         /\ \A k \in DOMAIN mem : Mapped(mem, ids)[k].linked = mem[k].linked
<1> DEFINE new == Mapped(mem, ids)
<1>1. Len(mem) \in Nat /\ DOMAIN mem = 1..Len(mem) /\ \A k \in DOMAIN mem : mem[k] \in Segment
  BY LenProperties, ElementOfSeq
<1>2. /\ DOMAIN new = DOMAIN mem
      /\ \A k \in DOMAIN mem : /\ new[k] \in Segment /\ new[k].key = mem[k].key
                               /\ new[k].linked = mem[k].linked
  BY <1>1 DEF Mapped, Segment
<1>3. new \in [1..Len(mem) -> Segment]
  BY <1>1, <1>2 DEF Mapped
<1>4. new \in Seq(Segment) /\ Len(new) = Len(mem)
  BY <1>1, <1>3, MapSeq
<1> QED
  BY <1>2, <1>4 DEF KeepsKeys

LEMMA ShmRemoved ==
  ASSUME NEW mem \in Seq(Segment), NEW ids
  PROVE  /\ shm_remove(mem, ids) \in Seq(Segment) /\ KeepsKeys(mem, shm_remove(mem, ids))
         /\ DOMAIN shm_remove(mem, ids) = DOMAIN mem /\ Len(shm_remove(mem, ids)) = Len(mem)
         /\ \A k \in DOMAIN mem :
              shm_remove(mem, ids)[k].linked <=> mem[k].linked /\ k \notin ids
<1> DEFINE new == shm_remove(mem, ids)
<1>1. Len(mem) \in Nat /\ DOMAIN mem = 1..Len(mem) /\ \A k \in DOMAIN mem : mem[k] \in Segment
  BY LenProperties, ElementOfSeq
<1>2. /\ DOMAIN new = DOMAIN mem
      /\ \A k \in DOMAIN mem : /\ new[k] \in Segment /\ new[k].key = mem[k].key
                               /\ new[k].linked <=> mem[k].linked /\ k \notin ids
  BY <1>1 DEF shm_remove, Segment
<1>3. new \in [1..Len(mem) -> Segment]
  BY <1>1, <1>2 DEF shm_remove
<1>4. new \in Seq(Segment) /\ Len(new) = Len(mem)
  BY <1>1, <1>3, MapSeq
<1> QED
  BY <1>2, <1>4 DEF KeepsKeys

LEMMA RowTypes ==
  /\ NoShms \in ShmPair
  /\ ZeroRow \in RowType
  /\ ZeroRow.client_id = 0 /\ ZeroRow.shm_created = FALSE /\ ZeroRow.detach = FALSE
<1>1. NoShms \in ShmPair
  BY DEF NoShms, NoShm, ShmPair, ShmInfo
<1> QED
  BY <1>1 DEF ZeroRow, RowType, QUEUE_TYPE

-----------------------------------------------------------------------------
(* Types are kept                                                          *)

LEMMA CheckSlotType ==
  ASSUME Types, NEW i \in Slot
  PROVE  /\ check_slot(i) \in ShmPair
         /\ get_client_id(i) \in Client \cup {0}
BY RowTypes DEF check_slot, get_client_id, Types, RowType

LEMMA ShmAttachType ==
  ASSUME Types, NEW id \in Nat
  PROVE  shm_attach(shm, id) \in Int
BY DEF shm_attach

LEMMA ClientTypes ==
  ASSUME Types, NEW c \in Client, ClientStep(c)
  PROVE  Types'
<1>0. /\ cl \in [Client -> ClientThread] /\ row \in [Slot -> RowType]
      /\ cl[c] \in ClientThread /\ cl[c].slot \in Slot /\ cl[c].i \in Slot
      /\ cl[c].shms \in ShmPair
  BY DEF Types, ClientThread
<1>1. cl' \in [Client -> ClientThread]
  <2> USE <1>0 DEF Goto
  <2>1. CASE CoordAttach(c) \/ RequestTake(c) \/ RequestFail(c) \/ RequestWrite(c)
             \/ RequestReserve(c) \/ OpenAwait(c) \/ CloseCrash(c) \/ CloseFound(c)
             \/ CloseDetach(c)
    BY <2>1 DEF CoordAttach, RequestTake, RequestFail, RequestWrite, RequestReserve,
      OpenAwait, CloseCrash, CloseFound, CloseDetach, ClientThread
  <2>2. CASE RequestLock(c) \/ RequestSkip(c) \/ CloseCall(c) \/ CloseSkip(c)
    BY <2>2, Slots DEF RequestLock, RequestSkip, CloseCall, CloseSkip, ClientThread
  <2>3. CASE OpenPair(c)
    BY <2>3, CheckSlotType DEF OpenPair, ClientThread
  <2>4. CASE OpenAttach(c)
    <3> DEFINE conn == IF get_client_attach_state(cl[c].slot) THEN NoConn ELSE
                         [request  |-> shm_attach(shm, cl[c].shms.request.shmid),
                          response |-> shm_attach(shm, cl[c].shms.response.shmid)]
    <3>1. conn \in [request : Int, response : Int]
      BY ShmAttachType DEF NoConn, ShmPair, ShmInfo
    <3>2. cl' = [cl EXCEPT ![c].pc = "open", ![c].conn = conn]
      BY <2>4 DEF OpenAttach
    <3> HIDE DEF conn
    <3> QED
      BY <3>1, <3>2 DEF ClientThread
  <2> QED
    BY <2>1, <2>2, <2>3, <2>4 DEF ClientStep
<1>2. row' \in [Slot -> RowType] /\ shm' \in Seq(Segment)
  <2>1. CASE RequestWrite(c)
    <3> DEFINE r == [row[cl[c].slot] EXCEPT !.client_id = c, !.detach = FALSE,
                       !.type = TypeOf[c], !.client_attached = FALSE,
                       !.server_attached = FALSE, !.shm_created = FALSE]
    <3>1. r \in RowType
      <4>1. PICK o \in RowType : o = row[cl[c].slot]
        BY <1>0
      <4>2. TypeOf[c] \in QUEUE_TYPE
        BY ClientIds
      <4> QED
        BY <4>1, <4>2 DEF RowType
    <3>2. row' = [row EXCEPT ![cl[c].slot] = r] /\ shm' = shm
      BY <2>1 DEF RequestWrite
    <3> HIDE DEF r
    <3> QED
      BY <1>0, <3>1, <3>2 DEF Types
  <2>2. CASE OpenAttach(c)
    <3>1. row' \in [Slot -> RowType]
      <4>1. PICK s \in Slot : s = cl[c].slot
        BY <1>0 DEF ClientThread
      <4>2. row' = [row EXCEPT ![s].client_attached = @ \/ row[s].shm_created]
        BY <2>2, <4>1 DEF OpenAttach, set_client_attach_state
      <4>3. row[s] \in RowType
        BY <1>0
      <4> QED
        BY <1>0, <4>2, <4>3 DEF RowType
    <3>2. shm' = shm \/ shm' = Mapped(shm, Ids(cl[c].shms))
      BY <2>2 DEF OpenAttach
    <3> QED
      BY <3>1, <3>2, ShmMapped DEF Types
  <2>3. CASE CloseDetach(c)
    <3>1. PICK s \in Slot : s = cl[c].i
      BY <1>0
    <3>2. row' = [row EXCEPT ![s].detach = TRUE] /\ shm' = shm
      BY <2>3, <3>1 DEF CloseDetach
    <3>3. row[s] \in RowType
      BY <1>0
    <3> QED
      BY <1>0, <3>2, <3>3 DEF RowType, Types
  <2> QED
    BY <2>1, <2>2, <2>3 DEF ClientStep, CoordAttach, RequestLock, RequestTake, RequestSkip,
      RequestFail, RequestReserve, OpenAwait, OpenPair, CloseCall, CloseCrash, CloseSkip,
      CloseFound, tableVars, Types
<1>3. /\ mutex' \in BOOLEAN /\ reserved' \in [Slot -> BOOLEAN]
      /\ UNCHANGED <<region, accept_slot, rn, sv, pool_state>>
  BY <1>0 DEF ClientStep, CoordAttach, RequestLock, RequestTake, RequestSkip, RequestFail,
    RequestWrite, RequestReserve, OpenAwait, OpenPair, OpenAttach, CloseCall, CloseCrash,
    CloseSkip, CloseFound, CloseDetach, tableVars, serverVars, Types
<1> QED
  BY <1>1, <1>2, <1>3 DEF Types

LEMMA NextSlotType ==
  ASSUME Types
  PROVE  /\ NextSlot \in Runner
         /\ NextSlot.pc \in {"type", "done", "loop"}
BY Slots DEF NextSlot, Types, Runner

LEMMA PoolTypes ==
  ASSUME Types, PoolStep
  PROVE  Types'
<1>0. /\ row \in [Slot -> RowType] /\ rn \in Runner /\ rn.i \in Slot
      /\ row[rn.i] \in RowType /\ rn.type \in QUEUE_TYPE
  BY DEF Types, Runner
<1>1. rn' \in Runner
  <2>1. CASE ClearFree \/ ClearNothing
    BY <2>1, NextSlotType DEF ClearFree, ClearNothing
  <2>2. CASE PoolType
    BY <1>0, <2>2 DEF PoolType, Runner, RowType
  <2> QED
    BY <1>0, <2>1, <2>2 DEF PoolStep, RunnerLoop, ServiceAllocate, ServicePublish,
      ServiceNothing, CleanUp, ClearRow, Runner
<1>2. row' \in [Slot -> RowType] /\ shm' \in Seq(Segment)
  <2>1. CASE ServiceAllocate
    <3>1. PICK a : a = allocation(rn.type, row[rn.i].client_id)
      OBVIOUS
    <3>2. row[rn.i].client_id \in Client \cup {0}
      BY <1>0 DEF RowType
    <3>3. a.mem \in Seq(Segment) /\ a.shms \in ShmPair
      BY <1>0, <3>1, <3>2, Allocation
    <3>4. shm' = a.mem /\ row' = [row EXCEPT ![rn.i].shms = a.shms]
      BY <2>1, <3>1 DEF ServiceAllocate
    <3> QED
      BY <1>0, <3>3, <3>4 DEF RowType
  <2>2. CASE ServicePublish
    BY <1>0, <2>2 DEF ServicePublish, RowType, Types
  <2>3. CASE ClearRow
    <3>1. shm' = shm \/ shm' = shm_remove(shm, Ids(row[rn.i].shms))
      BY <2>3 DEF ClearRow
    <3>2. row' \in [Slot -> RowType]
      BY <1>0, <2>3, RowTypes DEF ClearRow
    <3> QED
      BY <3>1, <3>2, ShmRemoved DEF Types
  <2> QED
    BY <2>1, <2>2, <2>3 DEF PoolStep, RunnerLoop, PoolType, ServiceNothing, CleanUp,
      ClearFree, ClearNothing, tableVars, Types
<1>3. /\ reserved' \in [Slot -> BOOLEAN]
      /\ pool_state' \in {"NOT_RUNNING", "RUNNING_NO_SHUTDOWN", "RUNNING_SHUTDOWN"}
      /\ UNCHANGED <<region, mutex, accept_slot, cl, sv>>
  BY <1>0 DEF PoolStep, RunnerLoop, PoolType, ServiceAllocate, ServicePublish, ServiceNothing,
    CleanUp, ClearRow, ClearFree, ClearNothing, tableVars, serverVars, Types
<1> QED
  BY <1>1, <1>2, <1>3 DEF Types

LEMMA ServerTypes ==
  ASSUME Types, ServerStep
  PROVE  Types'
<1>0. /\ row \in [Slot -> RowType] /\ sv \in Server /\ sv.slot \in Slot
      /\ row[sv.slot] \in RowType /\ rn \in Runner
  BY DEF Types, Server
<1>1. sv' \in Server
  <2> USE <1>0 DEF ServerGoto
  <2>1. CASE RegisterServer \/ AcceptLock \/ AcceptTake \/ AcceptNone \/ ShutdownSignal
             \/ CoordDelete
    BY <2>1 DEF RegisterServer, AcceptLock, AcceptTake, AcceptNone, ShutdownSignal,
      CoordDelete, Server
  <2>2. CASE AcceptCall \/ ShutdownJoin \/ ShutdownMark
    <3>1. 0 \in Slot /\ 0 \in 0..SLOT_NUM /\ accept_slot \in Slot
      BY Slots DEF Types
    <3>2. CASE AcceptCall
      BY <3>1, <3>2 DEF AcceptCall, Server
    <3>3. CASE ShutdownJoin
      BY <3>1, <3>3 DEF ShutdownJoin, Server
    <3>4. CASE ShutdownMark
      BY <3>4 DEF ShutdownMark, Server
    <3> QED
      BY <2>2, <3>2, <3>3, <3>4
  <2>3. CASE AcceptSkip
    <3>1. (sv.slot + 1) % SLOT_NUM \in Slot /\ sv.n + 1 \in 0..SLOT_NUM
      BY <2>3, Slots DEF AcceptSkip, Server
    <3> QED
      BY <2>3, <3>1 DEF AcceptSkip, Server
  <2>4. CASE AcceptType
    BY <2>4 DEF AcceptType, Server, RowType
  <2>5. CASE AcceptShms \/ AcceptId \/ AcceptAgain
    <3>1. check_slot(sv.slot) \in ShmPair /\ get_client_id(sv.slot) \in Client \cup {0}
      BY CheckSlotType
    <3>2. CASE AcceptShms
      BY <3>1, <3>2 DEF AcceptShms, Server
    <3>3. CASE AcceptId
      BY <3>1, <3>3 DEF AcceptId, Server
    <3>4. CASE AcceptAgain
      BY <3>1, <3>4 DEF AcceptAgain, Server
    <3> QED
      BY <2>5, <3>2, <3>3, <3>4
  <2>6. CASE AcceptState \/ AcceptAttach
    <3>1. Returned \in Server
      <4>1. "POLL" \in QUEUE_TYPE /\ 0 \in 0..SLOT_NUM /\ NoShms \in ShmPair
        BY RowTypes, Slots DEF QUEUE_TYPE
      <4> QED
        BY <4>1 DEF Returned, Server
    <3> QED
      BY <2>6, <3>1 DEF AcceptState, AcceptAttach, Server
  <2> QED
    BY <2>1, <2>2, <2>3, <2>4, <2>5, <2>6 DEF ServerStep, AcceptStep, ShutdownStep
<1>2. row' \in [Slot -> RowType] /\ shm' \in Seq(Segment)
  <2>1. CASE AcceptAttach
    <3>1. shm' = Mapped(shm, Ids(sv.shms))
      BY <2>1 DEF AcceptAttach
    <3>2. row' \in [Slot -> RowType]
      BY <1>0, <2>1 DEF AcceptAttach, set_server_attach_state, RowType
    <3> QED
      BY <3>1, <3>2, ShmMapped DEF Types
  <2>2. CASE ShutdownMark
    BY <1>0, <2>2 DEF ShutdownMark, RowType, Types
  <2> QED
    BY <2>1, <2>2 DEF ServerStep, AcceptStep, ShutdownStep, RegisterServer, AcceptCall,
      AcceptLock, AcceptTake, AcceptSkip, AcceptNone, AcceptType, AcceptShms, AcceptId,
      AcceptAgain, AcceptState, ShutdownSignal, ShutdownJoin, CoordDelete, tableVars, Types
<1>3. accept_slot' \in Slot /\ reserved' \in [Slot -> BOOLEAN] /\ rn' \in Runner
  BY <1>0, Slots DEF ServerStep, AcceptStep, ShutdownStep, RegisterServer, coord_create,
    AcceptCall, AcceptLock, AcceptTake, AcceptSkip, AcceptNone, AcceptType, AcceptShms,
    AcceptId, AcceptAgain, AcceptState, AcceptAttach, ShutdownSignal, ShutdownJoin,
    ShutdownMark, CoordDelete, tableVars, Types, Runner
<1>4. /\ region' \in {"none", "ready", "removed"} /\ mutex' \in BOOLEAN /\ cl' = cl
      /\ pool_state' \in {"NOT_RUNNING", "RUNNING_NO_SHUTDOWN", "RUNNING_SHUTDOWN"}
  BY DEF ServerStep, AcceptStep, ShutdownStep, RegisterServer, coord_create, AcceptCall,
    AcceptLock, AcceptTake, AcceptSkip, AcceptNone, AcceptType, AcceptShms, AcceptId,
    AcceptAgain, AcceptState, AcceptAttach, ShutdownSignal, ShutdownJoin, ShutdownMark,
    CoordDelete, Types
<1> QED
  BY <1>1, <1>2, <1>3, <1>4 DEF Types

LEMMA InitTypes == Init => Types
<1> SUFFICES ASSUME Init PROVE Types
  OBVIOUS
<1>1. PICK a \in Applications :
        /\ cl = [c \in Client |->
                   [pc |-> "start", slot |-> 0, i |-> 0, shms |-> NoShms,
                    conn |-> NoConn, closes |-> c \in a.closers]]
        /\ sv = [pc |-> "register", slot |-> 0, n |-> 0, type |-> "POLL",
                 shms |-> NoShms, id |-> 0, calls |-> a.calls]
  BY DEF Init
<1>2. a.calls \in SUBSET {"accept", "shutdown"}
  BY CoordAssumption
<1>3. cl \in [Client -> ClientThread]
  <2>1. NoConn \in [request : Int, response : Int]
    BY DEF NoConn
  <2> QED
    BY <1>1, <2>1, Slots, RowTypes DEF ClientThread
<1>4. sv \in Server
  BY <1>1, <1>2, Slots, RowTypes DEF Server, QUEUE_TYPE
<1>5. row \in [Slot -> RowType]
  BY RowTypes DEF Init
<1>6. shm \in Seq(Segment)
  BY EmptySeq DEF Init
<1>7. rn \in Runner
  BY Slots DEF Init, Runner, QUEUE_TYPE
<1>8. reserved \in [Slot -> BOOLEAN] /\ accept_slot \in Slot
  BY Slots DEF Init
<1> QED
  BY <1>3, <1>4, <1>5, <1>6, <1>7, <1>8 DEF Init, Types

LEMMA NextTypes == Types /\ [Next]_vars => Types'
<1> SUFFICES ASSUME Types, [Next]_vars PROVE Types'
  OBVIOUS
<1>1. CASE Next
  BY <1>1, ClientTypes, PoolTypes, ServerTypes DEF Next
<1>2. CASE UNCHANGED vars
  BY <1>2 DEF vars, tableVars, serverVars, Types
<1> QED
  BY <1>1, <1>2

(***************************************************************************)
(* Types: every scan of the rows (request_slot, client_close, manage_pool, *)
(* accept with accept_slot, coord_shutdown) stays in the region, and a row *)
(* carries the id of a client or the zero of fresh memory.                 *)
(***************************************************************************)
THEOREM TypeCorrect == Spec => []TypeOK
<1>1. Types => TypeOK
  BY DEF Types, TypeOK, RowType, ClientThread, Runner, Server
<1> QED
  BY <1>1, InitTypes, NextTypes, PTL DEF Spec

-----------------------------------------------------------------------------
(***************************************************************************)
(* Who may write a row.  The mutex orders the clients' scans; against      *)
(* manage_pool, which never takes it, a row is protected by the order in   *)
(* which its flags are written.                                            *)
(***************************************************************************)
Scanning(c) == cl[c].pc \in {"scan", "write", "reserve"}
Entered(c) == cl[c].pc \notin {"start", "lock", "scan", "write"}
Freeing(i) == rn.pc = "free" /\ rn.i = i
Allocating(i) == rn.pc = "publish" /\ rn.i = i

Unregistered ==
  sv.pc = "register" =>
    /\ region = "none" /\ rn.pc = "off"
    /\ \A c \in Client : cl[c].pc = "start"
    /\ \A i \in Slot : ~reserved[i]

MutexInv ==
  /\ \A c \in Client : Scanning(c) => mutex
  /\ \A c, d \in Client : Scanning(c) /\ Scanning(d) => c = d
  /\ sv.pc = "scan" => mutex /\ \A c \in Client : ~Scanning(c)

(* A taken row is its client's, and the client waits for its queues.       *)
Taken(i, c) ==
  /\ c \in Client /\ Entered(c) /\ cl[c].slot = i
  /\ row[i].type = TypeOf[c]
  /\ ~row[i].shm_created => cl[c].pc = "await"

RowInv(i) ==
  /\ row[i].shm_created => reserved[i]
  /\ row[i].detach => row[i].shm_created /\ row[i].client_id # 0
  /\ reserved[i] /\ ~Freeing(i) => Taken(i, row[i].client_id)
  /\ row[i].client_id # 0 => Entered(row[i].client_id) /\ cl[row[i].client_id].slot = i
  /\ row[i].shm_created \/ Allocating(i) => OwnKeys(row[i].shms, row[i].client_id)

RunnerInv ==
  /\ rn.pc = "publish" => reserved[rn.i] /\ ~row[rn.i].shm_created
  /\ rn.pc = "free" => reserved[rn.i] /\ row[rn.i] = ZeroRow

ClientInv(c) ==
  LET r == row[cl[c].slot]
  IN  /\ cl[c].pc \in {"write", "reserve"} => ~reserved[cl[c].slot]
      /\ cl[c].pc = "reserve" => r.client_id = c /\ r.type = TypeOf[c]
      /\ Holds(c) => /\ reserved[cl[c].slot] /\ ~Freeing(cl[c].slot)
                     /\ r.client_id = c /\ ~r.detach
      /\ cl[c].pc \in {"pair", "attach", "open", "find", "detach"} => r.shm_created
      /\ cl[c].pc \in {"attach", "open", "find", "detach"} => c # 0
      /\ cl[c].pc = "detach" => cl[c].i = cl[c].slot

TableInv ==
  /\ Unregistered /\ MutexInv /\ RunnerInv
  /\ \A i \in Slot : RowInv(i)
  /\ \A c \in Client : ClientInv(c)

-----------------------------------------------------------------------------
(* TableInv is kept                                                        *)

(* The steps of a client that only change its own variables.               *)
LEMMA ClientMoves ==
  ASSUME Types, TableInv, NEW c \in Client,
         cl' \in [Client -> ClientThread], \A d \in Client \ {c} : cl'[d] = cl[d],
         UNCHANGED <<region, mutex, reserved, row, rn, sv>>,
         cl'[c].pc # "start", sv.pc # "register",
         Scanning(c)' => Scanning(c),
         Entered(c) => Entered(c)' /\ cl'[c].slot = cl[c].slot,
         cl[c].pc = "await" => cl'[c].pc = "await" \/ row[cl[c].slot].shm_created,
         ClientInv(c)'
  PROVE  TableInv'
<1> USE DEF TableInv
<1>1. Unregistered' /\ RunnerInv'
  BY DEF Unregistered, RunnerInv
<1>2. MutexInv'
  BY DEF MutexInv, Scanning
<1>3. \A i \in Slot : RowInv(i)'
  <2> SUFFICES ASSUME NEW i \in Slot PROVE RowInv(i)'
    OBVIOUS
  <2>1. row[i].client_id \in Client \cup {0} /\ RowInv(i)
    BY DEF Types, RowType
  <2>2. ASSUME NEW d \in Client, Entered(d) PROVE Entered(d)' /\ cl'[d].slot = cl[d].slot
    BY <2>2 DEF Entered
  <2>3. ASSUME Taken(i, row[i].client_id) PROVE Taken(i, row[i].client_id)'
    BY <2>2, <2>3 DEF Taken
  <2>4. row[i].client_id # 0 =>
          Entered(row[i].client_id)' /\ cl'[row[i].client_id].slot = i
    BY <2>1, <2>2 DEF RowInv, Entered
  <2> QED
    BY <2>1, <2>3, <2>4 DEF RowInv, Freeing, Allocating, Entered
<1>4. \A d \in Client : ClientInv(d)'
  BY DEF ClientInv, Holds, Freeing
<1> QED
  BY <1>1, <1>2, <1>3, <1>4

LEMMA ClientMovesInv ==
  ASSUME Types, TableInv, Types', NEW c \in Client,
         \/ CoordAttach(c) \/ RequestTake(c) \/ RequestSkip(c) \/ OpenAwait(c)
         \/ OpenPair(c) \/ CloseCall(c) \/ CloseCrash(c) \/ CloseSkip(c) \/ CloseFound(c)
  PROVE  TableInv'
<1>0. /\ cl \in [Client -> ClientThread] /\ cl' \in [Client -> ClientThread]
      /\ cl[c].slot \in Slot /\ cl[c].i \in Slot
      /\ UNCHANGED <<region, mutex, reserved, row, rn, sv>>
  BY DEF Types, ClientThread, CoordAttach, RequestTake, RequestSkip, OpenAwait, OpenPair,
    CloseCall, CloseCrash, CloseSkip, CloseFound, tableVars, serverVars
<1>1. \A d \in Client \ {c} : cl'[d] = cl[d]
  BY <1>0 DEF CoordAttach, RequestTake, RequestSkip, OpenAwait, OpenPair,
    CloseCall, CloseCrash, CloseSkip, CloseFound, Goto
<1>2. sv.pc # "register"
  BY DEF TableInv, Unregistered, CoordAttach, RequestTake, RequestSkip, OpenAwait, OpenPair,
    CloseCall, CloseCrash, CloseSkip, CloseFound
<1>3. ClientInv(c) /\ RowInv(cl[c].slot) /\ RowInv(cl[c].i)
  BY <1>0 DEF TableInv
<1> USE <1>0 DEF ClientThread, Goto, Scanning, Entered, ClientInv, Holds, Freeing
<1>4. CASE CoordAttach(c)
  <2>1. cl[c].pc = "start" /\ cl'[c].pc = "lock"
    BY <1>4 DEF CoordAttach
  <2> QED
    BY <1>1, <1>2, <2>1, ClientMoves
<1>5. CASE RequestTake(c)
  <2>1. /\ cl[c].pc = "scan" /\ cl'[c].pc = "write" /\ cl'[c].slot = cl[c].slot
        /\ ~reserved[cl[c].slot]
    BY <1>5 DEF RequestTake
  <2> QED
    BY <1>1, <1>2, <2>1, ClientMoves
<1>6. CASE RequestSkip(c)
  <2>1. cl[c].pc = "scan" /\ cl'[c].pc = "scan"
    BY <1>6 DEF RequestSkip
  <2> QED
    BY <1>1, <1>2, <2>1, ClientMoves
<1>7. CASE OpenAwait(c)
  <2>1. /\ cl[c].pc = "await" /\ cl'[c].pc = "pair" /\ cl'[c].slot = cl[c].slot
        /\ row[cl[c].slot].shm_created
    BY <1>7 DEF OpenAwait
  <2> QED
    BY <1>1, <1>2, <1>3, <2>1, ClientMoves
<1>8. CASE OpenPair(c)
  <2>1. /\ cl[c].pc = "pair" /\ cl'[c].pc = "attach" /\ cl'[c].slot = cl[c].slot
        /\ ~Unset(check_slot(cl[c].slot))
    BY <1>8 DEF OpenPair
  <2>2. c # 0
    <3>1. /\ row[cl[c].slot].client_id = c
          /\ OwnKeys(row[cl[c].slot].shms, row[cl[c].slot].client_id)
          /\ row[cl[c].slot].shms.request.key # 0
      BY <1>3, <2>1 DEF RowInv, check_slot, Unset
    <3> QED
      BY <3>1, QuotZero DEF OwnKeys
  <2> QED
    BY <1>1, <1>2, <1>3, <2>1, <2>2, ClientMoves
<1>9. CASE CloseCall(c)
  <2>1. cl[c].pc = "open" /\ cl'[c].pc = "find" /\ cl'[c].slot = cl[c].slot
    BY <1>9 DEF CloseCall
  <2> QED
    BY <1>1, <1>2, <1>3, <2>1, ClientMoves
<1>10. CASE CloseCrash(c)
  <2>1. cl[c].pc = "open" /\ cl'[c].pc = "crashed" /\ cl'[c].slot = cl[c].slot
    BY <1>10 DEF CloseCrash
  <2> QED
    BY <1>1, <1>2, <1>3, <2>1, ClientMoves
<1>11. CASE CloseSkip(c)
  <2>1. /\ cl[c].pc = "find" /\ cl'[c].pc \in {"find", "notfound"}
        /\ cl'[c].slot = cl[c].slot
    BY <1>11 DEF CloseSkip
  <2> QED
    BY <1>1, <1>2, <1>3, <2>1, ClientMoves
<1>12. CASE CloseFound(c)
  <2>1. /\ cl[c].pc = "find" /\ cl'[c].pc = "detach" /\ cl'[c].slot = cl[c].slot
        /\ cl'[c].i = cl[c].i /\ row[cl[c].i].client_id = c
    BY <1>12 DEF CloseFound
  <2>2. cl[c].i = cl[c].slot
    BY <1>3, <2>1 DEF RowInv
  <2> QED
    BY <1>1, <1>2, <1>3, <2>1, <2>2, ClientMoves
<1> QED
  BY <1>4, <1>5, <1>6, <1>7, <1>8, <1>9, <1>10, <1>11, <1>12

(* Before its row is written, a client has none.                           *)
LEMMA NoRowYet ==
  ASSUME Types, TableInv, NEW c \in Client, ~Entered(c)
  PROVE  \A i \in Slot : /\ row[i].client_id # 0 => row[i].client_id # c
                         /\ reserved[i] /\ ~Freeing(i) => row[i].client_id # c
BY DEF TableInv, RowInv, Taken

LEMMA RequestLockInv ==
  ASSUME Types, TableInv, Types', NEW c \in Client, RequestLock(c) \/ RequestFail(c)
  PROVE  TableInv'
<1> USE DEF TableInv
<1>1. /\ cl \in [Client -> ClientThread]
      /\ UNCHANGED <<region, reserved, row, rn, sv>>
  BY DEF Types, RequestLock, RequestFail, tableVars, serverVars
<1>2. /\ cl[c].pc \in {"lock", "scan"}
      /\ cl'[c].pc \in {"lock", "scan"}
      /\ \A d \in Client \ {c} : cl'[d] = cl[d]
  BY <1>1 DEF RequestLock, RequestFail, Goto, ClientThread
<1>3. Unregistered' /\ RunnerInv'
  BY <1>1, <1>2 DEF Unregistered, RunnerInv
<1>4. MutexInv'
  <2>1. CASE RequestLock(c)
    <3>1. ~mutex /\ mutex'
      BY <2>1 DEF RequestLock
    <3> QED
      BY <1>1, <1>2, <3>1 DEF MutexInv, Scanning
  <2>2. CASE RequestFail(c)
    <3>1. cl[c].pc = "scan" /\ cl'[c].pc = "lock"
      BY <1>1, <2>2 DEF RequestFail, Goto, ClientThread
    <3> QED
      BY <1>1, <1>2, <3>1 DEF MutexInv, Scanning
  <2> QED
    BY <2>1, <2>2
<1>5. ~Entered(c) /\ ~Entered(c)'
  BY <1>2 DEF Entered
<1>6. \A i \in Slot : RowInv(i)'
  <2> SUFFICES ASSUME NEW i \in Slot PROVE RowInv(i)'
    OBVIOUS
  <2>1. /\ row[i].client_id # 0 => row[i].client_id # c
        /\ reserved[i] /\ ~Freeing(i) => row[i].client_id # c
    BY <1>5, NoRowYet
  <2>2. row[i].client_id \in Client \cup {0} /\ RowInv(i)
    BY DEF Types, RowType
  <2> QED
    BY <1>1, <1>2, <2>1, <2>2 DEF RowInv, Taken, Entered, Freeing, Allocating
<1>7. \A d \in Client : ClientInv(d)'
  BY <1>1, <1>2 DEF ClientInv, Holds, Freeing
<1> QED
  BY <1>3, <1>4, <1>6, <1>7

(* The client that holds the mutex writes a row that is not reserved, and  *)
(* that manage_pool therefore leaves alone.                                *)
LEMMA RequestWriteInv ==
  ASSUME Types, TableInv, Types', NEW c \in Client, RequestWrite(c)
  PROVE  TableInv'
<1> USE DEF TableInv
<1>0. PICK s \in Slot : s = cl[c].slot
  BY DEF Types, ClientThread
<1>1. /\ cl \in [Client -> ClientThread] /\ row \in [Slot -> RowType]
      /\ UNCHANGED <<region, mutex, reserved, rn, sv>>
  BY DEF Types, RequestWrite, tableVars, serverVars
<1>2. /\ cl[c].pc = "write" /\ cl'[c].pc = "reserve" /\ cl'[c].slot = s
      /\ \A d \in Client \ {c} : cl'[d] = cl[d]
  BY <1>0, <1>1 DEF RequestWrite, Goto, ClientThread
<1>3. /\ row'[s].client_id = c /\ ~row'[s].detach /\ row'[s].type = TypeOf[c]
      /\ ~row'[s].shm_created
      /\ \A i \in Slot \ {s} : row'[i] = row[i]
  <2>1. row' = [row EXCEPT ![s] =
                  [@ EXCEPT !.client_id = c, !.detach = FALSE, !.type = TypeOf[c],
                            !.client_attached = FALSE, !.server_attached = FALSE,
                            !.shm_created = FALSE]]
    BY <1>0 DEF RequestWrite
  <2> QED
    BY <1>1, <2>1 DEF RowType
<1>4. ~reserved[s]
  BY <1>0, <1>2 DEF ClientInv
<1>5. ~Freeing(s) /\ ~Allocating(s)
  BY <1>4 DEF RunnerInv, Freeing, Allocating
<1>6. Unregistered' /\ RunnerInv'
  <2>1. rn.i \in Slot
    BY DEF Types, Runner
  <2> QED
    BY <1>1, <1>2, <1>3, <1>4, <2>1 DEF Unregistered, RunnerInv
<1>7. MutexInv'
  BY <1>1, <1>2 DEF MutexInv, Scanning
<1>8. \A i \in Slot : RowInv(i)'
  <2> SUFFICES ASSUME NEW i \in Slot PROVE RowInv(i)'
    OBVIOUS
  <2>1. CASE i = s
    BY <2>1, <1>1, <1>2, <1>3, <1>4, <1>5 DEF RowInv, Entered, Freeing, Allocating
  <2>2. CASE i # s
    <3>1. /\ row[i].client_id # 0 => row[i].client_id # c
          /\ reserved[i] /\ ~Freeing(i) => row[i].client_id # c
      BY <1>2, NoRowYet DEF Entered
    <3>2. row[i].client_id \in Client \cup {0} /\ RowInv(i) /\ row'[i] = row[i]
      BY <1>1, <1>3, <2>2 DEF RowType
    <3> QED
      BY <1>1, <1>2, <3>1, <3>2 DEF RowInv, Taken, Entered, Freeing, Allocating
  <2> QED
    BY <2>1, <2>2
<1>9. \A d \in Client : ClientInv(d)'
  <2> SUFFICES ASSUME NEW d \in Client PROVE ClientInv(d)'
    OBVIOUS
  <2>1. CASE d = c
    BY <2>1, <1>1, <1>2, <1>3, <1>4 DEF ClientInv, Holds
  <2>2. CASE d # c
    <3>1. ClientInv(d) /\ cl[d].slot \in Slot /\ cl'[d] = cl[d]
      BY <1>1, <1>2, <2>2 DEF ClientThread
    <3>2. Holds(d) => cl[d].slot # s
      BY <1>4, <3>1 DEF ClientInv
    <3>3. cl[d].pc # "reserve"
      BY <1>2, <2>2 DEF MutexInv, Scanning
    <3> QED
      BY <1>1, <1>3, <3>1, <3>2, <3>3 DEF ClientInv, Holds, Freeing
  <2> QED
    BY <2>1, <2>2
<1> QED
  BY <1>6, <1>7, <1>8, <1>9

LEMMA RequestReserveInv ==
  ASSUME Types, TableInv, Types', NEW c \in Client, RequestReserve(c)
  PROVE  TableInv'
<1> USE DEF TableInv
<1>0. PICK s \in Slot : s = cl[c].slot
  BY DEF Types, ClientThread
<1>1. /\ cl \in [Client -> ClientThread] /\ row \in [Slot -> RowType]
      /\ UNCHANGED <<region, row, rn, sv>>
  BY DEF Types, RequestReserve, serverVars
<1>2. /\ cl[c].pc = "reserve" /\ cl'[c].pc = "await" /\ cl'[c].slot = s
      /\ \A d \in Client \ {c} : cl'[d] = cl[d]
  BY <1>0, <1>1 DEF RequestReserve, Goto, ClientThread
<1>3. /\ reserved'[s] /\ \A i \in Slot \ {s} : reserved'[i] = reserved[i]
      /\ ~reserved[s]
  <2>1. reserved \in [Slot -> BOOLEAN] /\ reserved' = [reserved EXCEPT ![s] = TRUE]
    BY <1>0 DEF RequestReserve, Types
  <2>2. ~reserved[s]
    BY <1>0, <1>2 DEF ClientInv
  <2> QED
    BY <2>1, <2>2
<1>4. ~Freeing(s) /\ ~Allocating(s)
  BY <1>3 DEF RunnerInv, Freeing, Allocating
<1>5. /\ row[s].client_id = c /\ row[s].type = TypeOf[c]
      /\ ~row[s].shm_created /\ ~row[s].detach
  BY <1>0, <1>2, <1>3 DEF ClientInv, RowInv
<1>6. Unregistered' /\ RunnerInv'
  <2>1. rn.i \in Slot
    BY DEF Types, Runner
  <2> QED
    BY <1>1, <1>2, <1>3, <2>1 DEF Unregistered, RunnerInv
<1>7. MutexInv'
  BY <1>1, <1>2 DEF MutexInv, Scanning
<1>8. \A i \in Slot : RowInv(i)'
  <2> SUFFICES ASSUME NEW i \in Slot PROVE RowInv(i)'
    OBVIOUS
  <2>1. CASE i = s
    BY <2>1, <1>1, <1>2, <1>3, <1>4, <1>5
    DEF RowInv, Taken, Entered, Freeing, Allocating
  <2>2. CASE i # s
    <3>1. row[i].client_id \in Client \cup {0} /\ RowInv(i) /\ reserved'[i] = reserved[i]
      BY <1>1, <1>3, <2>2 DEF RowType
    <3>2. /\ row[i].client_id # 0 => row[i].client_id # c
          /\ reserved[i] /\ ~Freeing(i) => row[i].client_id # c
      BY <1>0, <2>2, <3>1 DEF RowInv, Taken
    <3> QED
      BY <1>1, <1>2, <3>1, <3>2 DEF RowInv, Taken, Entered, Freeing, Allocating
  <2> QED
    BY <2>1, <2>2
<1>9. \A d \in Client : ClientInv(d)'
  <2> SUFFICES ASSUME NEW d \in Client PROVE ClientInv(d)'
    OBVIOUS
  <2>1. CASE d = c
    BY <2>1, <1>1, <1>2, <1>3, <1>4, <1>5 DEF ClientInv, Holds, Freeing
  <2>2. CASE d # c
    <3>1. ClientInv(d) /\ cl[d].slot \in Slot /\ cl'[d] = cl[d]
      BY <1>1, <1>2, <2>2 DEF ClientThread
    <3>2. cl[d].pc \notin {"write", "reserve"}
      BY <1>2, <2>2 DEF MutexInv, Scanning
    <3> QED
      BY <1>1, <1>3, <3>1, <3>2 DEF ClientInv, Holds, Freeing
  <2> QED
    BY <2>1, <2>2
<1> QED
  BY <1>6, <1>7, <1>8, <1>9

(* What attaching changes of a row: a flag that manage_pool does not read. *)
LEMMA AttachInv ==
  ASSUME Types, TableInv,
         row' \in [Slot -> RowType],
         \A i \in Slot : /\ row'[i].client_id = row[i].client_id
                         /\ row'[i].type = row[i].type
                         /\ row'[i].shm_created = row[i].shm_created
                         /\ row'[i].detach = row[i].detach
                         /\ row'[i].shms = row[i].shms
                         /\ ~row[i].shm_created => row'[i] = row[i],
         UNCHANGED <<region, mutex, reserved, rn>>,
         sv' = sv \/ (sv.pc \notin {"register", "scan"} /\ sv'.pc \notin {"register", "scan"}),
         cl' \in [Client -> ClientThread],
         \A d \in Client : /\ cl'[d].slot = cl[d].slot /\ cl'[d].i = cl[d].i
                           /\ \/ cl'[d].pc = cl[d].pc
                              \/ cl[d].pc = "attach" /\ cl'[d].pc = "open"
  PROVE  TableInv'
<1> USE DEF TableInv
<1>1. Unregistered'
  BY DEF Unregistered
<1>2. RunnerInv'
  BY RowTypes DEF RunnerInv, Types, Runner
<1>3. MutexInv'
  BY DEF MutexInv, Scanning
<1>4. \A i \in Slot : RowInv(i)'
  <2> SUFFICES ASSUME NEW i \in Slot PROVE RowInv(i)'
    OBVIOUS
  <2>1. row[i].client_id \in Client \cup {0} /\ RowInv(i)
    BY DEF Types, RowType
  <2> QED
    BY <2>1 DEF RowInv, Taken, Entered, Freeing, Allocating
<1>5. \A d \in Client : ClientInv(d)'
  <2> SUFFICES ASSUME NEW d \in Client PROVE ClientInv(d)'
    OBVIOUS
  <2>1. ClientInv(d) /\ cl[d].slot \in Slot
    BY DEF Types, ClientThread
  <2> QED
    BY <2>1 DEF ClientInv, Holds, Freeing
<1> QED
  BY <1>1, <1>2, <1>3, <1>4, <1>5

LEMMA OpenAttachInv ==
  ASSUME Types, TableInv, Types', NEW c \in Client, OpenAttach(c)
  PROVE  TableInv'
<1>0. PICK s \in Slot : s = cl[c].slot
  BY DEF Types, ClientThread
<1>1. cl \in [Client -> ClientThread] /\ row \in [Slot -> RowType]
  BY DEF Types
<1>2. /\ row' \in [Slot -> RowType] /\ cl' \in [Client -> ClientThread]
      /\ UNCHANGED <<region, mutex, reserved, rn, sv>>
  BY DEF Types, OpenAttach, serverVars
<1>3. \A d \in Client : /\ cl'[d].slot = cl[d].slot /\ cl'[d].i = cl[d].i
                        /\ \/ cl'[d].pc = cl[d].pc
                           \/ cl[d].pc = "attach" /\ cl'[d].pc = "open"
  BY <1>1 DEF OpenAttach, ClientThread
<1>4. \A i \in Slot : /\ row'[i].client_id = row[i].client_id
                      /\ row'[i].type = row[i].type
                      /\ row'[i].shm_created = row[i].shm_created
                      /\ row'[i].detach = row[i].detach
                      /\ row'[i].shms = row[i].shms
                      /\ ~row[i].shm_created => row'[i] = row[i]
  <2>1. row' = [row EXCEPT ![s].client_attached = @ \/ row[s].shm_created]
    BY <1>0 DEF OpenAttach, set_client_attach_state
  <2>2. ~row[s].shm_created => row'[s] = row[s]
    BY <1>1, <2>1 DEF RowType
  <2> QED
    BY <1>1, <2>1, <2>2 DEF RowType
<1> QED
  BY <1>2, <1>3, <1>4, AttachInv

(* client_close marks its own row, not another's.                          *)
LEMMA CloseDetachInv ==
  ASSUME Types, TableInv, Types', NEW c \in Client, CloseDetach(c)
  PROVE  TableInv'
<1> USE DEF TableInv
<1>0. PICK s \in Slot : s = cl[c].i
  BY DEF Types, ClientThread
<1>1. /\ cl \in [Client -> ClientThread] /\ row \in [Slot -> RowType]
      /\ UNCHANGED <<region, mutex, reserved, rn, sv>>
  BY DEF Types, CloseDetach, serverVars
<1>2. /\ cl[c].pc = "detach" /\ cl'[c].pc = "closed" /\ cl'[c].slot = cl[c].slot
      /\ \A d \in Client \ {c} : cl'[d] = cl[d]
  BY <1>1 DEF CloseDetach, Goto, ClientThread
<1>3. /\ cl[c].slot = s /\ reserved[s] /\ ~Freeing(s) /\ row[s].client_id = c
      /\ row[s].shm_created /\ c # 0
  BY <1>0, <1>2 DEF ClientInv, Holds
<1>4. /\ row'[s].client_id = row[s].client_id /\ row'[s].type = row[s].type
      /\ row'[s].shm_created = row[s].shm_created /\ row'[s].shms = row[s].shms
      /\ \A i \in Slot \ {s} : row'[i] = row[i]
  BY <1>0, <1>1 DEF CloseDetach, RowType
<1>5. Unregistered' /\ MutexInv'
  BY <1>1, <1>2 DEF Unregistered, MutexInv, Scanning
<1>6. RunnerInv'
  BY <1>1, <1>3, <1>4 DEF RunnerInv, Freeing, Types, Runner
<1>7. \A i \in Slot : RowInv(i)'
  <2> SUFFICES ASSUME NEW i \in Slot PROVE RowInv(i)'
    OBVIOUS
  <2>1. row[i].client_id \in Client \cup {0} /\ RowInv(i)
    BY <1>1 DEF RowType
  <2>2. CASE i = s
    BY <2>1, <2>2, <1>1, <1>2, <1>3, <1>4 DEF RowInv, Taken, Entered, Freeing, Allocating
  <2>3. CASE i # s
    BY <2>1, <2>3, <1>1, <1>2, <1>4 DEF RowInv, Taken, Entered, Freeing, Allocating
  <2> QED
    BY <2>2, <2>3
<1>8. \A d \in Client : ClientInv(d)'
  <2> SUFFICES ASSUME NEW d \in Client PROVE ClientInv(d)'
    OBVIOUS
  <2>1. CASE d = c
    BY <2>1, <1>1, <1>2 DEF ClientInv, Holds
  <2>2. CASE d # c
    <3>1. ClientInv(d) /\ cl[d].slot \in Slot /\ cl'[d] = cl[d]
      BY <1>1, <1>2, <2>2 DEF ClientThread
    <3>2. Holds(d) \/ cl[d].pc = "reserve" => cl[d].slot # s
      BY <1>3, <2>2, <3>1 DEF ClientInv
    <3> QED
      BY <1>1, <1>4, <3>1, <3>2 DEF ClientInv, Holds, Freeing
  <2> QED
    BY <2>1, <2>2
<1> QED
  BY <1>5, <1>6, <1>7, <1>8

(* manage_pool's looks at a row.                                           *)
LEMMA RunnerMovesInv ==
  ASSUME Types, TableInv, Types',
         RunnerLoop \/ PoolType \/ ServiceNothing \/ CleanUp \/ ClearNothing
  PROVE  TableInv'
<1> USE DEF TableInv
<1>1. UNCHANGED <<region, mutex, reserved, row, cl, sv>> /\ rn.pc \notin {"off", "free", "publish"}
  BY DEF RunnerLoop, PoolType, ServiceNothing, CleanUp, ClearNothing, tableVars, serverVars
<1>2. rn'.pc \notin {"free", "publish"}
  BY NextSlotType DEF RunnerLoop, PoolType, ServiceNothing, CleanUp, ClearNothing, Types, Runner
<1>3. Unregistered' /\ MutexInv' /\ RunnerInv'
  BY <1>1, <1>2 DEF Unregistered, MutexInv, Scanning, RunnerInv
<1>4. \A i \in Slot : RowInv(i)'
  BY <1>1, <1>2 DEF RowInv, Taken, Entered, Freeing, Allocating
<1>5. \A c \in Client : ClientInv(c)'
  BY <1>1, <1>2 DEF ClientInv, Holds, Freeing
<1> QED
  BY <1>3, <1>4, <1>5

LEMMA ServiceAllocateInv ==
  ASSUME Types, TableInv, Types', ServiceAllocate
  PROVE  TableInv'
<1> USE DEF TableInv
<1>0. PICK s \in Slot : s = rn.i
  BY DEF Types, Runner
<1>1. /\ row \in [Slot -> RowType] /\ rn \in Runner
      /\ UNCHANGED <<region, mutex, reserved, cl, sv>>
      /\ rn.pc = "service" /\ reserved[s] /\ ~row[s].shm_created
  BY <1>0 DEF Types, ServiceAllocate, serverVars
<1>2. rn'.pc = "publish" /\ rn'.i = s
  BY <1>0, <1>1 DEF ServiceAllocate, Runner
<1>3. PICK a : a = allocation(rn.type, row[s].client_id)
  OBVIOUS
<1>4. OwnKeys(a.shms, row[s].client_id)
  BY <1>1, <1>3, Allocation DEF RowType, Runner
<1>5. /\ row'[s].shms = a.shms
      /\ row'[s].client_id = row[s].client_id /\ row'[s].type = row[s].type
      /\ row'[s].shm_created = row[s].shm_created /\ row'[s].detach = row[s].detach
      /\ \A i \in Slot \ {s} : row'[i] = row[i]
  BY <1>0, <1>1, <1>3 DEF ServiceAllocate, RowType
<1>6. Unregistered' /\ MutexInv' /\ RunnerInv'
  BY <1>1, <1>2, <1>5 DEF Unregistered, MutexInv, Scanning, RunnerInv
<1>7. \A i \in Slot : RowInv(i)'
  <2> SUFFICES ASSUME NEW i \in Slot PROVE RowInv(i)'
    OBVIOUS
  <2>1. CASE i = s
    BY <2>1, <1>1, <1>2, <1>4, <1>5 DEF RowInv, Taken, Entered, Freeing, Allocating
  <2>2. CASE i # s
    BY <2>2, <1>1, <1>2, <1>5 DEF RowInv, Taken, Entered, Freeing, Allocating
  <2> QED
    BY <2>1, <2>2
<1>8. \A c \in Client : ClientInv(c)'
  BY <1>1, <1>2, <1>5 DEF ClientInv, Holds, Freeing, Types, ClientThread
<1> QED
  BY <1>6, <1>7, <1>8

LEMMA ServicePublishInv ==
  ASSUME Types, TableInv, Types', ServicePublish
  PROVE  TableInv'
<1> USE DEF TableInv
<1>0. PICK s \in Slot : s = rn.i
  BY DEF Types, Runner
<1>1. /\ row \in [Slot -> RowType] /\ rn \in Runner
      /\ UNCHANGED <<region, mutex, reserved, cl, sv>>
      /\ rn.pc = "publish" /\ reserved[s]
  BY <1>0 DEF Types, ServicePublish, serverVars, RunnerInv
<1>2. rn'.pc = "cleanup"
  BY <1>1 DEF ServicePublish, Runner
<1>3. /\ row'[s].shms = row[s].shms /\ row'[s].shm_created
      /\ row'[s].client_id = row[s].client_id /\ row'[s].type = row[s].type
      /\ row'[s].detach = row[s].detach
      /\ \A i \in Slot \ {s} : row'[i] = row[i]
  BY <1>0, <1>1 DEF ServicePublish, RowType
<1>4. Unregistered' /\ MutexInv' /\ RunnerInv'
  BY <1>1, <1>2 DEF Unregistered, MutexInv, Scanning, RunnerInv
<1>5. \A i \in Slot : RowInv(i)'
  <2> SUFFICES ASSUME NEW i \in Slot PROVE RowInv(i)'
    OBVIOUS
  <2>1. CASE i = s
    BY <2>1, <1>0, <1>1, <1>2, <1>3 DEF RowInv, Taken, Entered, Freeing, Allocating
  <2>2. CASE i # s
    BY <2>2, <1>0, <1>1, <1>2, <1>3 DEF RowInv, Taken, Entered, Freeing, Allocating
  <2> QED
    BY <2>1, <2>2
<1>6. \A c \in Client : ClientInv(c)'
  BY <1>1, <1>2, <1>3 DEF ClientInv, Holds, Freeing, Types, ClientThread
<1> QED
  BY <1>4, <1>5, <1>6

(* A row that clear_slot wipes was marked by its client, who has left it;  *)
(* the slot is not given away before client_reserved is taken back.        *)
LEMMA ClearRowInv ==
  ASSUME Types, TableInv, Types', ClearRow
  PROVE  TableInv'
<1> USE DEF TableInv
<1>0. PICK s \in Slot : s = rn.i
  BY DEF Types, Runner
<1>1. /\ row \in [Slot -> RowType] /\ rn \in Runner
      /\ UNCHANGED <<region, mutex, reserved, cl, sv>>
      /\ rn.pc = "clear" /\ row[s].detach
  BY <1>0 DEF Types, ClearRow, serverVars
<1>2. rn'.pc = "free" /\ rn'.i = s
  BY <1>0, <1>1 DEF ClearRow, Runner
<1>3. row'[s] = ZeroRow /\ \A i \in Slot \ {s} : row'[i] = row[i]
  BY <1>0, <1>1 DEF ClearRow
<1>4. reserved[s] /\ row[s].client_id # 0
  BY <1>1 DEF RowInv
<1>5. Unregistered' /\ MutexInv' /\ RunnerInv'
  BY <1>1, <1>2, <1>3, <1>4 DEF Unregistered, MutexInv, Scanning, RunnerInv
<1>6. \A i \in Slot : RowInv(i)'
  <2> SUFFICES ASSUME NEW i \in Slot PROVE RowInv(i)'
    OBVIOUS
  <2>1. CASE i = s
    BY <2>1, <1>1, <1>2, <1>3, RowTypes DEF RowInv, Freeing, Allocating
  <2>2. CASE i # s
    BY <2>2, <1>1, <1>2, <1>3 DEF RowInv, Taken, Entered, Freeing, Allocating
  <2> QED
    BY <2>1, <2>2
<1>7. \A c \in Client : ClientInv(c)'
  <2> SUFFICES ASSUME NEW c \in Client PROVE ClientInv(c)'
    OBVIOUS
  <2>1. ClientInv(c) /\ cl[c].slot \in Slot
    BY DEF Types, ClientThread
  <2>2. Holds(c) \/ cl[c].pc \in {"write", "reserve"} => cl[c].slot # s
    BY <1>1, <1>4, <2>1 DEF ClientInv
  <2> QED
    BY <1>1, <1>2, <1>3, <2>1, <2>2 DEF ClientInv, Holds, Freeing
<1> QED
  BY <1>5, <1>6, <1>7

LEMMA ClearFreeInv ==
  ASSUME Types, TableInv, Types', ClearFree
  PROVE  TableInv'
<1> USE DEF TableInv
<1>0. PICK s \in Slot : s = rn.i
  BY DEF Types, Runner
<1>1. /\ UNCHANGED <<region, mutex, row, cl, sv>>
      /\ rn.pc = "free" /\ row[s] = ZeroRow /\ rn'.pc \notin {"free", "publish"}
  BY <1>0, NextSlotType DEF ClearFree, serverVars, RunnerInv
<1>2. ~reserved'[s] /\ \A i \in Slot \ {s} : reserved'[i] = reserved[i]
  BY <1>0 DEF ClearFree, Types
<1>3. Unregistered' /\ MutexInv' /\ RunnerInv'
  BY <1>1 DEF Unregistered, MutexInv, Scanning, RunnerInv
<1>4. \A i \in Slot : RowInv(i)'
  <2> SUFFICES ASSUME NEW i \in Slot PROVE RowInv(i)'
    OBVIOUS
  <2>1. CASE i = s
    BY <2>1, <1>1, <1>2, RowTypes DEF RowInv, Freeing, Allocating
  <2>2. CASE i # s
    BY <2>2, <1>0, <1>1, <1>2 DEF RowInv, Taken, Entered, Freeing, Allocating
  <2> QED
    BY <2>1, <2>2
<1>5. \A c \in Client : ClientInv(c)'
  <2> SUFFICES ASSUME NEW c \in Client PROVE ClientInv(c)'
    OBVIOUS
  <2>1. ClientInv(c) /\ cl[c].slot \in Slot
    BY DEF Types, ClientThread
  <2>2. Holds(c) => cl[c].slot # s
    BY <1>0, <1>1, <2>1 DEF ClientInv, Freeing
  <2> QED
    BY <1>0, <1>1, <1>2, <2>1, <2>2 DEF ClientInv, Holds, Freeing
<1> QED
  BY <1>3, <1>4, <1>5

(* The server's own thread.                                                *)
LEMMA ServerMoves ==
  ASSUME Types, TableInv,
         UNCHANGED <<reserved, row, cl, rn>>, region' = region,
         sv.pc # "register", sv'.pc # "register",
         MutexInv'
  PROVE  TableInv'
<1> USE DEF TableInv
<1>1. Unregistered' /\ RunnerInv'
  BY DEF Unregistered, RunnerInv
<1>2. \A i \in Slot : RowInv(i)'
  BY DEF RowInv, Taken, Entered, Freeing, Allocating
<1>3. \A c \in Client : ClientInv(c)'
  BY DEF ClientInv, Holds, Freeing
<1> QED
  BY <1>1, <1>2, <1>3

LEMMA ServerMovesInv ==
  ASSUME Types, TableInv, Types',
         \/ AcceptCall \/ AcceptLock \/ AcceptTake \/ AcceptSkip \/ AcceptNone \/ AcceptType
         \/ AcceptShms \/ AcceptId \/ AcceptAgain \/ AcceptState \/ ShutdownSignal
         \/ ShutdownJoin
  PROVE  TableInv'
<1>1. UNCHANGED <<region, reserved, row, cl, rn>> /\ sv.pc # "register"
  BY DEF AcceptCall, AcceptLock, AcceptTake, AcceptSkip, AcceptNone, AcceptType, AcceptShms,
    AcceptId, AcceptAgain, AcceptState, ShutdownSignal, ShutdownJoin, tableVars
<1>2. sv \in Server
  BY DEF Types
<1>3. MutexInv
  BY DEF TableInv
<1> USE <1>1, <1>2 DEF Server, ServerGoto
<1>4. CASE AcceptLock
  <2>1. ~mutex /\ mutex' /\ sv'.pc = "scan"
    BY <1>4 DEF AcceptLock
  <2>2. MutexInv'
    BY <1>3, <2>1 DEF MutexInv, Scanning
  <2> QED
    BY <2>1, <2>2, ServerMoves
<1>5. CASE AcceptTake \/ AcceptNone
  <2>1. sv.pc = "scan" /\ ~mutex' /\ sv'.pc \in {"type", "serve"}
    BY <1>5 DEF AcceptTake, AcceptNone
  <2>2. MutexInv'
    BY <1>3, <2>1 DEF MutexInv, Scanning
  <2> QED
    BY <2>1, <2>2, ServerMoves
<1>6. CASE AcceptSkip
  <2>1. sv.pc = "scan" /\ mutex' = mutex /\ sv'.pc = "scan"
    BY <1>6 DEF AcceptSkip
  <2>2. MutexInv'
    BY <1>3, <2>1 DEF MutexInv, Scanning
  <2> QED
    BY <2>1, <2>2, ServerMoves
<1>7. CASE \/ AcceptCall \/ AcceptType \/ AcceptShms \/ AcceptId \/ AcceptAgain
           \/ AcceptState \/ ShutdownSignal \/ ShutdownJoin
  <2>1. mutex' = mutex /\ sv'.pc \notin {"scan", "register"}
    BY <1>7 DEF AcceptCall, AcceptType, AcceptShms, AcceptId, AcceptAgain, AcceptState,
      Returned, ShutdownSignal, ShutdownJoin
  <2>2. MutexInv'
    BY <1>3, <2>1 DEF MutexInv, Scanning
  <2> QED
    BY <2>1, <2>2, ServerMoves
<1> QED
  BY <1>4, <1>5, <1>6, <1>7

LEMMA AcceptAttachInv ==
  ASSUME Types, TableInv, Types', AcceptAttach
  PROVE  TableInv'
<1>0. PICK s \in Slot : s = sv.slot
  BY DEF Types, Server
<1>1. cl \in [Client -> ClientThread] /\ row \in [Slot -> RowType] /\ sv \in Server
  BY DEF Types
<1>2. /\ row' \in [Slot -> RowType]
      /\ UNCHANGED <<region, mutex, reserved, rn, cl>>
      /\ sv.pc = "attach" /\ sv'.pc = "serve"
  BY <1>1 DEF Types, AcceptAttach, Returned, Server
<1>3. \A i \in Slot : /\ row'[i].client_id = row[i].client_id
                      /\ row'[i].type = row[i].type
                      /\ row'[i].shm_created = row[i].shm_created
                      /\ row'[i].detach = row[i].detach
                      /\ row'[i].shms = row[i].shms
                      /\ ~row[i].shm_created => row'[i] = row[i]
  <2>1. row' = [row EXCEPT ![s].server_attached = @ \/ row[s].shm_created]
    BY <1>0 DEF AcceptAttach, set_server_attach_state
  <2>2. ~row[s].shm_created => row'[s] = row[s]
    BY <1>1, <2>1 DEF RowType
  <2> QED
    BY <1>1, <2>1, <2>2 DEF RowType
<1> QED
  BY <1>1, <1>2, <1>3, AttachInv

LEMMA RegisterServerInv ==
  ASSUME Types, TableInv, Types', RegisterServer
  PROVE  TableInv'
<1> USE DEF TableInv
<1>1. /\ sv.pc = "register" /\ sv'.pc = "serve" /\ ~mutex' /\ UNCHANGED <<row, cl>>
      /\ rn'.pc = "loop" /\ rn.pc = "off"
  BY DEF RegisterServer, ServerGoto, coord_create, Types, Server, Runner, Unregistered
<1>2. \A i \in Slot : ~reserved[i] /\ ~reserved'[i]
  BY <1>1 DEF RegisterServer, coord_create, Unregistered
<1>3. \A c \in Client : cl[c].pc = "start"
  BY <1>1 DEF Unregistered
<1>4. Unregistered' /\ MutexInv' /\ RunnerInv'
  BY <1>1, <1>3 DEF Unregistered, MutexInv, Scanning, RunnerInv
<1>5. \A i \in Slot : RowInv(i)'
  BY <1>1, <1>2, <1>3 DEF RowInv, Taken, Entered, Freeing, Allocating
<1>6. \A c \in Client : ClientInv(c)'
  BY <1>1, <1>3 DEF ClientInv, Holds, Freeing
<1> QED
  BY <1>4, <1>5, <1>6

(* Once shutdown marks rows, it goes on to its end.                        *)
LEMMA StillServing ==
  ASSUME Types, [Next]_vars, Serving'
  PROVE  Serving
<1>1. CASE ServerStep
  BY <1>1 DEF Types, Server, ServerStep, RegisterServer, AcceptCall, AcceptStep, AcceptLock,
    AcceptTake, AcceptSkip, AcceptNone, AcceptType, AcceptShms, AcceptId, AcceptAgain,
    AcceptState, AcceptAttach, ShutdownSignal, ShutdownStep, ShutdownJoin, ShutdownMark,
    CoordDelete, ServerGoto, Serving
<1>2. CASE sv' = sv
  BY <1>2 DEF Serving
<1>3. CASE PoolStep
  BY <1>2, <1>3 DEF PoolStep, RunnerLoop, PoolType, ServiceAllocate, ServicePublish,
    ServiceNothing, CleanUp, ClearRow, ClearFree, ClearNothing, serverVars
<1>4. ASSUME NEW c \in Client, ClientStep(c) PROVE Serving
  BY <1>2, <1>4 DEF ClientStep, CoordAttach, RequestLock, RequestTake, RequestSkip,
    RequestFail, RequestWrite, RequestReserve, OpenAwait, OpenPair, OpenAttach, CloseCall,
    CloseCrash, CloseSkip, CloseFound, CloseDetach, serverVars
<1> QED
  BY <1>1, <1>2, <1>3, <1>4 DEF Next, vars, serverVars

InitTable ==
  /\ sv.pc = "register" /\ region = "none" /\ rn.pc = "off"
  /\ \A c \in Client : cl[c].pc = "start"
  /\ \A i \in Slot : ~reserved[i] /\ row[i] = ZeroRow

LEMMA InitTableInv == Init => TableInv /\ InitTable
<1> SUFFICES ASSUME Init PROVE TableInv /\ InitTable
  OBVIOUS
<1>1. InitTable
  BY DEF Init, InitTable
<1>2. Unregistered /\ MutexInv /\ RunnerInv
  BY <1>1 DEF InitTable, Unregistered, MutexInv, Scanning, RunnerInv
<1>3. \A i \in Slot : RowInv(i)
  BY <1>1, RowTypes DEF InitTable, RowInv, Taken, Freeing, Allocating
<1>4. \A c \in Client : ClientInv(c)
  BY <1>1 DEF InitTable, ClientInv, Holds
<1> QED
  BY <1>1, <1>2, <1>3, <1>4 DEF TableInv

LEMMA NextTableInv ==
  ASSUME Types, Types', Serving => TableInv, [Next]_vars, Serving'
  PROVE  TableInv'
<1>0. Serving /\ TableInv
  BY StillServing
<1>1. ASSUME NEW c \in Client, ClientStep(c) PROVE TableInv'
  BY <1>0, <1>1, ClientMovesInv, RequestLockInv, RequestWriteInv, RequestReserveInv,
     OpenAttachInv, CloseDetachInv DEF ClientStep
<1>2. CASE PoolStep
  BY <1>0, <1>2, RunnerMovesInv, ServiceAllocateInv, ServicePublishInv, ClearRowInv,
     ClearFreeInv DEF PoolStep
<1>3. CASE ServerStep
  <2>1. ~ShutdownMark /\ ~CoordDelete
    BY <1>0 DEF Serving, ShutdownMark, CoordDelete
  <2> QED
    BY <1>0, <1>3, <2>1, ServerMovesInv, AcceptAttachInv, RegisterServerInv
    DEF ServerStep, AcceptStep, ShutdownStep
<1>4. CASE UNCHANGED vars
  BY <1>0, <1>4 DEF vars, tableVars, serverVars, TableInv, Unregistered, MutexInv, Scanning,
    RunnerInv, RowInv, Taken, Entered, Freeing, Allocating, ClientInv, Holds
<1> QED
  BY <1>1, <1>2, <1>3, <1>4 DEF Next

TableProtected == Types /\ (Serving => TableInv)

LEMMA TableInvariant == Spec => []TableProtected
<1>1. Init => TableProtected
  BY InitTypes, InitTableInv DEF TableProtected
<1>2. TableProtected /\ [Next]_vars => TableProtected'
  BY NextTypes, NextTableInv DEF TableProtected
<1> QED
  BY <1>1, <1>2, PTL DEF Spec

(***************************************************************************)
(* A slot stays its client's, unmarked, from request_slot until the client *)
(* marks it in client_close, for every number of clients and slots: the    *)
(* mutex keeps clients apart, and clear_slot, which does not take it, only *)
(* wipes rows that their own client has marked and frees the slot after    *)
(* that.                                                                   *)
(***************************************************************************)
THEOREM SlotStaysReserved == Spec => []ReservationKept
<1>1. TableProtected => ReservationKept
  BY DEF TableProtected, TableInv, ClientInv, ReservationKept
<1> QED
  BY <1>1, TableInvariant, PTL

-----------------------------------------------------------------------------
(***************************************************************************)
(* The queues of a connection.  No two clients' ids may give the same key, *)
(* and no client's two queues: the ids are hashes, and nothing in the code *)
(* keeps their keys apart.                                                 *)
(***************************************************************************)
KeysApart ==
  /\ \A c \in Client : Quot(c, 2) # Quot(c, 3)
  /\ \A c, d \in Client : c # d => KeysOf(c) \cap KeysOf(d) = {}

Queued(i) == row[i].shm_created \/ Allocating(i)

ConnInv(c) ==
  LET r == row[cl[c].slot]
  IN  /\ cl[c].pc \in {"reserve", "await", "pair", "attach"} => ~r.client_attached
      /\ cl[c].pc \in {"attach", "open", "find", "detach"} => cl[c].shms = r.shms
      /\ Connected(c) => /\ cl[c].conn.request = r.shms.request.shmid
                         /\ cl[c].conn.response = r.shms.response.shmid

LiveInv ==
  /\ UniqueKeys(shm)
  /\ \A i \in Slot : Queued(i) => Backed(shm, row[i].shms)
  /\ \A c \in Client : ConnInv(c)

LEMMA QueuedIsTaken ==
  ASSUME Types, TableInv, NEW i \in Slot, Queued(i)
  PROVE  /\ reserved[i] /\ ~Freeing(i) /\ Taken(i, row[i].client_id)
         /\ OwnKeys(row[i].shms, row[i].client_id)
<1>1. RowInv(i) /\ RunnerInv
  BY DEF TableInv
<1>2. reserved[i] /\ OwnKeys(row[i].shms, row[i].client_id)
  BY <1>1 DEF Queued, Allocating, RowInv, RunnerInv
<1>3. ~Freeing(i)
  BY <1>1, RowTypes DEF Queued, Allocating, Freeing, RunnerInv
<1> QED
  BY <1>1, <1>2, <1>3 DEF RowInv

LEMMA OwnKeysOf ==
  ASSUME NEW shms, NEW c \in Client, OwnKeys(shms, c)
  PROVE  shms.request.key \in KeysOf(c) /\ shms.response.key \in KeysOf(c)
BY DEF OwnKeys, KeysOf

(* Different rows have different queues, and a row's two queues differ.    *)
LEMMA QueuesApart ==
  ASSUME KeysApart, Types, TableInv, LiveInv, NEW i \in Slot, Queued(i)
  PROVE  /\ row[i].shms.request.shmid # row[i].shms.response.shmid
         /\ \A j \in Slot \ {i} :
              Queued(j) => Ids(row[i].shms) \cap Ids(row[j].shms) = {}
<1>1. ASSUME NEW j \in Slot, Queued(j)
      PROVE  /\ row[j].client_id \in Client /\ cl[row[j].client_id].slot = j
             /\ OwnKeys(row[j].shms, row[j].client_id) /\ Backed(shm, row[j].shms)
  BY <1>1, QueuedIsTaken DEF Taken, LiveInv
<1>2. row[i].shms.request.key # row[i].shms.response.key
  <2>1. row[i].client_id \in Client /\ row[i].client_id \in Int
    BY <1>1, ClientIds
  <2> QED
    BY <1>1, <2>1 DEF KeysApart, OwnKeys
<1>3. ASSUME NEW j \in Slot \ {i}, Queued(j)
      PROVE  Ids(row[i].shms) \cap Ids(row[j].shms) = {}
  <2>1. row[i].client_id # row[j].client_id
    BY <1>1, <1>3
  <2>2. KeysOf(row[i].client_id) \cap KeysOf(row[j].client_id) = {}
    BY <1>1, <1>3, <2>1 DEF KeysApart
  <2>3. \A k \in Ids(row[i].shms) : shm[k].key \in KeysOf(row[i].client_id)
    BY <1>1, OwnKeysOf DEF Ids, Backed
  <2>4. \A k \in Ids(row[j].shms) : shm[k].key \in KeysOf(row[j].client_id)
    BY <1>1, <1>3, OwnKeysOf DEF Ids, Backed
  <2> QED
    BY <2>2, <2>3, <2>4
<1> QED
  BY <1>1, <1>2, <1>3 DEF Backed

(* Steps that neither make nor remove queues.                              *)
LEMMA LiveFrame ==
  ASSUME LiveInv,
         DOMAIN shm' = DOMAIN shm,
         \A k \in DOMAIN shm : shm'[k].key = shm[k].key /\ shm'[k].linked = shm[k].linked,
         \A i \in Slot : Queued(i)' => Queued(i) /\ row'[i].shms = row[i].shms,
         \A c \in Client : ConnInv(c)'
  PROVE  LiveInv'
<1>1. UniqueKeys(shm)'
  BY DEF LiveInv, UniqueKeys
<1>2. \A i \in Slot : Queued(i)' => Backed(shm, row[i].shms)'
  BY DEF LiveInv, Backed
<1> QED
  BY <1>1, <1>2 DEF LiveInv

LEMMA LiveClientMoves ==
  ASSUME Types, TableInv, LiveInv, Types', NEW c \in Client,
         \/ CoordAttach(c) \/ RequestTake(c) \/ RequestSkip(c) \/ OpenAwait(c)
         \/ OpenPair(c) \/ CloseCall(c) \/ CloseCrash(c) \/ CloseSkip(c) \/ CloseFound(c)
         \/ RequestLock(c) \/ RequestFail(c) \/ RequestReserve(c)
  PROVE  LiveInv'
<1>0. UNCHANGED <<row, rn, shm>> /\ cl \in [Client -> ClientThread]
  BY DEF Types, CoordAttach, RequestTake, RequestSkip, OpenAwait, OpenPair, CloseCall,
    CloseCrash, CloseSkip, CloseFound, RequestLock, RequestFail, RequestReserve, tableVars
<1>1. \A d \in Client \ {c} : cl'[d] = cl[d]
  BY <1>0 DEF CoordAttach, RequestTake, RequestSkip, OpenAwait, OpenPair, CloseCall,
    CloseCrash, CloseSkip, CloseFound, RequestLock, RequestFail, RequestReserve, Goto
<1>2. ConnInv(c) /\ ClientInv(c)
  BY DEF LiveInv, TableInv
<1>3. ConnInv(c)'
  <2> USE <1>0, <1>2 DEF ClientThread, Goto, ConnInv, Connected
  <2>1. CASE CoordAttach(c) \/ RequestTake(c) \/ RequestSkip(c) \/ CloseCrash(c)
             \/ RequestLock(c) \/ RequestFail(c)
    <3>1. cl'[c].pc \in {"lock", "write", "scan", "crashed"}
      BY <2>1 DEF CoordAttach, RequestTake, RequestSkip, CloseCrash, RequestLock, RequestFail
    <3> QED
      BY <3>1
  <2>2. CASE OpenAwait(c) \/ RequestReserve(c)
    BY <2>2 DEF OpenAwait, RequestReserve
  <2>3. CASE OpenPair(c)
    <3>1. cl[c].pc = "pair" /\ row[cl[c].slot].shm_created
      BY <2>3 DEF OpenPair, ClientInv
    <3>2. cl'[c].shms = row[cl[c].slot].shms
      BY <2>3, <3>1 DEF OpenPair, check_slot
    <3>3. cl'[c].pc = "attach" /\ cl'[c].slot = cl[c].slot
      BY <2>3 DEF OpenPair
    <3> QED
      BY <3>1, <3>2, <3>3
  <2>4. CASE CloseCall(c) \/ CloseFound(c)
    BY <2>4 DEF CloseCall, CloseFound
  <2>5. CASE CloseSkip(c)
    BY <2>5 DEF CloseSkip
  <2> QED
    BY <2>1, <2>2, <2>3, <2>4, <2>5
<1>4. \A d \in Client : ConnInv(d)'
  BY <1>0, <1>1, <1>3 DEF LiveInv, ConnInv, Connected
<1> QED
  BY <1>0, <1>4, LiveFrame DEF Queued, Allocating

LEMMA LiveRequestWrite ==
  ASSUME Types, TableInv, LiveInv, Types', NEW c \in Client, RequestWrite(c)
  PROVE  LiveInv'
<1>0. PICK s \in Slot : s = cl[c].slot
  BY DEF Types, ClientThread
<1>1. /\ cl \in [Client -> ClientThread] /\ row \in [Slot -> RowType]
      /\ UNCHANGED <<shm, rn>>
  BY DEF Types, RequestWrite
<1>2. /\ cl[c].pc = "write" /\ cl'[c].pc = "reserve" /\ cl'[c].slot = s
      /\ \A d \in Client \ {c} : cl'[d] = cl[d]
  BY <1>0, <1>1 DEF RequestWrite, Goto, ClientThread
<1>3. /\ ~row'[s].client_attached /\ ~row'[s].shm_created
      /\ \A i \in Slot \ {s} : row'[i] = row[i]
  <2>1. row' = [row EXCEPT ![s] =
                  [@ EXCEPT !.client_id = c, !.detach = FALSE, !.type = TypeOf[c],
                            !.client_attached = FALSE, !.server_attached = FALSE,
                            !.shm_created = FALSE]]
    BY <1>0 DEF RequestWrite
  <2> QED
    BY <1>1, <2>1 DEF RowType
<1>4. ~reserved[s]
  BY <1>0, <1>2 DEF TableInv, ClientInv
<1>5. ~Allocating(s)
  BY <1>4 DEF TableInv, RunnerInv, Allocating
<1>6. \A i \in Slot : Queued(i)' => Queued(i) /\ row'[i].shms = row[i].shms
  BY <1>1, <1>3, <1>5 DEF Queued, Allocating
<1>7. \A d \in Client : ConnInv(d)'
  <2> SUFFICES ASSUME NEW d \in Client PROVE ConnInv(d)'
    OBVIOUS
  <2>1. CASE d = c
    BY <2>1, <1>2, <1>3 DEF ConnInv, Connected
  <2>2. CASE d # c
    <3>1. ClientInv(d) /\ ConnInv(d) /\ cl[d].slot \in Slot /\ cl'[d] = cl[d]
      BY <1>1, <1>2, <2>2 DEF ClientThread, TableInv, LiveInv
    <3>2. Holds(d) => cl[d].slot # s
      BY <1>4, <3>1 DEF ClientInv
    <3>3. cl[d].pc # "reserve"
      BY <1>2, <2>2 DEF TableInv, MutexInv, Scanning
    <3> QED
      BY <1>3, <3>1, <3>2, <3>3 DEF ConnInv, Connected, Holds
  <2> QED
    BY <2>1, <2>2
<1> QED
  BY <1>1, <1>6, <1>7, LiveFrame

(* The client maps the two segments that its row names, once.              *)
LEMMA LiveOpenAttach ==
  ASSUME Types, TableInv, LiveInv, Types', NEW c \in Client, OpenAttach(c)
  PROVE  LiveInv'
<1>0. PICK s \in Slot : s = cl[c].slot
  BY DEF Types, ClientThread
<1>1. /\ cl \in [Client -> ClientThread] /\ row \in [Slot -> RowType]
      /\ shm \in Seq(Segment) /\ rn' = rn
  BY DEF Types, OpenAttach
<1>2. /\ cl[c].pc = "attach" /\ ~row[s].client_attached /\ row[s].shm_created
      /\ cl[c].shms = row[s].shms
  BY <1>0 DEF OpenAttach, LiveInv, ConnInv, TableInv, ClientInv
<1>3. Backed(shm, row[s].shms)
  BY <1>2 DEF LiveInv, Queued
<1>4. /\ shm' = Mapped(shm, Ids(row[s].shms))
      /\ row' = [row EXCEPT ![s].client_attached = @ \/ row[s].shm_created]
      /\ cl' = [cl EXCEPT ![c].pc = "open", ![c].conn =
                  [request  |-> shm_attach(shm, row[s].shms.request.shmid),
                   response |-> shm_attach(shm, row[s].shms.response.shmid)]]
  BY <1>0, <1>2 DEF OpenAttach, get_client_attach_state, set_client_attach_state
<1>5. /\ cl'[c].pc = "open" /\ cl'[c].slot = s /\ cl'[c].shms = row[s].shms
      /\ cl'[c].conn.request = row[s].shms.request.shmid
      /\ cl'[c].conn.response = row[s].shms.response.shmid
      /\ \A d \in Client \ {c} : cl'[d] = cl[d]
  <2>1. /\ shm_attach(shm, row[s].shms.request.shmid) = row[s].shms.request.shmid
        /\ shm_attach(shm, row[s].shms.response.shmid) = row[s].shms.response.shmid
    BY <1>3 DEF shm_attach, Attachable, Backed
  <2> QED
    BY <1>0, <1>1, <1>2, <1>4, <2>1 DEF ClientThread
<1>6. /\ row'[s].shms = row[s].shms /\ row'[s].shm_created = row[s].shm_created
      /\ \A i \in Slot \ {s} : row'[i] = row[i]
  BY <1>1, <1>4 DEF RowType
<1>7. \A d \in Client : ConnInv(d)'
  <2> SUFFICES ASSUME NEW d \in Client PROVE ConnInv(d)'
    OBVIOUS
  <2>1. CASE d = c
    BY <2>1, <1>5, <1>6 DEF ConnInv, Connected
  <2>2. CASE d # c
    <3>1. ClientInv(d) /\ ConnInv(d) /\ cl[d].slot \in Slot /\ cl'[d] = cl[d]
      BY <1>1, <1>5, <2>2 DEF ClientThread, TableInv, LiveInv
    <3>2. row[s].client_id = c
      BY <1>0, <1>2 DEF TableInv, ClientInv, Holds
    <3>3. Holds(d) \/ cl[d].pc = "reserve" => cl[d].slot # s
      BY <2>2, <3>1, <3>2 DEF ClientInv
    <3> QED
      BY <1>6, <3>1, <3>3 DEF ConnInv, Connected, Holds
  <2> QED
    BY <2>1, <2>2
<1>8. \A i \in Slot : Queued(i)' => Queued(i) /\ row'[i].shms = row[i].shms
  BY <1>1, <1>6 DEF Queued, Allocating
<1>9. /\ DOMAIN shm' = DOMAIN shm
      /\ \A k \in DOMAIN shm : shm'[k].key = shm[k].key /\ shm'[k].linked = shm[k].linked
  BY <1>1, <1>4, ShmMapped DEF KeepsKeys
<1> QED
  BY <1>7, <1>8, <1>9, LiveFrame

LEMMA LiveCloseDetach ==
  ASSUME Types, TableInv, LiveInv, Types', NEW c \in Client, CloseDetach(c)
  PROVE  LiveInv'
<1>1. /\ cl \in [Client -> ClientThread] /\ row \in [Slot -> RowType]
      /\ UNCHANGED <<shm, rn>>
  BY DEF Types, CloseDetach
<1>2. cl'[c].pc = "closed" /\ \A d \in Client \ {c} : cl'[d] = cl[d]
  BY <1>1 DEF CloseDetach, Goto, ClientThread
<1>3. \A i \in Slot : /\ row'[i].client_attached = row[i].client_attached
                      /\ row'[i].shm_created = row[i].shm_created
                      /\ row'[i].shms = row[i].shms
  BY <1>1 DEF CloseDetach, RowType
<1>4. \A d \in Client : ConnInv(d)'
  <2> SUFFICES ASSUME NEW d \in Client PROVE ConnInv(d)'
    OBVIOUS
  <2>1. ConnInv(d) /\ cl[d].slot \in Slot
    BY <1>1 DEF ClientThread, LiveInv
  <2> QED
    BY <1>2, <1>3, <2>1 DEF ConnInv, Connected
<1> QED
  BY <1>1, <1>3, <1>4, LiveFrame DEF Queued, Allocating

LEMMA LiveServiceAllocate ==
  ASSUME Types, TableInv, LiveInv, Types', ServiceAllocate
  PROVE  LiveInv'
<1>0. PICK s \in Slot : s = rn.i
  BY DEF Types, Runner
<1>1. /\ row \in [Slot -> RowType] /\ rn \in Runner /\ cl' = cl
      /\ rn.pc = "service" /\ reserved[s] /\ ~row[s].shm_created
  BY <1>0 DEF Types, ServiceAllocate
<1>2. rn'.pc = "publish" /\ rn'.i = s
  BY <1>0, <1>1 DEF ServiceAllocate, Runner
<1>3. PICK a : a = allocation(rn.type, row[s].client_id)
  OBVIOUS
<1>4. /\ KeepsKeys(shm, a.mem) /\ Backed(a.mem, a.shms)
      /\ \A k \in DOMAIN shm : a.mem[k].linked = shm[k].linked
      /\ UniqueKeys(shm) => UniqueKeys(a.mem)
  BY <1>1, <1>3, Allocation DEF RowType, Runner
<1>5. /\ row'[s].shms = a.shms /\ shm' = a.mem
      /\ row'[s].client_attached = row[s].client_attached
      /\ \A i \in Slot \ {s} : row'[i] = row[i]
  BY <1>0, <1>1, <1>3 DEF ServiceAllocate, RowType
<1>6. UniqueKeys(shm)'
  BY <1>4, <1>5 DEF LiveInv, UniqueKeys
<1>7. \A i \in Slot : Queued(i)' => Backed(shm, row[i].shms)'
  <2> SUFFICES ASSUME NEW i \in Slot, Queued(i)' PROVE Backed(shm, row[i].shms)'
    OBVIOUS
  <2>1. CASE i = s
    BY <2>1, <1>4, <1>5 DEF Backed
  <2>2. CASE i # s
    <3>1. Queued(i) /\ row'[i] = row[i]
      BY <2>2, <1>2, <1>5 DEF Queued, Allocating
    <3>2. Backed(shm, row[i].shms)
      BY <3>1 DEF LiveInv
    <3> QED
      BY <1>4, <1>5, <3>1, <3>2 DEF Backed, KeepsKeys
  <2> QED
    BY <2>1, <2>2
<1>8. \A d \in Client : ConnInv(d)'
  <2> SUFFICES ASSUME NEW d \in Client PROVE ConnInv(d)'
    OBVIOUS
  <2>1. ClientInv(d) /\ ConnInv(d) /\ cl[d].slot \in Slot
    BY DEF Types, ClientThread, TableInv, LiveInv
  <2>2. CASE cl[d].slot = s
    BY <1>1, <1>5, <2>1, <2>2 DEF ConnInv, Connected, ClientInv
  <2>3. CASE cl[d].slot # s
    BY <1>1, <1>5, <2>1, <2>3 DEF ConnInv, Connected
  <2> QED
    BY <2>2, <2>3
<1> QED
  BY <1>6, <1>7, <1>8 DEF LiveInv

(* The segments clear_slot removes are no other row's.                     *)
LEMMA LiveClearRow ==
  ASSUME KeysApart, Types, TableInv, LiveInv, Types', ClearRow
  PROVE  LiveInv'
<1>0. PICK s \in Slot : s = rn.i
  BY DEF Types, Runner
<1>1. /\ row \in [Slot -> RowType] /\ shm \in Seq(Segment) /\ rn \in Runner /\ cl' = cl
      /\ rn.pc = "clear" /\ row[s].detach /\ row[s].shm_created /\ reserved[s]
  BY <1>0 DEF Types, ClearRow, TableInv, RowInv
<1>2. rn'.pc = "free"
  BY <1>1 DEF ClearRow, Runner
<1>3. /\ row'[s] = ZeroRow /\ \A i \in Slot \ {s} : row'[i] = row[i]
      /\ shm' = shm_remove(shm, Ids(row[s].shms))
  BY <1>0, <1>1 DEF ClearRow
<1>4. /\ DOMAIN shm' = DOMAIN shm
      /\ \A k \in DOMAIN shm :
           /\ shm'[k].key = shm[k].key
           /\ shm'[k].linked <=> shm[k].linked /\ k \notin Ids(row[s].shms)
  BY <1>1, <1>3, ShmRemoved DEF KeepsKeys
<1>5. UniqueKeys(shm)'
  BY <1>4 DEF LiveInv, UniqueKeys
<1>6. \A i \in Slot : Queued(i)' => Backed(shm, row[i].shms)'
  <2> SUFFICES ASSUME NEW i \in Slot, Queued(i)' PROVE Backed(shm, row[i].shms)'
    OBVIOUS
  <2>1. i # s
    BY <1>2, <1>3, RowTypes DEF Queued, Allocating
  <2>2. Queued(i) /\ Queued(s) /\ row'[i] = row[i]
    BY <2>1, <1>1, <1>2, <1>3 DEF Queued, Allocating
  <2>3. Ids(row[s].shms) \cap Ids(row[i].shms) = {}
    BY <2>1, <2>2, QueuesApart
  <2>4. Backed(shm, row[i].shms)
    BY <2>2 DEF LiveInv
  <2> QED
    BY <1>4, <2>2, <2>3, <2>4 DEF Backed, Ids
<1>7. \A d \in Client : ConnInv(d)'
  <2> SUFFICES ASSUME NEW d \in Client PROVE ConnInv(d)'
    OBVIOUS
  <2>1. ClientInv(d) /\ ConnInv(d) /\ cl[d].slot \in Slot
    BY DEF Types, ClientThread, TableInv, LiveInv
  <2>2. Holds(d) \/ cl[d].pc = "reserve" => cl[d].slot # s
    BY <1>1, <2>1 DEF ClientInv
  <2> QED
    BY <1>1, <1>3, <2>1, <2>2 DEF ConnInv, Connected, Holds
<1> QED
  BY <1>5, <1>6, <1>7 DEF LiveInv

LEMMA LiveRunnerMoves ==
  ASSUME Types, TableInv, LiveInv, Types',
         \/ RunnerLoop \/ PoolType \/ ServiceNothing \/ CleanUp \/ ClearNothing \/ ClearFree
         \/ ServicePublish
  PROVE  LiveInv'
<1>1. UNCHANGED <<shm, cl>> /\ rn \in Runner /\ row \in [Slot -> RowType] /\ rn.i \in Slot
  BY DEF RunnerLoop, PoolType, ServiceNothing, CleanUp, ClearNothing, ClearFree,
    ServicePublish, Types, Runner
<1>2. rn'.pc # "publish"
  BY <1>1, NextSlotType DEF RunnerLoop, PoolType, ServiceNothing, CleanUp, ClearNothing,
    ClearFree, ServicePublish, Runner
<1>3. \A i \in Slot : /\ row'[i].client_attached = row[i].client_attached
                      /\ row'[i].shms = row[i].shms
                      /\ row'[i].shm_created => Queued(i)
  <2>1. CASE ServicePublish
    BY <1>1, <2>1 DEF ServicePublish, RowType, Queued, Allocating
  <2>2. CASE row' = row
    BY <2>2 DEF Queued
  <2> QED
    BY <2>1, <2>2 DEF RunnerLoop, PoolType, ServiceNothing, CleanUp, ClearNothing, ClearFree,
      tableVars
<1>4. \A d \in Client : ConnInv(d)'
  <2> SUFFICES ASSUME NEW d \in Client PROVE ConnInv(d)'
    OBVIOUS
  <2>1. ConnInv(d) /\ cl[d].slot \in Slot
    BY DEF Types, ClientThread, LiveInv
  <2> QED
    BY <1>1, <1>3, <2>1 DEF ConnInv, Connected
<1>5. \A i \in Slot : Queued(i)' => Queued(i) /\ row'[i].shms = row[i].shms
  BY <1>2, <1>3 DEF Queued, Allocating
<1> QED
  BY <1>1, <1>4, <1>5, LiveFrame

LEMMA LiveServer ==
  ASSUME Types, TableInv, LiveInv, Types', ServerStep, ~ShutdownMark
  PROVE  LiveInv'
<1>1. cl' = cl /\ rn \in Runner /\ row \in [Slot -> RowType] /\ shm \in Seq(Segment)
  BY DEF Types, ServerStep, RegisterServer, AcceptCall, AcceptStep, AcceptLock, AcceptTake,
    AcceptSkip, AcceptNone, AcceptType, AcceptShms, AcceptId, AcceptAgain, AcceptState,
    AcceptAttach, ShutdownSignal, ShutdownStep, ShutdownJoin, CoordDelete
<1>2. rn' = rn \/ rn'.pc = "loop"
  BY <1>1 DEF ServerStep, RegisterServer, AcceptCall, AcceptStep, AcceptLock, AcceptTake,
    AcceptSkip, AcceptNone, AcceptType, AcceptShms, AcceptId, AcceptAgain, AcceptState,
    AcceptAttach, ShutdownSignal, ShutdownStep, ShutdownJoin, CoordDelete, Runner
<1>3. /\ DOMAIN shm' = DOMAIN shm
      /\ \A k \in DOMAIN shm : shm'[k].key = shm[k].key /\ shm'[k].linked = shm[k].linked
      /\ \A i \in Slot : /\ row'[i].client_attached = row[i].client_attached
                         /\ row'[i].shms = row[i].shms
                         /\ row'[i].shm_created = row[i].shm_created
  <2>1. CASE AcceptAttach
    <3>1. shm' = Mapped(shm, Ids(sv.shms))
      BY <2>1 DEF AcceptAttach
    <3>2. \A i \in Slot : /\ row'[i].client_attached = row[i].client_attached
                          /\ row'[i].shms = row[i].shms
                          /\ row'[i].shm_created = row[i].shm_created
      BY <1>1, <2>1 DEF AcceptAttach, set_server_attach_state, RowType
    <3> QED
      BY <1>1, <3>1, <3>2, ShmMapped DEF KeepsKeys
  <2>2. CASE UNCHANGED <<shm, row>>
    BY <2>2
  <2> QED
    BY <2>1, <2>2 DEF ServerStep, RegisterServer, AcceptCall, AcceptStep, AcceptLock,
      AcceptTake, AcceptSkip, AcceptNone, AcceptType, AcceptShms, AcceptId, AcceptAgain,
      AcceptState, ShutdownSignal, ShutdownStep, ShutdownJoin, CoordDelete, tableVars
<1>4. \A d \in Client : ConnInv(d)'
  <2> SUFFICES ASSUME NEW d \in Client PROVE ConnInv(d)'
    OBVIOUS
  <2>1. ConnInv(d) /\ cl[d].slot \in Slot
    BY DEF Types, ClientThread, LiveInv
  <2> QED
    BY <1>1, <1>3, <2>1 DEF ConnInv, Connected
<1>5. \A i \in Slot : Queued(i)' => Queued(i) /\ row'[i].shms = row[i].shms
  BY <1>2, <1>3 DEF Queued, Allocating
<1> QED
  BY <1>3, <1>4, <1>5, LiveFrame

LEMMA NextLiveInv ==
  ASSUME KeysApart, Types, TableInv, LiveInv, Types', [Next]_vars, Serving, Serving'
  PROVE  LiveInv'
<1>1. ASSUME NEW c \in Client, ClientStep(c) PROVE LiveInv'
  BY <1>1, LiveClientMoves, LiveRequestWrite, LiveOpenAttach, LiveCloseDetach DEF ClientStep
<1>2. CASE PoolStep
  BY <1>2, LiveRunnerMoves, LiveServiceAllocate, LiveClearRow DEF PoolStep
<1>3. CASE ServerStep
  <2>1. ~ShutdownMark
    BY DEF Serving, ShutdownMark
  <2> QED
    BY <1>3, <2>1, LiveServer
<1>4. CASE UNCHANGED vars
  BY <1>4 DEF vars, tableVars, LiveInv, UniqueKeys, Backed, Queued, Allocating, ConnInv,
    Connected
<1> QED
  BY <1>1, <1>2, <1>3, <1>4 DEF Next

LEMMA InitLiveInv == Init => LiveInv
<1> SUFFICES ASSUME Init PROVE LiveInv
  OBVIOUS
<1>1. InitTable
  BY InitTableInv
<1>2. DOMAIN shm = {}
  <2>1. shm = << >>
    BY DEF Init
  <2> QED
    BY <2>1, EmptySeq
<1>3. UniqueKeys(shm)
  BY <1>2 DEF UniqueKeys
<1>4. \A i \in Slot : ~Queued(i)
  BY <1>1, RowTypes DEF InitTable, Queued, Allocating
<1>5. \A c \in Client : ConnInv(c)
  BY <1>1 DEF InitTable, ConnInv, Connected
<1> QED
  BY <1>3, <1>4, <1>5 DEF LiveInv

QueuesProtected == TableProtected /\ (Serving => LiveInv)

LEMMA QueuesInvariant ==
  ASSUME KeysApart
  PROVE  Spec => []QueuesProtected
<1>1. Init => QueuesProtected
  BY InitTypes, InitTableInv, InitLiveInv DEF QueuesProtected, TableProtected
<1>2. QueuesProtected /\ [Next]_vars => QueuesProtected'
  <2> SUFFICES ASSUME QueuesProtected, [Next]_vars PROVE QueuesProtected'
    OBVIOUS
  <2>1. TableProtected'
    BY NextTypes, NextTableInv DEF QueuesProtected, TableProtected
  <2>2. ASSUME Serving' PROVE LiveInv'
    BY <2>1, <2>2, StillServing, NextLiveInv DEF QueuesProtected, TableProtected
  <2> QED
    BY <2>1, <2>2 DEF QueuesProtected
<1> QED
  BY <1>1, <1>2, PTL DEF Spec

(***************************************************************************)
(* Until a client closes, its connection is attached to two different      *)
(* segments that exist, those its row names: manage_pool, which removes    *)
(* segments by the shmids in the rows, never removes them.  This needs ids *)
(* whose keys are apart, and no bound on clients, slots or the reading of  *)
(* a row's type before the row is taken.                                   *)
(***************************************************************************)
THEOREM QueuesStayLive ==
  ASSUME KeysApart
  PROVE  Spec => []OpenQueuesLive
<1>1. QueuesProtected => OpenQueuesLive
  <2> SUFFICES ASSUME QueuesProtected, NEW c \in Client, Connected(c), Serving
               PROVE  LET q == {cl[c].conn.request, cl[c].conn.response}
                      IN  /\ Cardinality(q) = 2
                          /\ q = Ids(row[cl[c].slot].shms)
                          /\ \A k \in q : k \in DOMAIN shm /\ shm[k].linked
    BY DEF OpenQueuesLive
  <2>0. Types /\ TableInv /\ LiveInv
    BY DEF QueuesProtected, TableProtected
  <2>1. PICK s \in Slot : s = cl[c].slot
    BY <2>0 DEF Types, ClientThread
  <2>2. ConnInv(c) /\ Queued(s)
    BY <2>0, <2>1 DEF LiveInv, TableInv, ClientInv, Connected, Queued
  <2>3. Backed(shm, row[s].shms) /\ row[s].shms.request.shmid # row[s].shms.response.shmid
    BY <2>0, <2>2, QueuesApart DEF LiveInv
  <2>4. /\ cl[c].conn.request = row[s].shms.request.shmid
        /\ cl[c].conn.response = row[s].shms.response.shmid
    BY <2>1, <2>2 DEF ConnInv
  <2>5. ASSUME NEW a, NEW b, a # b PROVE Cardinality({a, b}) = 2
    <3>1. IsFiniteSet({a}) /\ Cardinality({a}) = 1
      BY FS_Singleton
    <3>2. Cardinality({a} \cup {b}) = 2
      BY <2>5, <3>1, FS_AddElement
    <3>3. {a} \cup {b} = {a, b}
      OBVIOUS
    <3> QED
      BY <3>2, <3>3
  <2> QED
    BY <2>1, <2>3, <2>4, <2>5 DEF Ids, Backed
<1> QED
  BY <1>1, QueuesInvariant, PTL


-----------------------------------------------------------------------------
(***************************************************************************)
(* What accept reads, when no client closes.  A row that has queues then   *)
(* keeps them, so the looks of accept, of which only the first is under    *)
(* the mutex, all see the same client's row.                               *)
(***************************************************************************)
NobodyCloses ==
  /\ \A c \in Client : cl[c].pc \notin {"find", "detach"}
  /\ \A i \in Slot : ~row[i].detach
  /\ \A k \in DOMAIN shm : shm[k].linked

QueuesBacked == \A i \in Slot : Queued(i) => Backed(shm, row[i].shms)

AcceptSees ==
  LET r == row[sv.slot]
  IN  /\ sv.pc \in {"type", "shms", "id", "again", "state", "attach"} => r.shm_created
      /\ sv.pc \in {"shms", "id", "again", "state", "attach"} => sv.type = r.type
      /\ sv.pc \in {"id", "again", "state", "attach"} => sv.shms = r.shms
      /\ sv.pc \in {"again", "state", "attach"} => sv.id = r.client_id

StayInv == EveryoneStays => NobodyCloses /\ QueuesBacked /\ AcceptSees

OneClient(a) ==
  /\ a.id \in Client
  /\ a.type = TypeOf[a.id]
  /\ \A k \in {a.request, a.response} : k \in DOMAIN shm /\ shm[k].key \in KeysOf(a.id)

(* A row that has queues stays as accept needs it.                         *)
RowsStay ==
  \A i \in Slot : row[i].shm_created =>
    /\ row'[i].shm_created /\ row'[i].client_id = row[i].client_id
    /\ row'[i].type = row[i].type /\ row'[i].shms = row[i].shms

LEMMA WhoCloses ==
  ASSUME Types, [Next]_vars
  PROVE  EveryoneStays' <=> EveryoneStays
<1>1. ASSUME NEW c \in Client, ClientStep(c)
      PROVE  \A d \in Client : cl'[d].closes = cl[d].closes
  <2>1. cl \in [Client -> ClientThread]
    BY DEF Types
  <2>2. CASE RequestLock(c) \/ RequestSkip(c)
    BY <2>1, <2>2 DEF ClientThread, RequestLock, RequestSkip
  <2>3. CASE OpenPair(c)
    BY <2>1, <2>3 DEF ClientThread, OpenPair
  <2>4. CASE OpenAttach(c)
    BY <2>1, <2>4 DEF ClientThread, OpenAttach
  <2>5. CASE CloseCall(c)
    BY <2>1, <2>5 DEF ClientThread, CloseCall
  <2>6. CASE CloseSkip(c)
    BY <2>1, <2>6 DEF ClientThread, CloseSkip
  <2>7. CASE \/ Goto(c, "lock") \/ Goto(c, "write") \/ Goto(c, "reserve")
             \/ Goto(c, "await") \/ Goto(c, "pair") \/ Goto(c, "crashed")
             \/ Goto(c, "detach") \/ Goto(c, "closed")
    BY <2>1, <2>7 DEF ClientThread, Goto
  <2> QED
    BY <1>1, <2>2, <2>3, <2>4, <2>5, <2>6, <2>7 DEF ClientStep, CoordAttach, RequestTake,
      RequestFail, RequestWrite, RequestReserve, OpenAwait, CloseCrash, CloseFound,
      CloseDetach
<1>2. CASE PoolStep
  BY <1>2 DEF PoolStep, RunnerLoop, PoolType, ServiceAllocate, ServicePublish,
    ServiceNothing, CleanUp, ClearRow, ClearFree, ClearNothing, EveryoneStays
<1>3. CASE ServerStep
  BY <1>3 DEF ServerStep, RegisterServer, AcceptCall, AcceptStep, AcceptLock, AcceptTake,
    AcceptSkip, AcceptNone, AcceptType, AcceptShms, AcceptId, AcceptAgain, AcceptState,
    AcceptAttach, ShutdownSignal, ShutdownStep, ShutdownJoin, ShutdownMark, CoordDelete,
    EveryoneStays
<1>4. CASE UNCHANGED vars
  BY <1>4 DEF vars, EveryoneStays
<1> QED
  BY <1>1, <1>2, <1>3, <1>4 DEF Next, EveryoneStays

(* The kernel keeps a segment's shmid and key, shutdown or not.            *)
LEMMA KeysKept ==
  ASSUME Types, [Next]_vars
  PROVE  KeepsKeys(shm, shm')
<1>0. shm \in Seq(Segment) /\ (shm' = shm => KeepsKeys(shm, shm'))
  BY DEF Types, KeepsKeys
<1>1. ASSUME NEW c \in Client, ClientStep(c) PROVE KeepsKeys(shm, shm')
  <2>1. CASE OpenAttach(c)
    BY <1>0, <2>1, ShmMapped DEF OpenAttach
  <2> QED
    BY <1>0, <1>1, <2>1 DEF ClientStep, CoordAttach, RequestLock, RequestTake,
      RequestSkip, RequestFail, RequestWrite, RequestReserve, OpenAwait, OpenPair,
      CloseCall, CloseCrash, CloseSkip, CloseFound, CloseDetach
<1>2. CASE PoolStep
  <2>1. CASE ServiceAllocate
    <3>1. PICK a : a = allocation(rn.type, row[rn.i].client_id)
      OBVIOUS
    <3>2. rn.type \in QUEUE_TYPE /\ row[rn.i].client_id \in Client \cup {0}
      BY DEF Types, Runner, RowType
    <3>3. KeepsKeys(shm, a.mem)
      BY <3>1, <3>2, Allocation
    <3> QED
      BY <2>1, <3>1, <3>3 DEF ServiceAllocate
  <2>2. CASE ClearRow
    BY <1>0, <2>2, ShmRemoved DEF ClearRow
  <2> QED
    BY <1>0, <1>2, <2>1, <2>2 DEF PoolStep, RunnerLoop, PoolType, ServicePublish,
      ServiceNothing, CleanUp, ClearFree, ClearNothing
<1>3. CASE ServerStep
  <2>1. CASE AcceptAttach
    BY <1>0, <2>1, ShmMapped DEF AcceptAttach
  <2> QED
    BY <1>0, <1>3, <2>1 DEF ServerStep, RegisterServer, AcceptCall, AcceptStep, AcceptLock,
      AcceptTake, AcceptSkip, AcceptNone, AcceptType, AcceptShms, AcceptId, AcceptAgain,
      AcceptState, ShutdownSignal, ShutdownStep, ShutdownJoin, ShutdownMark, CoordDelete
<1>4. CASE UNCHANGED vars
  BY <1>0, <1>4 DEF vars
<1> QED
  BY <1>1, <1>2, <1>3, <1>4 DEF Next

(* What a step does to the rows and the segments when no client closes.    *)
StayStep == NobodyCloses' /\ QueuesBacked' /\ RowsStay

(* Steps that neither mark nor wipe a row, nor make queues.                *)
LEMMA StayFrame ==
  ASSUME NobodyCloses, QueuesBacked, RowsStay,
         \A c \in Client : cl'[c].pc \notin {"find", "detach"},
         \A i \in Slot : ~row'[i].detach,
         DOMAIN shm' = DOMAIN shm,
         \A k \in DOMAIN shm : shm'[k].key = shm[k].key /\ shm'[k].linked = shm[k].linked,
         \A i \in Slot : Queued(i)' => Queued(i) /\ row'[i].shms = row[i].shms
  PROVE  StayStep
<1>1. NobodyCloses'
  BY DEF NobodyCloses
<1>2. QueuesBacked'
  BY DEF QueuesBacked, Backed
<1> QED
  BY <1>1, <1>2 DEF StayStep

LEMMA StayClient ==
  ASSUME Types, TableInv, Types', EveryoneStays, NobodyCloses, QueuesBacked,
         NEW c \in Client, ClientStep(c)
  PROVE  StayStep
<1>0. PICK s \in Slot : s = cl[c].slot
  BY DEF Types, ClientThread
<1>1. cl \in [Client -> ClientThread] /\ row \in [Slot -> RowType] /\ shm \in Seq(Segment)
  BY DEF Types
<1>2. ~cl[c].closes /\ cl[c].pc \notin {"find", "detach"}
  BY DEF EveryoneStays, NobodyCloses
<1>3. ~CloseCall(c) /\ ~CloseCrash(c) /\ ~CloseSkip(c) /\ ~CloseFound(c) /\ ~CloseDetach(c)
  BY <1>2 DEF CloseCall, CloseCrash, CloseSkip, CloseFound, CloseDetach
<1>4. CASE RequestWrite(c)
  <2>1. rn' = rn /\ shm' = shm /\ cl'[c].pc = "reserve" /\ \A d \in Client \ {c} : cl'[d] = cl[d]
    BY <1>1, <1>4 DEF RequestWrite, Goto, ClientThread
  <2>2. ~reserved[s] /\ ~row[s].shm_created /\ ~Allocating(s)
    BY <1>0, <1>4 DEF RequestWrite, TableInv, ClientInv, RowInv, RunnerInv, Allocating
  <2>3. /\ ~row'[s].detach /\ ~row'[s].shm_created
        /\ \A i \in Slot \ {s} : row'[i] = row[i]
    <3> DEFINE r == [row[s] EXCEPT !.client_id = c, !.detach = FALSE, !.type = TypeOf[c],
                       !.client_attached = FALSE, !.server_attached = FALSE,
                       !.shm_created = FALSE]
    <3>1. row[s] \in RowType
      BY <1>1
    <3>2. ~r.detach /\ ~r.shm_created
      BY <3>1 DEF RowType
    <3> HIDE DEF r
    <3>3. row' = [row EXCEPT ![s] = r]
      BY <1>0, <1>4 DEF RequestWrite, r
    <3> QED
      BY <1>1, <3>2, <3>3
  <2>4. RowsStay /\ \A i \in Slot : Queued(i)' => Queued(i) /\ row'[i].shms = row[i].shms
    BY <2>1, <2>2, <2>3 DEF RowsStay, Queued, Allocating
  <2>5. \A i \in Slot : ~row'[i].detach
    BY <2>3 DEF NobodyCloses
  <2>6. \A d \in Client : cl'[d].pc \notin {"find", "detach"}
    BY <2>1 DEF NobodyCloses
  <2> QED
    BY <2>1, <2>4, <2>5, <2>6, StayFrame
<1>5. CASE OpenAttach(c)
  <2>1. rn' = rn /\ cl'[c].pc = "open" /\ \A d \in Client \ {c} : cl'[d] = cl[d]
    BY <1>1, <1>5 DEF OpenAttach, ClientThread
  <2>2. \A i \in Slot : /\ row'[i].client_id = row[i].client_id
                        /\ row'[i].type = row[i].type
                        /\ row'[i].shm_created = row[i].shm_created
                        /\ row'[i].detach = row[i].detach
                        /\ row'[i].shms = row[i].shms
    <3>1. row' = [row EXCEPT ![s].client_attached = @ \/ row[s].shm_created]
      BY <1>0, <1>5 DEF OpenAttach, set_client_attach_state
    <3> QED
      BY <1>1, <3>1 DEF RowType
  <2>3. /\ DOMAIN shm' = DOMAIN shm
        /\ \A k \in DOMAIN shm : shm'[k].key = shm[k].key /\ shm'[k].linked = shm[k].linked
    BY <1>1, <1>5, ShmMapped DEF OpenAttach, KeepsKeys
  <2>4. RowsStay /\ \A i \in Slot : Queued(i)' => Queued(i) /\ row'[i].shms = row[i].shms
    BY <2>1, <2>2 DEF RowsStay, Queued, Allocating
  <2>5. \A i \in Slot : ~row'[i].detach
    BY <2>2 DEF NobodyCloses
  <2>6. \A d \in Client : cl'[d].pc \notin {"find", "detach"}
    BY <2>1 DEF NobodyCloses
  <2> QED
    BY <2>3, <2>4, <2>5, <2>6, StayFrame
<1>6. CASE \/ CoordAttach(c) \/ RequestLock(c) \/ RequestTake(c) \/ RequestSkip(c)
           \/ RequestFail(c) \/ RequestReserve(c) \/ OpenAwait(c) \/ OpenPair(c)
  <2>1. UNCHANGED <<row, shm, rn>>
    BY <1>6 DEF CoordAttach, RequestLock, RequestTake, RequestSkip, RequestFail,
      RequestReserve, OpenAwait, OpenPair, tableVars
  <2>2. cl'[c].pc \notin {"find", "detach"} /\ \A d \in Client \ {c} : cl'[d] = cl[d]
    BY <1>1, <1>2, <1>6 DEF CoordAttach, RequestLock, RequestTake, RequestSkip, RequestFail,
      RequestReserve, OpenAwait, OpenPair, Goto, ClientThread
  <2>3. \A d \in Client : cl'[d].pc \notin {"find", "detach"}
    BY <2>2 DEF NobodyCloses
  <2>4. RowsStay /\ \A i \in Slot : Queued(i)' => Queued(i) /\ row'[i].shms = row[i].shms
    BY <2>1 DEF RowsStay, Queued, Allocating
  <2> QED
    BY <2>1, <2>3, <2>4, StayFrame DEF NobodyCloses
<1> QED
  BY <1>3, <1>4, <1>5, <1>6 DEF ClientStep

LEMMA StayPool ==
  ASSUME Types, TableInv, Types', NobodyCloses, QueuesBacked, PoolStep
  PROVE  StayStep
<1>0. PICK s \in Slot : s = rn.i
  BY DEF Types, Runner
<1>1. /\ rn \in Runner /\ row \in [Slot -> RowType] /\ shm \in Seq(Segment) /\ cl' = cl
      /\ ~row[s].detach
  BY <1>0 DEF Types, PoolStep, RunnerLoop, PoolType, ServiceAllocate, ServicePublish,
    ServiceNothing, CleanUp, ClearRow, ClearFree, ClearNothing, NobodyCloses
<1>2. ~ClearRow
  BY <1>0, <1>1 DEF ClearRow
<1>3. CASE ServiceAllocate
  <2>1. rn.pc = "service" /\ reserved[s] /\ ~row[s].shm_created
    BY <1>0, <1>3 DEF ServiceAllocate
  <2>2. rn'.pc = "publish" /\ rn'.i = s
    BY <1>0, <1>1, <1>3 DEF ServiceAllocate, Runner
  <2>3. PICK a : a = allocation(rn.type, row[s].client_id)
    OBVIOUS
  <2>4. /\ KeepsKeys(shm, a.mem) /\ Backed(a.mem, a.shms)
        /\ \A k \in DOMAIN shm : a.mem[k].linked = shm[k].linked
        /\ \A k \in DOMAIN a.mem : k \in DOMAIN shm \/ k \in Ids(a.shms)
    BY <1>1, <2>3, Allocation DEF RowType, Runner
  <2>5. /\ row'[s].shms = a.shms /\ shm' = a.mem /\ ~row'[s].detach
        /\ \A i \in Slot \ {s} : row'[i] = row[i]
    BY <1>0, <1>1, <1>3, <2>3 DEF ServiceAllocate, RowType
  <2>6. RowsStay
    BY <2>1, <2>5 DEF RowsStay
  <2>7. NobodyCloses'
    BY <1>1, <2>4, <2>5 DEF NobodyCloses, Backed, Ids
  <2>8. QueuesBacked'
    <3> SUFFICES ASSUME NEW i \in Slot, Queued(i)' PROVE Backed(shm, row[i].shms)'
      BY DEF QueuesBacked
    <3>1. CASE i = s
      BY <3>1, <2>4, <2>5 DEF Backed
    <3>2. CASE i # s
      <4>1. Queued(i) /\ row'[i] = row[i]
        BY <3>2, <2>2, <2>5 DEF Queued, Allocating
      <4>2. Backed(shm, row[i].shms)
        BY <4>1 DEF QueuesBacked
      <4> QED
        BY <2>4, <2>5, <4>1, <4>2 DEF Backed, KeepsKeys
    <3> QED
      BY <3>1, <3>2
  <2> QED
    BY <2>6, <2>7, <2>8 DEF StayStep
<1>4. CASE \/ RunnerLoop \/ PoolType \/ ServiceNothing \/ CleanUp \/ ClearNothing
           \/ ClearFree \/ ServicePublish
  <2>1. shm' = shm /\ rn'.pc # "publish"
    BY <1>1, <1>4, NextSlotType DEF RunnerLoop, PoolType, ServiceNothing, CleanUp,
      ClearNothing, ClearFree, ServicePublish, Runner
  <2>2. \A i \in Slot : /\ row'[i].client_id = row[i].client_id
                        /\ row'[i].type = row[i].type
                        /\ row'[i].detach = row[i].detach
                        /\ row'[i].shms = row[i].shms
                        /\ row[i].shm_created => row'[i].shm_created
                        /\ row'[i].shm_created => Queued(i)
    <3>1. CASE ServicePublish
      BY <1>0, <1>1, <3>1 DEF ServicePublish, RowType, Queued, Allocating
    <3>2. CASE row' = row
      BY <3>2 DEF Queued
    <3> QED
      BY <1>4, <3>1, <3>2 DEF RunnerLoop, PoolType, ServiceNothing, CleanUp, ClearNothing,
        ClearFree, tableVars
  <2>3. RowsStay /\ \A i \in Slot : Queued(i)' => Queued(i) /\ row'[i].shms = row[i].shms
    BY <2>1, <2>2 DEF RowsStay, Queued, Allocating
  <2>4. \A i \in Slot : ~row'[i].detach
    BY <2>2 DEF NobodyCloses
  <2> QED
    BY <1>1, <2>1, <2>3, <2>4, StayFrame DEF NobodyCloses
<1> QED
  BY <1>2, <1>3, <1>4 DEF PoolStep

LEMMA StayServer ==
  ASSUME Types, TableInv, Types', NobodyCloses, QueuesBacked, ServerStep, ~ShutdownMark
  PROVE  StayStep
<1>1. cl' = cl /\ rn \in Runner /\ row \in [Slot -> RowType] /\ shm \in Seq(Segment)
  BY DEF Types, ServerStep, RegisterServer, AcceptCall, AcceptStep, AcceptLock, AcceptTake,
    AcceptSkip, AcceptNone, AcceptType, AcceptShms, AcceptId, AcceptAgain, AcceptState,
    AcceptAttach, ShutdownSignal, ShutdownStep, ShutdownJoin, CoordDelete
<1>2. rn' = rn \/ rn'.pc = "loop"
  BY <1>1 DEF ServerStep, RegisterServer, AcceptCall, AcceptStep, AcceptLock, AcceptTake,
    AcceptSkip, AcceptNone, AcceptType, AcceptShms, AcceptId, AcceptAgain, AcceptState,
    AcceptAttach, ShutdownSignal, ShutdownStep, ShutdownJoin, CoordDelete, Runner
<1>3. /\ DOMAIN shm' = DOMAIN shm
      /\ \A k \in DOMAIN shm : shm'[k].key = shm[k].key /\ shm'[k].linked = shm[k].linked
      /\ \A i \in Slot : /\ row'[i].client_id = row[i].client_id
                         /\ row'[i].type = row[i].type
                         /\ row'[i].shm_created = row[i].shm_created
                         /\ row'[i].detach = row[i].detach
                         /\ row'[i].shms = row[i].shms
  <2>1. CASE AcceptAttach
    <3>1. shm' = Mapped(shm, Ids(sv.shms))
      BY <2>1 DEF AcceptAttach
    <3>2. \A i \in Slot : /\ row'[i].client_id = row[i].client_id
                          /\ row'[i].type = row[i].type
                          /\ row'[i].shm_created = row[i].shm_created
                          /\ row'[i].detach = row[i].detach
                          /\ row'[i].shms = row[i].shms
      BY <1>1, <2>1 DEF AcceptAttach, set_server_attach_state, RowType
    <3> QED
      BY <1>1, <3>1, <3>2, ShmMapped DEF KeepsKeys
  <2>2. CASE UNCHANGED <<shm, row>>
    BY <2>2
  <2> QED
    BY <2>1, <2>2 DEF ServerStep, RegisterServer, AcceptCall, AcceptStep, AcceptLock,
      AcceptTake, AcceptSkip, AcceptNone, AcceptType, AcceptShms, AcceptId, AcceptAgain,
      AcceptState, ShutdownSignal, ShutdownStep, ShutdownJoin, CoordDelete, tableVars
<1>4. RowsStay /\ \A i \in Slot : Queued(i)' => Queued(i) /\ row'[i].shms = row[i].shms
  BY <1>2, <1>3 DEF RowsStay, Queued, Allocating
<1>5. \A i \in Slot : ~row'[i].detach
  BY <1>3 DEF NobodyCloses
<1> QED
  BY <1>1, <1>3, <1>4, <1>5, StayFrame DEF NobodyCloses

(* accept goes from look to look.                                          *)
LEMMA AcceptLooks ==
  ASSUME Types, AcceptSees, ServerStep, ~ShutdownMark, RowsStay
  PROVE  AcceptSees'
<1>0. PICK s \in Slot : s = sv.slot
  BY DEF Types, Server
<1>1. sv \in Server /\ (row[s].shm_created =>
                          /\ row'[s].shm_created /\ row'[s].client_id = row[s].client_id
                          /\ row'[s].type = row[s].type /\ row'[s].shms = row[s].shms)
  BY DEF Types, RowsStay
<1> USE <1>0, <1>1 DEF Server, ServerGoto
<1>2. CASE AcceptTake
  <2>1. row[s].shm_created /\ sv'.slot = s /\ sv'.pc = "type"
    BY <1>2 DEF AcceptTake, Acceptable
  <2> QED
    BY <2>1 DEF AcceptSees
<1>3. CASE AcceptType
  <2>1. /\ row[s].shm_created /\ sv'.slot = s /\ sv'.pc = "shms"
        /\ sv'.type = row[s].type
    BY <1>3 DEF AcceptType, AcceptSees
  <2> QED
    BY <2>1 DEF AcceptSees
<1>4. CASE AcceptShms
  <2>1. /\ row[s].shm_created /\ sv'.slot = s /\ sv'.pc = "id"
        /\ sv'.type = row[s].type /\ sv'.shms = row[s].shms
    BY <1>4 DEF AcceptShms, AcceptSees, check_slot
  <2> QED
    BY <2>1 DEF AcceptSees
<1>5. CASE AcceptId
  <2>1. /\ row[s].shm_created /\ sv'.slot = s /\ sv'.pc \in {"again", "state"}
        /\ sv'.type = row[s].type /\ sv'.shms = row[s].shms /\ sv'.id = row[s].client_id
    BY <1>5 DEF AcceptId, AcceptSees, get_client_id
  <2> QED
    BY <2>1 DEF AcceptSees
<1>6. CASE AcceptAgain
  <2>1. /\ row[s].shm_created /\ sv'.slot = s /\ sv'.pc = "state"
        /\ sv'.type = row[s].type /\ sv'.shms = row[s].shms /\ sv'.id = row[s].client_id
    BY <1>6 DEF AcceptAgain, AcceptSees, check_slot
  <2> QED
    BY <2>1 DEF AcceptSees
<1>7. CASE AcceptState
  <2>1. CASE get_server_attach_state(sv.slot)
    <3>1. sv'.pc = "serve"
      BY <1>7, <2>1 DEF AcceptState, Returned
    <3> QED
      BY <3>1 DEF AcceptSees
  <2>2. CASE ~get_server_attach_state(sv.slot)
    <3>1. /\ row[s].shm_created /\ sv'.slot = s /\ sv'.pc = "attach"
          /\ sv'.type = row[s].type /\ sv'.shms = row[s].shms /\ sv'.id = row[s].client_id
      BY <1>7, <2>2 DEF AcceptState, AcceptSees
    <3> QED
      BY <3>1 DEF AcceptSees
  <2> QED
    BY <2>1, <2>2
<1>8. CASE sv'.pc \notin {"type", "shms", "id", "again", "state", "attach"}
  BY <1>8 DEF AcceptSees
<1>9. CASE \/ RegisterServer \/ AcceptCall \/ AcceptLock \/ AcceptSkip \/ AcceptNone
           \/ AcceptAttach \/ ShutdownSignal \/ ShutdownJoin \/ CoordDelete
  <2>1. sv'.pc \notin {"type", "shms", "id", "again", "state", "attach"}
    <3>1. CASE RegisterServer \/ AcceptCall \/ AcceptLock
      BY <3>1 DEF RegisterServer, AcceptCall, AcceptLock
    <3>2. CASE AcceptSkip \/ AcceptNone \/ AcceptAttach
      BY <3>2 DEF AcceptSkip, AcceptNone, AcceptAttach, Returned
    <3>3. CASE ShutdownSignal \/ ShutdownJoin \/ CoordDelete
      BY <3>3 DEF ShutdownSignal, ShutdownJoin, CoordDelete
    <3> QED
      BY <1>9, <3>1, <3>2, <3>3
  <2> QED
    BY <1>8, <2>1
<1> QED
  BY <1>2, <1>3, <1>4, <1>5, <1>6, <1>7, <1>9 DEF ServerStep, AcceptStep, ShutdownStep

(* The context that accept returns.                                        *)
LEMMA AcceptReturnsOne ==
  ASSUME Types, TableInv, NobodyCloses, QueuesBacked, AcceptSees, AcceptAttach
  PROVE  \A a \in accepted' \ accepted : OneClient(a)
<1>0. PICK s \in Slot : s = sv.slot
  BY DEF Types, Server
<1>1. /\ row[s].shm_created /\ sv.type = row[s].type /\ sv.shms = row[s].shms
      /\ sv.id = row[s].client_id
  BY <1>0 DEF AcceptSees, AcceptAttach
<1>2. Queued(s) /\ Backed(shm, row[s].shms)
  BY <1>1 DEF Queued, QueuesBacked
<1>3. /\ sv.id \in Client /\ sv.type = TypeOf[sv.id] /\ OwnKeys(sv.shms, sv.id)
  BY <1>1, <1>2, QueuedIsTaken DEF Taken
<1>4. /\ shm_attach(shm, sv.shms.request.shmid) = sv.shms.request.shmid
      /\ shm_attach(shm, sv.shms.response.shmid) = sv.shms.response.shmid
  BY <1>1, <1>2 DEF shm_attach, Attachable, Backed
<1>5. sv.shms.request.key \in KeysOf(sv.id) /\ sv.shms.response.key \in KeysOf(sv.id)
  BY <1>3, OwnKeysOf
<1>6. \A k \in Ids(sv.shms) : k \in DOMAIN shm /\ shm[k].key \in KeysOf(sv.id)
  BY <1>1, <1>2, <1>5 DEF Backed, Ids
<1>7. accepted' = accepted \cup
        {[id |-> sv.id, type |-> sv.type, request |-> sv.shms.request.shmid,
          response |-> sv.shms.response.shmid]}
  BY <1>4 DEF AcceptAttach
<1> QED
  BY <1>3, <1>6, <1>7 DEF OneClient, Ids

StayProtected ==
  /\ TableProtected
  /\ Serving => StayInv
  /\ EveryoneStays => \A a \in accepted : OneClient(a)

LEMMA NextStay ==
  ASSUME StayProtected, [Next]_vars, Types', Serving', EveryoneStays
  PROVE  NobodyCloses' /\ QueuesBacked' /\ AcceptSees'
<1>0. Types /\ Serving /\ TableInv /\ NobodyCloses /\ QueuesBacked /\ AcceptSees
  BY StillServing DEF StayProtected, TableProtected, StayInv
<1>1. CASE UNCHANGED vars
  BY <1>0, <1>1 DEF vars, tableVars, serverVars, NobodyCloses, QueuesBacked, Backed, Queued,
    Allocating, AcceptSees
<1>2. ASSUME StayStep, sv' = sv PROVE NobodyCloses' /\ QueuesBacked' /\ AcceptSees'
  <2>1. sv.slot \in Slot
    BY <1>0 DEF Types, Server
  <2> QED
    BY <1>0, <1>2, <2>1 DEF StayStep, AcceptSees, RowsStay
<1>3. ASSUME NEW c \in Client, ClientStep(c)
      PROVE  NobodyCloses' /\ QueuesBacked' /\ AcceptSees'
  <2>1. sv' = sv
    BY <1>3 DEF ClientStep, CoordAttach, RequestLock, RequestTake, RequestSkip, RequestFail,
      RequestWrite, RequestReserve, OpenAwait, OpenPair, OpenAttach, CloseCall, CloseCrash,
      CloseSkip, CloseFound, CloseDetach, serverVars
  <2> QED
    BY <1>0, <1>2, <1>3, <2>1, StayClient
<1>4. CASE PoolStep
  <2>1. sv' = sv
    BY <1>4 DEF PoolStep, RunnerLoop, PoolType, ServiceAllocate, ServicePublish,
      ServiceNothing, CleanUp, ClearRow, ClearFree, ClearNothing, serverVars
  <2> QED
    BY <1>0, <1>2, <1>4, <2>1, StayPool
<1>5. CASE ServerStep
  <2>1. ~ShutdownMark
    BY <1>0 DEF Serving, ShutdownMark
  <2>2. StayStep
    BY <1>0, <1>5, <2>1, StayServer
  <2> QED
    BY <1>0, <1>5, <2>1, <2>2, AcceptLooks DEF StayStep
<1> QED
  BY <1>1, <1>3, <1>4, <1>5 DEF Next

(***************************************************************************)
(* The server's end of a connection is one client's, for every number of   *)
(* clients and slots and whatever their ids: the id, the type and the two  *)
(* queues that accept reads one by one after it gave the mutex up belong   *)
(* together, as long as no client closes.                                  *)
(***************************************************************************)
THEOREM AcceptReadsOneClient == Spec => []AcceptedIsOneClient
<1>1. Init => StayProtected
  <2> SUFFICES ASSUME Init PROVE StayProtected
    OBVIOUS
  <2>1. Types /\ TableInv /\ LiveInv /\ InitTable
    BY InitTypes, InitTableInv, InitLiveInv
  <2>2. DOMAIN shm = {}
    <3>1. shm = << >>
      BY DEF Init
    <3> QED
      BY <3>1, EmptySeq
  <2>3. NobodyCloses
    BY <2>1, <2>2, RowTypes DEF NobodyCloses, InitTable
  <2>4. QueuesBacked /\ AcceptSees
    BY <2>1 DEF LiveInv, QueuesBacked, AcceptSees, InitTable
  <2> QED
    BY <2>1, <2>3, <2>4 DEF Init, StayProtected, TableProtected, StayInv
<1>2. StayProtected /\ [Next]_vars => StayProtected'
  <2> SUFFICES ASSUME StayProtected, [Next]_vars PROVE StayProtected'
    OBVIOUS
  <2>1. TableProtected' /\ Types /\ Types'
    BY NextTypes, NextTableInv DEF StayProtected, TableProtected
  <2>2. EveryoneStays' <=> EveryoneStays
    BY <2>1, WhoCloses
  <2>3. ASSUME Serving' PROVE StayInv'
    BY <2>1, <2>2, <2>3, NextStay DEF StayInv
  <2>4. ASSUME EveryoneStays, NEW a \in accepted' PROVE OneClient(a)'
    <3>1. KeepsKeys(shm, shm')
      BY <2>1, KeysKept
    <3>2. OneClient(a)
      <4>1. CASE a \in accepted
        BY <2>4, <4>1 DEF StayProtected
      <4>2. CASE AcceptAttach /\ a \notin accepted
        <5>1. Serving
          BY <4>2 DEF AcceptAttach, Serving
        <5>2. TableInv /\ NobodyCloses /\ QueuesBacked /\ AcceptSees
          BY <2>4, <5>1 DEF StayProtected, TableProtected, StayInv
        <5> QED
          BY <2>1, <2>4, <4>2, <5>2, AcceptReturnsOne
      <4>3. CASE accepted' = accepted
        BY <4>1, <4>3
      <4>4. AcceptAttach \/ accepted' = accepted
        <5>1. ASSUME NEW c \in Client, ClientStep(c) PROVE accepted' = accepted
          BY <5>1 DEF ClientStep, CoordAttach, RequestLock, RequestTake, RequestSkip,
            RequestFail, RequestWrite, RequestReserve, OpenAwait, OpenPair, OpenAttach,
            CloseCall, CloseCrash, CloseSkip, CloseFound, CloseDetach, serverVars
        <5>2. CASE PoolStep
          BY <5>2 DEF PoolStep, RunnerLoop, PoolType, ServiceAllocate, ServicePublish,
            ServiceNothing, CleanUp, ClearRow, ClearFree, ClearNothing, serverVars
        <5>3. CASE ServerStep
          BY <5>3 DEF ServerStep, RegisterServer, AcceptCall, AcceptStep, AcceptLock,
            AcceptTake, AcceptSkip, AcceptNone, AcceptType, AcceptShms, AcceptId,
            AcceptAgain, AcceptState, ShutdownSignal, ShutdownStep, ShutdownJoin,
            ShutdownMark, CoordDelete
        <5>4. CASE UNCHANGED vars
          BY <5>4 DEF vars, serverVars
        <5> QED
          BY <5>1, <5>2, <5>3, <5>4 DEF Next
      <4> QED
        BY <4>1, <4>2, <4>3, <4>4
    <3> QED
      BY <3>1, <3>2 DEF OneClient, KeepsKeys
  <2> QED
    BY <2>1, <2>2, <2>3, <2>4 DEF StayProtected
<1>3. StayProtected => AcceptedIsOneClient
  BY DEF StayProtected, AcceptedIsOneClient, OneClient
<1> QED
  BY <1>1, <1>2, <1>3, PTL DEF Spec

-----------------------------------------------------------------------------
(***************************************************************************)
(* The slot table.  The server does not shut down: coord_shutdown marks    *)
(* every row, whether its client is still waiting for queues or not.       *)
(***************************************************************************)
NoShutdown == \A a \in Applications : "shutdown" \notin a.calls

SlotState(i) ==
  IF ~reserved[i] \/ Freeing(i) THEN [state |-> "free"]
  ELSE IF row[i].detach
    THEN [state |-> "closing", client |-> row[i].client_id, queues |-> Ids(row[i].shms)]
  ELSE IF row[i].shm_created
    THEN [state |-> "ready", client |-> row[i].client_id, queues |-> Ids(row[i].shms)]
  ELSE [state |-> "requested", client |-> row[i].client_id]

LEMMA ViewOfSlots == SlotView = [i \in Slot |-> SlotState(i)]
BY DEF SlotView, SlotState, Freeing

LEMMA ViewAfter == SlotView' = [i \in Slot |-> SlotState(i)']
<1>1. (SlotView = [i \in Slot |-> SlotState(i)])'
  BY ViewOfSlots, PTL
<1> QED
  BY <1>1

(* The clients that manage_pool has made queues for, two segments each at  *)
(* most.                                                                   *)
Given ==
  {c \in Client :
     \/ cl[c].pc \in {"pair", "attach", "open", "find", "notfound", "detach", "closed",
                      "crashed"}
     \/ cl[c].pc = "await" /\ Queued(cl[c].slot)}

SegmentBound == Len(shm) \in Nat /\ Len(shm) <= 2 * Cardinality(Given)

LEMMA GivenGrows ==
  ASSUME NEW c \in Given, NEW s, s = cl[c].slot,
         \/ cl'[c].pc = cl[c].pc /\ cl'[c].slot = s
         \/ cl'[c].pc \in {"pair", "attach", "open", "find", "notfound", "detach", "closed",
                           "crashed"},
         cl[c].pc = "await" /\ Queued(s) => Queued(s)'
  PROVE  c \in Given'
<1>1. c \in Client
  BY DEF Given
<1>2. CASE cl'[c].pc \in {"pair", "attach", "open", "find", "notfound", "detach", "closed",
                          "crashed"}
  BY <1>1, <1>2 DEF Given
<1>3. CASE cl'[c].pc = "await" /\ cl[c].pc = "await" /\ cl'[c].slot = s
  <2>1. Queued(s)'
    BY <1>3 DEF Given
  <2> QED
    BY <1>1, <1>3, <2>1 DEF Given
<1> QED
  BY <1>2, <1>3 DEF Given

LEMMA BoundKept ==
  ASSUME Types, Types', SegmentBound, IsFiniteSet(Client), Len(shm') = Len(shm),
         Given \subseteq Given'
  PROVE  SegmentBound'
<1>1. IsFiniteSet(Given')
  <2>1. Given' \subseteq Client
    BY DEF Given
  <2> QED
    BY <2>1, FS_Subset
<1>2. /\ IsFiniteSet(Given) /\ Cardinality(Given) <= Cardinality(Given')
      /\ Cardinality(Given) \in Nat /\ Cardinality(Given') \in Nat
  BY <1>1, FS_Subset, FS_CardinalityType
<1> QED
  BY <1>2 DEF SegmentBound

LEMMA GivenClient ==
  ASSUME Types, TableInv, Types', NEW c \in Client, ClientStep(c)
  PROVE  Given \subseteq Given' /\ Len(shm') = Len(shm)
<1>0. PICK s \in Slot : s = cl[c].slot
  BY DEF Types, ClientThread
<1>1. cl \in [Client -> ClientThread] /\ row \in [Slot -> RowType] /\ shm \in Seq(Segment)
  BY DEF Types
<1>2. rn' = rn
  BY DEF ClientStep, CoordAttach, RequestLock, RequestTake, RequestSkip, RequestFail,
    RequestWrite, RequestReserve, OpenAwait, OpenPair, OpenAttach, CloseCall, CloseCrash,
    CloseSkip, CloseFound, CloseDetach
<1>3. Len(shm') = Len(shm)
  <2>1. CASE OpenAttach(c)
    BY <1>1, <2>1, ShmMapped DEF OpenAttach
  <2> QED
    BY <2>1 DEF ClientStep, CoordAttach, RequestLock, RequestTake, RequestSkip, RequestFail,
      RequestWrite, RequestReserve, OpenAwait, OpenPair, CloseCall, CloseCrash, CloseSkip,
      CloseFound, CloseDetach
<1>4. /\ \A d \in Client \ {c} : cl'[d] = cl[d]
      /\ \/ cl[c].pc \notin {"pair", "attach", "open", "find", "notfound", "detach",
                             "closed", "crashed", "await"}
         \/ cl'[c].pc \in {"pair", "attach", "open", "find", "notfound", "detach", "closed",
                           "crashed"}
  <2>1. CASE CoordAttach(c) \/ RequestLock(c) \/ RequestTake(c) \/ RequestSkip(c)
    BY <1>1, <2>1 DEF CoordAttach, RequestLock, RequestTake, RequestSkip, Goto
  <2>2. CASE RequestFail(c) \/ RequestWrite(c) \/ RequestReserve(c)
    BY <1>1, <2>2 DEF RequestFail, RequestWrite, RequestReserve, Goto
  <2>3. CASE OpenAwait(c) \/ OpenPair(c) \/ OpenAttach(c)
    BY <1>1, <2>3 DEF OpenAwait, OpenPair, OpenAttach, Goto, ClientThread
  <2>4. CASE \/ CloseCall(c) \/ CloseCrash(c) \/ CloseSkip(c) \/ CloseFound(c)
             \/ CloseDetach(c)
    BY <1>1, <2>4 DEF CloseCall, CloseCrash, CloseSkip, CloseFound, CloseDetach, Goto,
      ClientThread
  <2> QED
    BY <2>1, <2>2, <2>3, <2>4 DEF ClientStep
<1>5. \A i \in Slot : reserved[i] => row'[i].shm_created = row[i].shm_created
  <2>1. CASE RequestWrite(c)
    <3>1. ~reserved[s]
      BY <1>0, <2>1 DEF RequestWrite, TableInv, ClientInv
    <3>2. \A i \in Slot \ {s} : row'[i] = row[i]
      BY <1>0, <1>1, <2>1 DEF RequestWrite
    <3> QED
      BY <3>1, <3>2
  <2>2. CASE OpenAttach(c)
    BY <1>0, <1>1, <2>2 DEF OpenAttach, set_client_attach_state, RowType
  <2>3. CASE CloseDetach(c)
    BY <1>1, <2>3 DEF CloseDetach, RowType
  <2> QED
    BY <2>1, <2>2, <2>3 DEF ClientStep, CoordAttach, RequestLock, RequestTake, RequestSkip,
      RequestFail, RequestReserve, OpenAwait, OpenPair, CloseCall, CloseCrash, CloseSkip,
      CloseFound, tableVars
<1>6. ASSUME NEW d \in Given PROVE d \in Given'
  <2>1. d \in Client /\ ClientInv(d)
    BY DEF Given, TableInv
  <2>2. PICK i \in Slot : i = cl[d].slot
    BY <1>1, <2>1 DEF ClientThread
  <2>3. cl[d].pc = "await" => reserved[i]
    BY <2>1, <2>2 DEF ClientInv, Holds
  <2>4. cl[d].pc = "await" /\ Queued(i) => Queued(i)'
    BY <1>2, <1>5, <2>3 DEF Queued, Allocating
  <2>5. \/ cl'[d].pc = cl[d].pc /\ cl'[d].slot = i
        \/ cl'[d].pc \in {"pair", "attach", "open", "find", "notfound", "detach", "closed",
                          "crashed"}
    BY <1>4, <2>1, <2>2 DEF Given
  <2> QED
    BY <2>2, <2>4, <2>5, GivenGrows
<1> QED
  BY <1>3, <1>6

(* Steps of the other two threads, which leave the clients alone.          *)
LEMMA GivenOthers ==
  ASSUME Types, TableInv, cl' = cl,
         \A i \in Slot : Queued(i) /\ ~row[i].detach => Queued(i)'
  PROVE  Given \subseteq Given'
<1> SUFFICES ASSUME NEW d \in Given PROVE d \in Given'
  OBVIOUS
<1>1. d \in Client /\ ClientInv(d) /\ cl[d].slot \in Slot
  BY DEF Given, TableInv, Types, ClientThread
<1>2. PICK i \in Slot : i = cl[d].slot
  BY <1>1
<1>3. cl[d].pc = "await" => ~row[i].detach
  BY <1>1, <1>2 DEF ClientInv, Holds
<1> QED
  BY <1>2, <1>3, GivenGrows DEF Given

LEMMA PoolBound ==
  ASSUME Types, TableInv, Types', SegmentBound, IsFiniteSet(Client), PoolStep
  PROVE  SegmentBound'
<1>0. PICK s \in Slot : s = rn.i
  BY DEF Types, Runner
<1>1. rn \in Runner /\ row \in [Slot -> RowType] /\ shm \in Seq(Segment) /\ cl' = cl
  BY DEF Types, PoolStep, RunnerLoop, PoolType, ServiceAllocate, ServicePublish,
    ServiceNothing, CleanUp, ClearRow, ClearFree, ClearNothing
<1>2. CASE ServiceAllocate
  <2>1. rn.pc = "service" /\ reserved[s] /\ ~row[s].shm_created
    BY <1>0, <1>2 DEF ServiceAllocate
  <2>2. rn'.pc = "publish" /\ rn'.i = s
    BY <1>0, <1>1, <1>2 DEF ServiceAllocate, Runner
  <2>3. PICK a : a = allocation(rn.type, row[s].client_id)
    OBVIOUS
  <2>4. Len(a.mem) \in Nat /\ Len(shm) \in Nat /\ Len(a.mem) <= Len(shm) + 2
    BY <1>1, <2>3, Allocation DEF RowType, Runner
  <2>5. shm' = a.mem /\ \A i \in Slot \ {s} : row'[i] = row[i]
    BY <1>0, <1>1, <1>2, <2>3 DEF ServiceAllocate
  <2>6. \A i \in Slot : Queued(i) => Queued(i)'
    BY <2>1, <2>2, <2>5 DEF Queued, Allocating
  <2>7. Given \subseteq Given'
    BY <1>1, <2>6, GivenOthers
  <2>8. PICK c \in Client : cl[c].pc = "await" /\ cl[c].slot = s
    <3>1. Taken(s, row[s].client_id)
      BY <2>1 DEF TableInv, RowInv, Freeing
    <3> QED
      BY <2>1, <3>1 DEF Taken
  <2>9. c \notin Given /\ c \in Given'
    BY <1>1, <2>1, <2>2, <2>8 DEF Given, Queued, Allocating
  <2>10. IsFiniteSet(Given')
    <3>1. Given' \subseteq Client
      BY DEF Given
    <3> QED
      BY <3>1, FS_Subset
  <2>11. IsFiniteSet(Given) /\ Cardinality(Given) \in Nat
    BY <2>7, <2>10, FS_Subset, FS_CardinalityType
  <2>12. /\ Cardinality(Given \cup {c}) = Cardinality(Given) + 1
         /\ Given \cup {c} \subseteq Given'
    BY <2>7, <2>9, <2>11, FS_AddElement
  <2>13. Cardinality(Given) + 1 <= Cardinality(Given') /\ Cardinality(Given') \in Nat
    BY <2>10, <2>12, FS_Subset, FS_CardinalityType
  <2> QED
    BY <2>4, <2>5, <2>11, <2>13 DEF SegmentBound
<1>3. CASE ClearRow
  <2>1. Len(shm') = Len(shm)
    BY <1>1, <1>3, ShmRemoved DEF ClearRow
  <2>2. rn.pc = "clear" /\ row[s].detach /\ \A i \in Slot \ {s} : row'[i] = row[i]
    BY <1>0, <1>1, <1>3 DEF ClearRow
  <2>3. \A i \in Slot : Queued(i) /\ ~row[i].detach => Queued(i)'
    BY <2>2 DEF Queued, Allocating
  <2>4. Given \subseteq Given'
    BY <1>1, <2>3, GivenOthers
  <2> QED
    BY <2>1, <2>4, BoundKept
<1>4. CASE \/ RunnerLoop \/ PoolType \/ ServiceNothing \/ CleanUp \/ ClearNothing
           \/ ClearFree \/ ServicePublish
  <2>1. shm' = shm
    BY <1>4 DEF RunnerLoop, PoolType, ServiceNothing, CleanUp, ClearNothing, ClearFree,
      ServicePublish
  <2>2. \A i \in Slot : Queued(i) => Queued(i)'
    <3>1. CASE ServicePublish
      BY <1>0, <1>1, <3>1 DEF ServicePublish, RowType, Queued, Allocating
    <3>2. CASE row' = row /\ rn.pc # "publish"
      BY <3>2 DEF Queued, Allocating
    <3> QED
      BY <1>4, <3>1, <3>2 DEF RunnerLoop, PoolType, ServiceNothing, CleanUp, ClearNothing,
        ClearFree, tableVars
  <2>3. Given \subseteq Given'
    BY <1>1, <2>2, GivenOthers
  <2> QED
    BY <2>1, <2>3, BoundKept
<1> QED
  BY <1>2, <1>3, <1>4 DEF PoolStep

LEMMA ServerBound ==
  ASSUME Types, TableInv, Types', SegmentBound, IsFiniteSet(Client), ServerStep,
         ~ShutdownMark
  PROVE  SegmentBound'
<1>1. cl' = cl /\ rn \in Runner /\ row \in [Slot -> RowType] /\ shm \in Seq(Segment)
  BY DEF Types, ServerStep, RegisterServer, AcceptCall, AcceptStep, AcceptLock, AcceptTake,
    AcceptSkip, AcceptNone, AcceptType, AcceptShms, AcceptId, AcceptAgain, AcceptState,
    AcceptAttach, ShutdownSignal, ShutdownStep, ShutdownJoin, CoordDelete
<1>2. rn' = rn \/ rn.pc = "off"
  BY <1>1 DEF TableInv, Unregistered, ServerStep, RegisterServer, AcceptCall, AcceptStep,
    AcceptLock, AcceptTake, AcceptSkip, AcceptNone, AcceptType, AcceptShms, AcceptId,
    AcceptAgain, AcceptState, AcceptAttach, ShutdownSignal, ShutdownStep, ShutdownJoin,
    CoordDelete
<1>3. Len(shm') = Len(shm) /\ \A i \in Slot : row'[i].shm_created = row[i].shm_created
  <2>1. CASE AcceptAttach
    <3>1. shm' = Mapped(shm, Ids(sv.shms))
      BY <2>1 DEF AcceptAttach
    <3>2. \A i \in Slot : row'[i].shm_created = row[i].shm_created
      BY <1>1, <2>1 DEF AcceptAttach, set_server_attach_state, RowType
    <3> QED
      BY <1>1, <3>1, <3>2, ShmMapped
  <2>2. CASE UNCHANGED <<shm, row>>
    BY <2>2
  <2> QED
    BY <2>1, <2>2 DEF ServerStep, RegisterServer, AcceptCall, AcceptStep, AcceptLock,
      AcceptTake, AcceptSkip, AcceptNone, AcceptType, AcceptShms, AcceptId, AcceptAgain,
      AcceptState, ShutdownSignal, ShutdownStep, ShutdownJoin, CoordDelete, tableVars
<1>4. \A i \in Slot : Queued(i) => Queued(i)'
  BY <1>2, <1>3 DEF Queued, Allocating
<1>5. Given \subseteq Given'
  BY <1>1, <1>4, GivenOthers
<1> QED
  BY <1>3, <1>5, BoundKept

LEMMA NextBound ==
  ASSUME Types, TableInv, Types', SegmentBound, IsFiniteSet(Client), [Next]_vars, Serving
  PROVE  SegmentBound'
<1>1. ASSUME NEW c \in Client, ClientStep(c) PROVE SegmentBound'
  BY <1>1, GivenClient, BoundKept
<1>2. CASE PoolStep
  BY <1>2, PoolBound
<1>3. CASE ServerStep
  <2>1. ~ShutdownMark
    BY DEF Serving, ShutdownMark
  <2> QED
    BY <1>3, <2>1, ServerBound
<1>4. CASE UNCHANGED vars
  <2>1. Given' = Given /\ shm' = shm
    BY <1>4 DEF vars, tableVars, Given, Queued, Allocating
  <2> QED
    BY <2>1 DEF SegmentBound
<1> QED
  BY <1>1, <1>2, <1>3, <1>4 DEF Next

-----------------------------------------------------------------------------
(* Every step of Coord is a step of the slot table, or leaves it alone     *)

LEMMA SameState ==
  ASSUME NEW i \in Slot,
         \/ (~reserved[i] \/ Freeing(i)) /\ (~reserved'[i] \/ Freeing(i)')
         \/ /\ reserved'[i] = reserved[i] /\ ~Freeing(i) /\ ~Freeing(i)'
            /\ row'[i].client_id = row[i].client_id /\ row'[i].detach = row[i].detach
            /\ row'[i].shm_created = row[i].shm_created
            /\ row[i].detach \/ row[i].shm_created => row'[i].shms = row[i].shms
  PROVE  SlotState(i)' = SlotState(i)
<1>1. PICK s \in Slot : s = i
  OBVIOUS
<1>2. CASE (~reserved[s] \/ Freeing(s)) /\ (~reserved'[s] \/ Freeing(s)')
  BY <1>1, <1>2 DEF SlotState
<1>3. CASE /\ reserved'[s] = reserved[s] /\ ~Freeing(s) /\ ~Freeing(s)'
           /\ row'[s].client_id = row[s].client_id /\ row'[s].detach = row[s].detach
           /\ row'[s].shm_created = row[s].shm_created
           /\ row[s].detach \/ row[s].shm_created => row'[s].shms = row[s].shms
  BY <1>1, <1>3 DEF SlotState
<1> QED
  BY <1>1, <1>2, <1>3

LEMMA SameView ==
  ASSUME \A i \in Slot : SlotState(i)' = SlotState(i)
  PROVE  SlotView' = SlotView
BY ViewOfSlots, ViewAfter

(* The slot table changes at one slot.                                     *)
LEMMA ViewChanges ==
  ASSUME NEW s \in Slot, NEW r, SlotState(s)' = r,
         \A i \in Slot \ {s} : SlotState(i)' = SlotState(i)
  PROVE  SlotView' = [SlotView EXCEPT ![s] = r]
BY ViewOfSlots, ViewAfter

LEMMA ClientView ==
  ASSUME Types, TableInv, Types', NEW c \in Client,
         \/ CoordAttach(c) \/ RequestLock(c) \/ RequestTake(c) \/ RequestSkip(c)
         \/ RequestFail(c) \/ RequestWrite(c) \/ OpenAwait(c) \/ OpenPair(c)
         \/ OpenAttach(c) \/ CloseCall(c) \/ CloseCrash(c) \/ CloseSkip(c) \/ CloseFound(c)
  PROVE  SlotView' = SlotView
<1>0. PICK s \in Slot : s = cl[c].slot
  BY DEF Types, ClientThread
<1>1. row \in [Slot -> RowType] /\ rn' = rn /\ reserved' = reserved
  BY DEF Types, CoordAttach, RequestLock, RequestTake, RequestSkip, RequestFail,
    RequestWrite, OpenAwait, OpenPair, OpenAttach, CloseCall, CloseCrash, CloseSkip,
    CloseFound, tableVars
<1>2. \A i \in Slot : \/ ~reserved[i]
                      \/ /\ row'[i].client_id = row[i].client_id
                         /\ row'[i].detach = row[i].detach
                         /\ row'[i].shm_created = row[i].shm_created
                         /\ row'[i].shms = row[i].shms
  <2>1. CASE RequestWrite(c)
    <3>1. ~reserved[s] /\ \A i \in Slot \ {s} : row'[i] = row[i]
      BY <1>0, <1>1, <2>1 DEF RequestWrite, TableInv, ClientInv
    <3> QED
      BY <3>1
  <2>2. CASE OpenAttach(c)
    BY <1>0, <1>1, <2>2 DEF OpenAttach, set_client_attach_state, RowType
  <2> QED
    BY <2>1, <2>2 DEF CoordAttach, RequestLock, RequestTake, RequestSkip, RequestFail,
      OpenAwait, OpenPair, CloseCall, CloseCrash, CloseSkip, CloseFound, tableVars
<1>3. \A i \in Slot : Freeing(i)' <=> Freeing(i)
  BY <1>1 DEF Freeing
<1>4. \A i \in Slot : SlotState(i)' = SlotState(i)
  BY <1>1, <1>2, <1>3, SameState
<1> QED
  BY <1>4, SameView

LEMMA RequestView ==
  ASSUME Types, TableInv, Types', NEW c \in Client, RequestReserve(c)
  PROVE  \E i \in Slot : Table!Request(i, c)
<1>0. PICK s \in Slot : s = cl[c].slot
  BY DEF Types, ClientThread
<1>1. /\ row' = row /\ rn' = rn /\ reserved \in [Slot -> BOOLEAN]
      /\ reserved' = [reserved EXCEPT ![s] = TRUE]
  BY <1>0 DEF Types, RequestReserve
<1>2. ~reserved[s] /\ row[s].client_id = c /\ cl[c].pc = "reserve"
  BY <1>0 DEF RequestReserve, TableInv, ClientInv
<1>3. ~row[s].shm_created /\ ~row[s].detach /\ ~Freeing(s) /\ ~Freeing(s)'
  BY <1>1, <1>2 DEF TableInv, RowInv, RunnerInv, Freeing
<1>4. SlotState(s)' = [state |-> "requested", client |-> c]
  <2>1. reserved'[s]
    BY <1>1
  <2> QED
    BY <1>1, <1>2, <1>3, <2>1 DEF SlotState
<1>5. \A i \in Slot \ {s} : SlotState(i)' = SlotState(i)
  <2>1. \A i \in Slot \ {s} : reserved'[i] = reserved[i] /\ (Freeing(i)' <=> Freeing(i))
    BY <1>1 DEF Freeing
  <2> QED
    BY <1>1, <2>1, SameState
<1>6. SlotView' = [SlotView EXCEPT ![s] = [state |-> "requested", client |-> c]]
  BY <1>4, <1>5, ViewChanges
<1>7. SlotView[s] = [state |-> "free"]
  BY <1>2, ViewOfSlots DEF SlotState
<1>8. ASSUME NEW j \in Slot, SlotView[j] # [state |-> "free"], SlotView[j].client = c
      PROVE  FALSE
  <2>1. SlotView[j] = SlotState(j) /\ reserved[j] /\ ~Freeing(j)
    BY <1>8, ViewOfSlots DEF SlotState
  <2>2. row[j].client_id = c
    BY <1>8, <2>1 DEF SlotState
  <2>3. cl[c].slot = j
    BY <2>1, <2>2 DEF TableInv, RowInv, Taken
  <2> QED
    BY <1>0, <1>2, <2>1, <2>3
<1> QED
  BY <1>6, <1>7, <1>8 DEF Table!Request, Table!Free, Table!Requested, Table!Has

LEMMA CloseView ==
  ASSUME Types, TableInv, Types', NEW c \in Client, CloseDetach(c)
  PROVE  \E i \in Slot : Table!Close(i, c)
<1>0. PICK s \in Slot : s = cl[c].slot
  BY DEF Types, ClientThread
<1>1. /\ row \in [Slot -> RowType] /\ reserved' = reserved /\ rn' = rn
      /\ cl[c].pc = "detach"
  BY DEF Types, CloseDetach
<1>2. /\ cl[c].i = s /\ reserved[s] /\ ~Freeing(s) /\ row[s].client_id = c
      /\ ~row[s].detach /\ row[s].shm_created
  BY <1>0, <1>1 DEF TableInv, ClientInv, Holds
<1>3. /\ row'[s].detach /\ row'[s].client_id = c /\ row'[s].shms = row[s].shms
      /\ \A i \in Slot \ {s} : row'[i] = row[i]
  BY <1>1, <1>2 DEF CloseDetach, RowType
<1>4. ~Freeing(s)' /\ \A i \in Slot : Freeing(i)' <=> Freeing(i)
  BY <1>1, <1>2 DEF Freeing
<1>5. SlotState(s)' = [state |-> "closing", client |-> c, queues |-> Ids(row[s].shms)]
  BY <1>1, <1>2, <1>3, <1>4 DEF SlotState
<1>6. \A i \in Slot \ {s} : SlotState(i)' = SlotState(i)
  BY <1>1, <1>3, <1>4, SameState
<1>7. SlotView' = [SlotView EXCEPT ![s] =
                     [state |-> "closing", client |-> c, queues |-> Ids(row[s].shms)]]
  BY <1>5, <1>6, ViewChanges
<1>8. SlotView[s] = [state |-> "ready", client |-> c, queues |-> Ids(row[s].shms)]
  BY <1>2, ViewOfSlots DEF SlotState
<1>9. /\ SlotView[s].state = "ready" /\ SlotView[s].client = c
      /\ SlotView' = [SlotView EXCEPT ![s] =
                        [state |-> "closing", client |-> c, queues |-> SlotView[s].queues]]
  BY <1>7, <1>8
<1>10. Table!Close(s, c)
  BY <1>9, Zenon DEF Table!Close, Table!Closing
<1> QED
  BY <1>10

LEMMA ReclaimView ==
  ASSUME Types, TableInv, Types', ClearRow
  PROVE  \E i \in Slot : Table!Reclaim(i)
<1>0. PICK s \in Slot : s = rn.i
  BY DEF Types, Runner
<1>1. /\ row \in [Slot -> RowType] /\ reserved' = reserved /\ rn \in Runner
      /\ rn.pc = "clear" /\ row[s].detach /\ reserved[s]
  BY <1>0 DEF Types, ClearRow, TableInv, RowInv
<1>2. rn'.pc = "free" /\ rn'.i = s /\ \A i \in Slot \ {s} : row'[i] = row[i]
  BY <1>0, <1>1 DEF ClearRow, Runner
<1>3. Freeing(s)' /\ ~Freeing(s) /\ \A i \in Slot \ {s} : ~Freeing(i) /\ ~Freeing(i)'
  BY <1>1, <1>2 DEF Freeing
<1>4. SlotState(s)' = [state |-> "free"]
  BY <1>3 DEF SlotState
<1>5. \A i \in Slot \ {s} : SlotState(i)' = SlotState(i)
  BY <1>1, <1>2, <1>3, SameState
<1>6. SlotView' = [SlotView EXCEPT ![s] = [state |-> "free"]]
  BY <1>4, <1>5, ViewChanges
<1>7. SlotView[s].state = "closing"
  BY <1>1, <1>3, ViewOfSlots DEF SlotState
<1> QED
  BY <1>6, <1>7 DEF Table!Reclaim, Table!Free

LEMMA ServeView ==
  ASSUME KeysApart, IsFiniteSet(Client), Types, TableInv, LiveInv, SegmentBound, Types',
         ServicePublish
  PROVE  \E i \in Slot, c \in Client : Table!Serve(i, c)
<1>0. PICK s \in Slot : s = rn.i
  BY DEF Types, Runner
<1>1. /\ row \in [Slot -> RowType] /\ reserved' = reserved /\ rn \in Runner
      /\ rn.pc = "publish" /\ reserved[s] /\ ~row[s].shm_created /\ ~row[s].detach
      /\ shm \in Seq(Segment)
  BY <1>0 DEF Types, ServicePublish, TableInv, RowInv, RunnerInv
<1>2. Queued(s) /\ Backed(shm, row[s].shms)
  BY <1>0, <1>1 DEF Queued, Allocating, LiveInv
<1>3. PICK c \in Client : c = row[s].client_id
  BY <1>2, QueuedIsTaken DEF Taken
<1>4. PICK r, q : r = row[s].shms.request.shmid /\ q = row[s].shms.response.shmid
  OBVIOUS
<1>5. r \in 1..(2 * Cardinality(Client)) /\ q \in 1..(2 * Cardinality(Client))
  <2>1. Given \subseteq Client
    BY DEF Given
  <2>2. /\ Cardinality(Given) <= Cardinality(Client)
        /\ Cardinality(Given) \in Nat /\ Cardinality(Client) \in Nat
    BY <2>1, FS_Subset, FS_CardinalityType
  <2>3. DOMAIN shm = 1..Len(shm)
    BY <1>1, LenProperties
  <2>4. r \in 1..Len(shm) /\ q \in 1..Len(shm)
    BY <1>2, <1>4, <2>3 DEF Backed
  <2> QED
    BY <2>2, <2>4 DEF SegmentBound
<1>6. /\ r # q /\ Ids(row[s].shms) = {r, q}
      /\ \A j \in Slot \ {s} : Queued(j) => {r, q} \cap Ids(row[j].shms) = {}
  BY <1>2, <1>4, QueuesApart DEF Ids
<1>7. ASSUME NEW i \in Slot, SlotView[i].state \in {"ready", "closing"}
      PROVE  SlotView[i].queues \cap {r, q} = {}
  <2>1. SlotView[i] = SlotState(i) /\ reserved[i] /\ ~Freeing(i)
    BY <1>7, ViewOfSlots DEF SlotState
  <2>2. row[i].detach \/ row[i].shm_created
    BY <1>7, <2>1 DEF SlotState
  <2>3. row[i].shm_created /\ i # s
    BY <1>1, <2>2 DEF TableInv, RowInv
  <2>4. SlotView[i].queues = Ids(row[i].shms)
    BY <2>1, <2>2 DEF SlotState
  <2> QED
    BY <1>6, <2>3, <2>4 DEF Queued
<1>8. /\ row'[s].shm_created /\ ~row'[s].detach /\ row'[s].client_id = c
      /\ row'[s].shms = row[s].shms /\ \A i \in Slot \ {s} : row'[i] = row[i]
  BY <1>0, <1>1, <1>3 DEF ServicePublish, RowType
<1>9. \A i \in Slot : ~Freeing(i) /\ ~Freeing(i)'
  BY <1>1 DEF Freeing, ServicePublish, Runner
<1>10. SlotState(s)' = [state |-> "ready", client |-> c, queues |-> {r, q}]
  BY <1>1, <1>6, <1>8, <1>9 DEF SlotState
<1>11. \A i \in Slot \ {s} : SlotState(i)' = SlotState(i)
  BY <1>1, <1>8, <1>9, SameState
<1>12. SlotView' = [SlotView EXCEPT ![s] =
                      [state |-> "ready", client |-> c, queues |-> {r, q}]]
  BY <1>10, <1>11, ViewChanges
<1>13. SlotView[s] = [state |-> "requested", client |-> c]
  BY <1>1, <1>3, <1>9, ViewOfSlots DEF SlotState
<1>14. Table!Serve(s, c)
  BY <1>5, <1>6, <1>7, <1>12, <1>13, Zenon
  DEF Table!Serve, Table!Requested, Table!Ready, Table!InUse
<1> QED
  BY <1>14

LEMMA RunnerView ==
  ASSUME Types, TableInv, Types',
         \/ RunnerLoop \/ PoolType \/ ServiceAllocate \/ ServiceNothing \/ CleanUp
         \/ ClearNothing \/ ClearFree
  PROVE  SlotView' = SlotView
<1>0. PICK s \in Slot : s = rn.i
  BY DEF Types, Runner
<1>1. row \in [Slot -> RowType] /\ reserved \in [Slot -> BOOLEAN] /\ rn \in Runner
  BY DEF Types
<1>2. rn'.pc # "free"
  BY <1>1, NextSlotType DEF RunnerLoop, PoolType, ServiceAllocate, ServiceNothing, CleanUp,
    ClearNothing, ClearFree, Runner
<1>3. CASE ClearFree
  <2>1. Freeing(s) /\ \A i \in Slot : ~Freeing(i)' /\ (i # s => ~Freeing(i))
    BY <1>0, <1>2, <1>3 DEF ClearFree, Freeing
  <2>2. /\ row' = row /\ ~reserved'[s]
        /\ \A i \in Slot \ {s} : reserved'[i] = reserved[i]
    BY <1>0, <1>1, <1>3 DEF ClearFree
  <2>3. \A i \in Slot : SlotState(i)' = SlotState(i)
    BY <2>1, <2>2, SameState
  <2> QED
    BY <2>3, SameView
<1>4. CASE ServiceAllocate
  <2>1. \A i \in Slot : ~Freeing(i) /\ ~Freeing(i)'
    BY <1>2, <1>4 DEF ServiceAllocate, Freeing
  <2>2. /\ reserved' = reserved /\ ~row[s].shm_created /\ ~row[s].detach
        /\ \A i \in Slot \ {s} : row'[i] = row[i]
    BY <1>0, <1>1, <1>4 DEF ServiceAllocate, TableInv, RowInv
  <2>3. /\ row'[s].client_id = row[s].client_id /\ row'[s].detach = row[s].detach
        /\ row'[s].shm_created = row[s].shm_created
    BY <1>0, <1>1, <1>4 DEF ServiceAllocate, RowType
  <2>4. \A i \in Slot : SlotState(i)' = SlotState(i)
    BY <2>1, <2>2, <2>3, SameState
  <2> QED
    BY <2>4, SameView
<1>5. CASE RunnerLoop \/ PoolType \/ ServiceNothing \/ CleanUp \/ ClearNothing
  <2>1. UNCHANGED <<reserved, row>> /\ rn.pc # "free"
    BY <1>5 DEF RunnerLoop, PoolType, ServiceNothing, CleanUp, ClearNothing, tableVars
  <2>2. \A i \in Slot : ~Freeing(i) /\ ~Freeing(i)'
    BY <1>2, <2>1 DEF Freeing
  <2>3. \A i \in Slot : SlotState(i)' = SlotState(i)
    BY <2>1, <2>2, SameState
  <2> QED
    BY <2>3, SameView
<1> QED
  BY <1>3, <1>4, <1>5

LEMMA ServerView ==
  ASSUME Types, TableInv, Types', ServerStep, ~ShutdownMark
  PROVE  SlotView' = SlotView
<1>1. row \in [Slot -> RowType] /\ rn \in Runner
  BY DEF Types
<1>2. CASE RegisterServer
  <2>1. \A i \in Slot : ~reserved[i] /\ ~reserved'[i]
    BY <1>2 DEF RegisterServer, coord_create, TableInv, Unregistered
  <2>2. \A i \in Slot : SlotState(i)' = SlotState(i)
    BY <2>1, SameState
  <2> QED
    BY <2>2, SameView
<1>3. CASE ~RegisterServer
  <2>1. rn' = rn /\ reserved' = reserved
    BY <1>3 DEF ServerStep, AcceptCall, AcceptStep, AcceptLock, AcceptTake, AcceptSkip,
      AcceptNone, AcceptType, AcceptShms, AcceptId, AcceptAgain, AcceptState, AcceptAttach,
      ShutdownSignal, ShutdownStep, ShutdownJoin, CoordDelete, tableVars
  <2>2. \A i \in Slot : /\ row'[i].client_id = row[i].client_id
                        /\ row'[i].shm_created = row[i].shm_created
                        /\ row'[i].detach = row[i].detach
                        /\ row'[i].shms = row[i].shms
    <3>1. CASE AcceptAttach
      BY <1>1, <3>1 DEF AcceptAttach, set_server_attach_state, RowType
    <3>2. CASE row' = row
      BY <3>2
    <3> QED
      BY <1>3, <3>1, <3>2 DEF ServerStep, AcceptCall, AcceptStep, AcceptLock, AcceptTake,
        AcceptSkip, AcceptNone, AcceptType, AcceptShms, AcceptId, AcceptAgain, AcceptState,
        ShutdownSignal, ShutdownStep, ShutdownJoin, CoordDelete, tableVars
  <2>3. \A i \in Slot : Freeing(i)' <=> Freeing(i)
    BY <2>1 DEF Freeing
  <2>4. \A i \in Slot : SlotState(i)' = SlotState(i)
    BY <2>1, <2>2, <2>3, SameState
  <2> QED
    BY <2>4, SameView
<1> QED
  BY <1>2, <1>3

(* A server that is never told to shut down serves for ever.               *)
NeverShutDown == Serving /\ sv.pc # "join" /\ "shutdown" \notin sv.calls

LEMMA StaysUp ==
  ASSUME Types, NeverShutDown, [Next]_vars
  PROVE  NeverShutDown'
<1>1. CASE ServerStep
  <2> USE DEF Serving, NeverShutDown
  <2>0. sv \in Server
    BY DEF Types
  <2>1. CASE RegisterServer \/ AcceptCall \/ AcceptLock \/ AcceptTake
    BY <2>0, <2>1 DEF Server, RegisterServer, AcceptCall, AcceptLock, AcceptTake, ServerGoto
  <2>2. CASE AcceptSkip \/ AcceptNone \/ AcceptType \/ AcceptShms
    BY <2>0, <2>2 DEF Server, AcceptSkip, AcceptNone, AcceptType, AcceptShms, ServerGoto,
      Returned
  <2>3. CASE AcceptId \/ AcceptAgain
    BY <2>0, <2>3 DEF Server, AcceptId, AcceptAgain, ServerGoto
  <2>4. CASE AcceptState \/ AcceptAttach
    BY <2>0, <2>4 DEF Server, AcceptState, AcceptAttach, ServerGoto, Returned
  <2>5. CASE ShutdownSignal \/ ShutdownStep
    BY <2>0, <2>5 DEF Server, ShutdownSignal, ShutdownStep, ShutdownJoin, ShutdownMark,
      CoordDelete, ServerGoto
  <2> QED
    BY <1>1, <2>1, <2>2, <2>3, <2>4, <2>5 DEF ServerStep, AcceptStep
<1>2. CASE sv' = sv
  BY <1>2 DEF NeverShutDown, Serving
<1>3. CASE PoolStep
  BY <1>2, <1>3 DEF PoolStep, RunnerLoop, PoolType, ServiceAllocate, ServicePublish,
    ServiceNothing, CleanUp, ClearRow, ClearFree, ClearNothing, serverVars
<1>4. ASSUME NEW c \in Client, ClientStep(c) PROVE NeverShutDown'
  BY <1>2, <1>4 DEF ClientStep, CoordAttach, RequestLock, RequestTake, RequestSkip,
    RequestFail, RequestWrite, RequestReserve, OpenAwait, OpenPair, OpenAttach, CloseCall,
    CloseCrash, CloseSkip, CloseFound, CloseDetach, serverVars
<1> QED
  BY <1>1, <1>2, <1>3, <1>4 DEF Next, vars, serverVars

TableRefined == QueuesProtected /\ NeverShutDown /\ SegmentBound

LEMMA InitRefined ==
  ASSUME NoShutdown, IsFiniteSet(Client)
  PROVE  Init => TableRefined /\ Table!TableInit
<1> SUFFICES ASSUME Init PROVE TableRefined /\ Table!TableInit
  OBVIOUS
<1>1. QueuesProtected /\ InitTable
  BY InitTypes, InitTableInv, InitLiveInv DEF QueuesProtected, TableProtected
<1>2. NeverShutDown
  BY DEF Init, NoShutdown, NeverShutDown, Serving
<1>3. SegmentBound
  <2>1. Given \subseteq Client
    BY DEF Given
  <2>2. Cardinality(Given) \in Nat
    BY <2>1, FS_Subset, FS_CardinalityType
  <2>3. Len(shm) = 0
    <3>1. shm = << >>
      BY DEF Init
    <3> QED
      BY <3>1, EmptySeq
  <2> QED
    BY <2>2, <2>3 DEF SegmentBound
<1>4. \A i \in Slot : SlotState(i) = [state |-> "free"]
  BY <1>1 DEF InitTable, SlotState
<1>5. Table!TableInit
  BY <1>4, ViewOfSlots DEF Table!TableInit, Table!Free
<1> QED
  BY <1>1, <1>2, <1>3, <1>5 DEF TableRefined

LEMMA NextRefined ==
  ASSUME KeysApart, IsFiniteSet(Client), TableRefined, [Next]_vars, Types'
  PROVE  [Table!TableNext]_SlotView
<1>0. Types /\ TableInv /\ LiveInv /\ SegmentBound /\ Serving
  BY DEF TableRefined, QueuesProtected, TableProtected, NeverShutDown
<1>1. ASSUME NEW c \in Client, ClientStep(c) PROVE [Table!TableNext]_SlotView
  <2>1. CASE RequestReserve(c)
    BY <1>0, <2>1, RequestView DEF Table!TableNext
  <2>2. CASE CloseDetach(c)
    BY <1>0, <2>2, CloseView DEF Table!TableNext
  <2> QED
    BY <1>0, <1>1, <2>1, <2>2, ClientView DEF ClientStep
<1>2. CASE PoolStep
  <2>1. CASE ServicePublish
    BY <1>0, <2>1, ServeView DEF Table!TableNext
  <2>2. CASE ClearRow
    BY <1>0, <2>2, ReclaimView DEF Table!TableNext
  <2> QED
    BY <1>0, <1>2, <2>1, <2>2, RunnerView DEF PoolStep
<1>3. CASE ServerStep
  <2>1. ~ShutdownMark
    BY <1>0 DEF Serving, ShutdownMark
  <2> QED
    BY <1>0, <1>3, <2>1, ServerView
<1>4. CASE UNCHANGED vars
  <2>1. \A i \in Slot : SlotState(i)' = SlotState(i)
    BY <1>4 DEF vars, tableVars, SlotState, Freeing
  <2> QED
    BY <2>1, SameView
<1> QED
  BY <1>1, <1>2, <1>3, <1>4 DEF Next

(***************************************************************************)
(* The coord region implements the slot table, for every finite number of  *)
(* clients and every number of slots, as long as the server does not shut  *)
(* down and no two ids share a segment key: request_slot reserves, setting *)
(* shm_created serves, setting detach closes, and wiping the row reclaims, *)
(* although only the first of them is done under the mutex.                *)
(***************************************************************************)
THEOREM ImplementsSlotTable ==
  ASSUME KeysApart, NoShutdown, IsFiniteSet(Client)
  PROVE  Spec => SlotTableSpec
<1>1. Init => TableRefined /\ Table!TableInit
  BY InitRefined
<1>2. TableRefined /\ [Next]_vars => TableRefined' /\ [Table!TableNext]_SlotView
  <2> SUFFICES ASSUME TableRefined, [Next]_vars
               PROVE  TableRefined' /\ [Table!TableNext]_SlotView
    OBVIOUS
  <2>1. Types /\ TableInv /\ LiveInv /\ SegmentBound /\ Serving /\ Types'
    BY NextTypes DEF TableRefined, QueuesProtected, TableProtected, NeverShutDown
  <2>2. NeverShutDown' /\ Serving'
    BY <2>1, StaysUp DEF TableRefined, NeverShutDown
  <2>3. TableInv' /\ LiveInv' /\ SegmentBound'
    BY <2>1, <2>2, NextTableInv, NextLiveInv, NextBound
  <2>4. TableRefined'
    BY <2>1, <2>2, <2>3 DEF TableRefined, QueuesProtected, TableProtected
  <2> QED
    BY <2>1, <2>4, NextRefined
<1> QED
  BY <1>1, <1>2, PTL DEF Spec, SlotTableSpec, Table!TableSpec
=============================================================================
