------------------------------ MODULE SemSets -------------------------------
(***************************************************************************)
(* The System V semaphores behind the semaphore queues, and the names that *)
(* decide who gets which: hash (coord.cpp) makes a client id of a client's *)
(* address, queue_create (sem_queue.cpp) makes six semaphore keys of the   *)
(* id, _initsem makes or finds the sets, destroy_semaphores removes them.  *)
(* The sets belong to the kernel: they outlive the processes.              *)
(*                                                                         *)
(* Clients connect and manage_pool serves and clears their rows as in      *)
(* Coord, cut as finely: a row that a killed server left marked is not     *)
(* reserved, so request_slot and clear_slot can be at the same row at the  *)
(* same time, which SlotTable rules out for a server that was never        *)
(* restarted.  All clients ask for SEM queues, and manage_pool has seen    *)
(* that (Coord treats the case where it has not).  Segments are left to    *)
(* Coord: a queue is known by the semids in its header.                    *)
(***************************************************************************)
EXTENDS Integers, Sequences, FiniteSets, Functions

CONSTANTS
  Name,       (* the clients' addresses, as sequences of character codes   *)
  SLOT_NUM,   (* rows of the coord region                                  *)
  Opens,      (* how often a client opens between two starts of the server *)
  SemMax,     (* the largest value a queue's use gives sem_empty           *)
  Used,       (* the semaphores that messages move: sem_empty of the       *)
              (* request queue (2), of the response queue (5)              *)
  MaxRestarts (* how often all processes are killed and started again      *)

ASSUME SetsAssumption ==
  /\ \A n \in Name : Len(n) > 0 /\ \A k \in 1..Len(n) : n[k] \in 1..255
  /\ SLOT_NUM \in Nat \ {0}
  /\ Opens \in Nat /\ SemMax \in Nat \ {0} /\ MaxRestarts \in Nat
  /\ Used \subseteq {2, 5}

Slot == 0..(SLOT_NUM - 1)

-----------------------------------------------------------------------------
(* hash, on 32-bit words                                                   *)

Bit == 0..31
Seed == [b \in Bit |-> b % 2 = 0]                           (* 0x55555555  *)
HasBit(c, b) == b < 8 /\ (c \div 2^b) % 2 = 1
Xor(w, c) == [b \in Bit |-> w[b] # HasBit(c, b)]
rol(r, k) == [b \in Bit |-> r[(b - k) % 32]]

(* The int of a word, in two's complement.                                 *)
ToInt(w) ==
  LET low[b \in 0..31] ==
        IF b = 0 THEN 0 ELSE 2 * low[b - 1] + (IF w[31 - b] # w[31] THEN 1 ELSE 0)
  IN  IF w[31] THEN -low[31] - 1 ELSE low[31]

hash_no_rol(input) ==
  LET h[k \in 0..Len(input)] == IF k = 0 THEN Seed ELSE Xor(h[k - 1], input[k])
  IN  ToInt(rol(h[Len(input)], 5))

hash(input) ==
  LET h[k \in 0..Len(input)] ==
        IF k = 0 THEN Seed ELSE rol(Xor(h[k - 1], input[k]), 5)
  IN  ToInt(h[Len(input)])

-----------------------------------------------------------------------------
(* The keys: semaphores 1 to 3 are sem_full, sem_empty and sem_lock of the *)
(* request queue, 4 to 6 those of the response queue.                      *)

Sem == 1..6
Empties == {2, 5}
Queue(k) == IF k <= 3 THEN 1 ELSE 2

(* Division of C, towards zero.                                            *)
Quot(a, b) == IF a >= 0 THEN a \div b ELSE -((-a) \div b)
Abs(a) == IF a >= 0 THEN a ELSE -a

(* key1 and key2 of the two queues of a client id.                         *)
key_seed(id, q) == IF q = 1 THEN Quot(id, 2) ELSE Quot(id, 3)

sem_key_lock_20(id, k) ==
  Abs(key_seed(id, Queue(k))) \div (IF k \in {1, 4} THEN 2 ELSE 20)

sem_key(id, k) ==
  Abs(key_seed(id, Queue(k))) \div
    (IF k \in {1, 4} THEN 2 ELSE IF k \in Empties THEN 20 ELSE 200)

client_id == [n \in Name |-> hash(n)]
KeysOf(n) == {sem_key(client_id[n], k) : k \in Sem}

VARIABLES
  sets,      (* the semaphore sets ever made, semid = position             *)
  reserved,  (* header->available_slots[i].client_reserved                 *)
  row,       (* header->slots[i], with the semids its queues hold          *)
  cl,        (* each client's thread                                       *)
  rn,        (* the manage-pool thread                                     *)
  boot,      (* how often the processes were started again                 *)
  late,      (* auxiliary: semids of rows marked between the two looks of  *)
             (* manage_pool                                                *)
  clashed    (* auxiliary: clients whose slot was not theirs alone         *)

tableVars == <<reserved, row>>
auxVars == <<late, clashed>>
vars == <<sets, tableVars, cl, rn, boot, auxVars>>

(* asked: message_size and type are those of a client, not of zero memory. *)
ZeroRow == [client_id |-> 0, asked |-> FALSE, created |-> FALSE, attached |-> FALSE,
            detach |-> FALSE, sems |-> << >>]
NewClient == [pc |-> "start", slot |-> 0, opens |-> 0, sems |-> << >>]
NewRunner == [pc |-> "service", i |-> 0, sems |-> << >>]

Init ==
  /\ sets = << >>
  /\ reserved = [i \in Slot |-> FALSE]
  /\ row = [i \in Slot |-> ZeroRow]
  /\ cl = [n \in Name |-> NewClient]
  /\ rn = NewRunner
  /\ boot = 0
  /\ late = {}
  /\ clashed = {}

(* The clients that have got as far as one of the lines with slot i.       *)
Writing == {"write", "reserve"}
Having == {"await", "attach", "open", "detach"}
HoldersAt(i, pcs) == {n \in Name : cl[n].slot = i /\ cl[n].pc \in pcs}

-----------------------------------------------------------------------------
(* Client n: request_slot, under the mutex                                 *)

Requesting(n) == cl[n].pc \in {"scan"} \cup Writing

RequestLockUnguarded(n) ==
  /\ cl[n].pc = "start"
  /\ cl[n].opens < Opens
  /\ cl' = [cl EXCEPT ![n].pc = "scan", ![n].slot = 0]
  /\ UNCHANGED <<sets, tableVars, rn, boot, auxVars>>

RequestLock(n) ==
  /\ cl[n].pc = "start"
  /\ cl[n].opens < Opens
  /\ \A m \in Name : ~Requesting(m)
  /\ cl' = [cl EXCEPT ![n].pc = "scan", ![n].slot = 0]
  /\ UNCHANGED <<sets, tableVars, rn, boot, auxVars>>

(* With no slot left client_open tries again.                              *)
RequestSkip(n) ==
  /\ cl[n].pc = "scan"
  /\ reserved[cl[n].slot]
  /\ cl' = IF cl[n].slot + 1 \in Slot THEN [cl EXCEPT ![n].slot = @ + 1]
           ELSE [cl EXCEPT ![n].pc = "start"]
  /\ UNCHANGED <<sets, tableVars, rn, boot, auxVars>>

(* The look at the flag, and the id, which is written first.               *)
RequestTake(n) ==
  LET i == cl[n].slot
  IN  /\ cl[n].pc = "scan"
      /\ ~reserved[i]
      /\ row' = [row EXCEPT ![i].client_id = client_id[n]]
      /\ cl' = [cl EXCEPT ![n].pc = "write", ![n].opens = @ + 1]
      /\ clashed' = IF HoldersAt(i, Having) = {} THEN clashed ELSE clashed \cup {n}
      /\ UNCHANGED <<sets, reserved, rn, boot, late>>

RequestWrite(n) ==
  /\ cl[n].pc = "write"
  /\ row' = [row EXCEPT ![cl[n].slot] =
               [@ EXCEPT !.asked = TRUE, !.detach = FALSE, !.attached = FALSE,
                         !.created = FALSE]]
  /\ cl' = [cl EXCEPT ![n].pc = "reserve"]
  /\ UNCHANGED <<sets, reserved, rn, boot, auxVars>>

RequestReserve(n) ==
  /\ cl[n].pc = "reserve"
  /\ reserved' = [reserved EXCEPT ![cl[n].slot] = TRUE]
  /\ cl' = [cl EXCEPT ![n].pc = "await"]
  /\ UNCHANGED <<sets, row, rn, boot, auxVars>>

-----------------------------------------------------------------------------
(* Client n: the rest of client_open, client_close                         *)

(* client_open waits for shm_created and for keys that are not 0.  A row   *)
(* whose client is attached already gives no queues.                       *)
OpenPair(n) ==
  LET r == row[cl[n].slot]
  IN  /\ cl[n].pc = "await"
      /\ r.created
      /\ key_seed(r.client_id, 1) # 0 /\ key_seed(r.client_id, 2) # 0
      /\ cl' = [cl EXCEPT ![n].pc = "attach",
                          ![n].sems = IF r.attached THEN << >> ELSE r.sems]
      /\ UNCHANGED <<sets, tableVars, rn, boot, auxVars>>

OpenAttach(n) ==
  /\ cl[n].pc = "attach"
  /\ row' = [row EXCEPT ![cl[n].slot].attached = @ \/ row[cl[n].slot].created]
  /\ cl' = [cl EXCEPT ![n].pc = "open"]
  /\ UNCHANGED <<sets, reserved, rn, boot, auxVars>>

(* Pushes into an empty queue leave tokens in its sem_empty, and pops that *)
(* find it empty take them (SemQueue).                                     *)
UseQueue(n, k) ==
  /\ cl[n].pc = "open"
  /\ k \in Used \cap DOMAIN cl[n].sems
  /\ LET s == cl[n].sems[k]
     IN  /\ sets[s].live
         /\ \E v \in {sets[s].val - 1, sets[s].val + 1} \cap (0..SemMax) :
              sets' = [sets EXCEPT ![s].val = v]
  /\ UNCHANGED <<tableVars, cl, rn, boot, auxVars>>

(* client_close looks for the first row that carries the client's id; no   *)
(* one else writes that id, so the scan is one step.                       *)
CloseFind(n) ==
  /\ cl[n].pc = "open"
  /\ \/ \E i \in Slot :
          /\ row[i].client_id = client_id[n]
          /\ \A j \in Slot : j < i => row[j].client_id # client_id[n]
          /\ cl' = [cl EXCEPT ![n].pc = "detach", ![n].slot = i]
     \/ /\ \A i \in Slot : row[i].client_id # client_id[n]
        /\ cl' = [cl EXCEPT ![n].pc = "start", ![n].sems = << >>]
  /\ UNCHANGED <<sets, tableVars, rn, boot, auxVars>>

(* Without the mutex: the row may have passed to another client by now,    *)
(* and with it marked no connection is safe.                               *)
CloseDetach(n) ==
  LET i == cl[n].slot
  IN  /\ cl[n].pc = "detach"
      /\ row' = [row EXCEPT ![i].detach = TRUE]
      /\ cl' = [cl EXCEPT ![n].pc = "start", ![n].sems = << >>]
      /\ late' = IF rn.pc = "clear" /\ rn.i = i THEN late \cup Range(row[i].sems) ELSE late
      /\ clashed' = IF row[i].client_id = client_id[n] THEN clashed ELSE Name
      /\ UNCHANGED <<sets, reserved, rn, boot>>

ClientStep(n) ==
  \/ RequestLock(n)
  \/ RequestSkip(n)
  \/ RequestTake(n)
  \/ RequestWrite(n)
  \/ RequestReserve(n)
  \/ OpenPair(n)
  \/ OpenAttach(n)
  \/ CloseFind(n)
  \/ CloseDetach(n)

-----------------------------------------------------------------------------
(* manage_pool: service_slot with _hash_sem_shm_allocator and queue_create,*)
(* clean_up_queue_resources with destroy_semaphores, clear_slot            *)

NextSlotNoWrap == [rn EXCEPT !.pc = "service", !.i = @ + 1]
NextSlot == [rn EXCEPT !.pc = "service", !.i = (@ + 1) % SLOT_NUM]

ServiceCreated ==
  /\ rn.pc = "service"
  /\ rn' = IF reserved[rn.i] /\ row[rn.i].created
             THEN [rn EXCEPT !.pc = IF row[rn.i].asked THEN "semget" ELSE "exited"]
             ELSE [rn EXCEPT !.pc = "cleanup"]
  /\ UNCHANGED <<sets, tableVars, cl, boot, auxVars>>

(* A reserved row that was wiped has message_size 0, by which queue_create *)
(* divides.                                                                *)
Service ==
  /\ rn.pc = "service"
  /\ rn' = IF reserved[rn.i] /\ ~row[rn.i].created
             THEN [rn EXCEPT !.pc = IF row[rn.i].asked THEN "semget" ELSE "exited"]
             ELSE [rn EXCEPT !.pc = "cleanup"]
  /\ UNCHANGED <<sets, tableVars, cl, boot, auxVars>>

(* The semaphore queue_create is at, its key, and where it goes once it    *)
(* has that semaphore.                                                     *)
Now == Len(rn.sems)
Key == sem_key(row[rn.i].client_id, Now + 1)
After(k) == IF k \in Empties THEN "wait" ELSE IF k = 6 THEN "publish" ELSE "semget"

(* Key 0 is IPC_PRIVATE, under which nothing is ever found.                *)
HasKey(s, key) == sets[s].live /\ sets[s].key = key /\ key # 0

(* _initsem: semget with IPC_EXCL makes the set, a semop sets it to 1.     *)
SemgetNew ==
  /\ rn.pc = "semget"
  /\ ~\E s \in DOMAIN sets : HasKey(s, Key)
  /\ sets' = Append(sets, [key |-> Key, val |-> 0, otime |-> FALSE,
                           live |-> TRUE, boot |-> boot])
  /\ rn' = [rn EXCEPT !.pc = "semop", !.sems = Append(@, Len(sets) + 1)]
  /\ UNCHANGED <<tableVars, cl, boot, auxVars>>

Semop ==
  /\ rn.pc = "semop"
  /\ sets' = [sets EXCEPT ![rn.sems[Now]].val = @ + 1, ![rn.sems[Now]].otime = TRUE]
  /\ rn' = [rn EXCEPT !.pc = After(Now)]
  /\ UNCHANGED <<tableVars, cl, boot, auxVars>>

(* A set that is there already is taken as it is.  One that was never      *)
(* operated on is waited for, MAX_RETRIES times, by the only thread that   *)
(* would do it: queue_create exits.                                        *)
SemgetOld ==
  /\ rn.pc = "semget"
  /\ \E s \in DOMAIN sets :
       /\ HasKey(s, Key)
       /\ rn' = IF sets[s].otime
                  THEN [rn EXCEPT !.pc = After(Now + 1), !.sems = Append(@, s)]
                  ELSE [rn EXCEPT !.pc = "exited"]
  /\ UNCHANGED <<sets, tableVars, cl, boot, auxVars>>

(* sem_wait(sem_empty) in queue_create blocks while the value is 0.        *)
Wait ==
  /\ rn.pc = "wait"
  /\ sets[rn.sems[Now]].val > 0
  /\ sets' = [sets EXCEPT ![rn.sems[Now]].val = @ - 1]
  /\ rn' = [rn EXCEPT !.pc = "semget"]
  /\ UNCHANGED <<tableVars, cl, boot, auxVars>>

Publish ==
  /\ rn.pc = "publish"
  /\ row' = [row EXCEPT ![rn.i].sems = rn.sems, ![rn.i].created = TRUE]
  /\ rn' = [rn EXCEPT !.pc = "cleanup", !.sems = << >>]
  /\ UNCHANGED <<sets, reserved, cl, boot, auxVars>>

(* clean_up_queue_resources; destroy_semaphores crashes on a row that      *)
(* never had queues.                                                       *)
CleanUp ==
  LET r == row[rn.i]
  IN  /\ rn.pc = "cleanup"
      /\ rn' = IF ~(reserved[rn.i] /\ r.detach /\ r.asked) THEN [rn EXCEPT !.pc = "clear"]
               ELSE IF r.sems = << >> THEN [rn EXCEPT !.pc = "exited"]
               ELSE [rn EXCEPT !.pc = "destroy", !.sems = r.sems]
      /\ UNCHANGED <<sets, tableVars, cl, boot, auxVars>>

Removed == [key |-> 0, val |-> 0, otime |-> FALSE, live |-> FALSE, boot |-> 0]

destroy_request_semaphores ==
  /\ rn.pc = "destroy"
  /\ sets' = [sets EXCEPT ![Head(rn.sems)] = Removed]
  /\ rn' = IF Len(rn.sems) <= 4 THEN [rn EXCEPT !.pc = "clear", !.sems = << >>]
           ELSE [rn EXCEPT !.sems = Tail(@)]
  /\ UNCHANGED <<tableVars, cl, boot, auxVars>>

(* One semctl(IPC_RMID) after the other.                                   *)
destroy_semaphores ==
  /\ rn.pc = "destroy"
  /\ sets' = [sets EXCEPT ![Head(rn.sems)] = Removed]
  /\ rn' = [rn EXCEPT !.pc = IF Len(rn.sems) = 1 THEN "clear" ELSE "destroy",
                      !.sems = Tail(@)]
  /\ UNCHANGED <<tableVars, cl, boot, auxVars>>

(* clear_slot looks at detach for itself, and not at client_reserved.      *)
ClearSlot ==
  /\ rn.pc = "clear"
  /\ rn' = IF row[rn.i].detach THEN [rn EXCEPT !.pc = "wipe"] ELSE NextSlot
  /\ UNCHANGED <<sets, tableVars, cl, boot, auxVars>>

(* force_clear_slot wipes the row, then frees the slot.                    *)
ClearRow ==
  /\ rn.pc = "wipe"
  /\ row' = [row EXCEPT ![rn.i] = ZeroRow]
  /\ clashed' = clashed \cup HoldersAt(rn.i, Writing \cup Having)
  /\ rn' = [rn EXCEPT !.pc = "free"]
  /\ UNCHANGED <<sets, reserved, cl, boot, late>>

ClearFree ==
  /\ rn.pc = "free"
  /\ reserved' = [reserved EXCEPT ![rn.i] = FALSE]
  /\ clashed' = clashed \cup HoldersAt(rn.i, Having)
  /\ rn' = NextSlot
  /\ UNCHANGED <<sets, row, cl, boot, late>>

PoolStep ==
  \/ Service
  \/ SemgetNew
  \/ Semop
  \/ SemgetOld
  \/ Wait
  \/ Publish
  \/ CleanUp
  \/ destroy_semaphores
  \/ ClearSlot
  \/ ClearRow
  \/ ClearFree

(***************************************************************************)
(* All processes are killed, at any moment, and started again.  The sets   *)
(* stay, and so do the rows of the coord region; register_server only      *)
(* resets the reservations and the mutex.                                  *)
(***************************************************************************)
KillAndRestart ==
  /\ boot < MaxRestarts
  /\ boot' = boot + 1
  /\ reserved' = [i \in Slot |-> FALSE]
  /\ cl' = [n \in Name |-> NewClient]
  /\ rn' = NewRunner
  /\ late' = {} /\ clashed' = {}
  /\ UNCHANGED <<sets, row>>

Next ==
  \/ \E n \in Name : ClientStep(n)
  \/ \E n \in Name, k \in Sem : UseQueue(n, k)
  \/ PoolStep
  \/ KillAndRestart

Spec == Init /\ [][Next]_vars

(* The manage-pool thread and clients inside client_open keep running.     *)
FairSpec ==
  Spec /\ WF_vars(PoolStep) /\ \A n \in Name : WF_vars(OpenPair(n) \/ OpenAttach(n))

-----------------------------------------------------------------------------
(* Properties                                                              *)

(* Types of the sets, the rows and the threads.                            *)
TypeOK ==
  /\ sets \in Seq([key : Nat, val : 0..SemMax, otime : BOOLEAN, live : BOOLEAN,
                   boot : 0..boot])
  /\ reserved \in [Slot -> BOOLEAN]
  /\ \A i \in Slot : /\ row[i].client_id \in Range(client_id) \cup {0}
                      /\ Range(row[i].sems) \subseteq DOMAIN sets
  /\ \A n \in Name : /\ cl[n].pc \in {"start", "scan"} \cup Writing \cup Having
                      /\ cl[n].slot \in Slot /\ cl[n].opens \in 0..Opens
                      /\ Range(cl[n].sems) \subseteq DOMAIN sets
  /\ rn.pc \in {"service", "semget", "semop", "wait", "publish", "cleanup",
                "destroy", "clear", "wipe", "free", "exited"}
  /\ rn.i \in Slot /\ Range(rn.sems) \subseteq DOMAIN sets
  /\ boot \in 0..MaxRestarts
  /\ late \subseteq DOMAIN sets /\ clashed \subseteq Name

(***************************************************************************)
(* A client gets its slot for itself: clear_slot, which takes no mutex,    *)
(* never wipes or frees a slot under a client that is given it, and no     *)
(* close marks another's row, until the server is started over the rows    *)
(* that an earlier one left.                                               *)
(***************************************************************************)
ClashAfterRestart == boot = 0 => clashed = {}

(***************************************************************************)
(* The two queues of an open connection have six different semaphores,     *)
(* which are there, and no other open connection uses one of them, whatever*)
(* the server found in the kernel's tables and in the rows when it was     *)
(* started.  Not so for a client that clashed in its slot.                 *)
(***************************************************************************)
OwnSemaphores ==
  \A n \in Name \ clashed : cl[n].pc = "open" =>
    /\ Cardinality(Range(cl[n].sems)) = 6
    /\ \A s \in Range(cl[n].sems) : sets[s].live
    /\ \A m \in Name \ {n} : cl[m].pc = "open" =>
         Range(cl[n].sems) \cap Range(cl[m].sems) = {}

Blocked == rn.pc = "wait" /\ sets[rn.sems[Now]].val = 0

(***************************************************************************)
(* The manage-pool thread, on which every client depends, blocks in        *)
(* queue_create only on a set that was left behind by an earlier start of  *)
(* the server: never on one of another client of its own.                  *)
(***************************************************************************)
BlockedByLeftover == Blocked => sets[rn.sems[Now]].boot < boot

(***************************************************************************)
(* No semaphore is lost sight of: one made since the server started is in  *)
(* the queues of a reserved row or of the row being served, except those   *)
(* of a row marked between clean_up_queue_resources and clear_slot.        *)
(***************************************************************************)
NoOrphans ==
  \A s \in DOMAIN sets : sets[s].live /\ sets[s].boot = boot =>
    \/ \E i \in Slot : reserved[i] /\ row[i].created /\ s \in Range(row[i].sems)
    \/ s \in Range(rn.sems)
    \/ s \in late

(***************************************************************************)
(* A client that has a slot is served, unless a left-over set or row stops *)
(* the manage-pool thread, the client clashed in its slot, or all processes*)
(* are killed.                                                             *)
(***************************************************************************)
Served ==
  \A n \in Name : (cl[n].pc = "await") ~>
    (cl[n].pc # "await" \/ n \in clashed \/ Blocked \/ rn.pc = "exited")

(* A client that has a slot is served.                                     *)
OpenServed == \A n \in Name : (cl[n].pc = "await") ~> (cl[n].pc = "open")
=============================================================================
