------------------------------ MODULE SemQueue ------------------------------
(***************************************************************************)
(* The blocking ring of libnotnets (libnotnets/src/sem_queue.cpp): sem_push*)
(* and sem_pop on one shared memory region, with one thread calling each,  *)
(* and destroy_semaphores called by the server's manage-pool thread while  *)
(* either thread may still be inside.                                      *)
(*                                                                         *)
(* Three System V semaphores coordinate the threads: sem_lock guards the   *)
(* header and the array, sem_full wakes a producer that found the ring     *)
(* full, sem_empty wakes a consumer that found it empty.  Each wait, each  *)
(* post and each look at head and tail is a step of its own.  The copying  *)
(* done by enqueue and dequeue is one step: SlotsDisjoint shows that the   *)
(* two never work on the same slot.                                        *)
(*                                                                         *)
(* current_count and total_count are written and never read, and           *)
(* stop_consumer_polling is never set, so they are left out.               *)
(***************************************************************************)
EXTENDS Integers, Sequences

CONSTANTS
  Byte,         (* the values of one unit of payload                       *)
  ShmSize,      (* size of the shared memory region                        *)
  HeaderSize,   (* sizeof(sem_spsc_queue_header)                           *)
  MessageSize,  (* the message_size given to queue_create                  *)
  PushSizes,    (* the buffer sizes callers pass to sem_push               *)
  PopSizes,     (* the buffer sizes callers pass to sem_pop                *)
  SemMax,       (* SEMVMX, the largest value of a semaphore                *)
  Window        (* messages the producer's caller leaves outstanding       *)

(* queue_create exits the process unless one message fits.                 *)
ASSUME CreateAssumption ==
  /\ Byte # {}
  /\ ShmSize \in Nat /\ HeaderSize \in Nat
  /\ MessageSize \in Nat \ {0}
  /\ MessageSize + HeaderSize <= ShmSize
  /\ PushSizes \subseteq Nat
  /\ PopSizes \subseteq Nat
  /\ SemMax \in Nat \ {0}
  /\ Window \in Nat \ {0}

VARIABLES
  head, tail, message_offset, slots,   (* the header and the array         *)
  sem,       (* values of the semaphores lock, full and empty              *)
  live,      (* FALSE once destroy_semaphores has removed them             *)
  ppc, pbuf, was_empty, push_ret,      (* the thread in sem_push           *)
  cpc, want, was_full, popped          (* the thread in sem_pop            *)

ringVars == <<head, tail, message_offset, slots>>
semVars == <<sem, live>>
prodVars == <<ppc, pbuf, was_empty, push_ret>>
consVars == <<cpc, want, was_full, popped>>
vars == <<ringVars, semVars, prodVars, consVars>>

Semaphore == {"lock", "full", "empty"}

(* num_elements in queue_create.                                           *)
queue_size == (ShmSize - HeaderSize) \div MessageSize

SlotIndex == 0..(queue_size - 1)
Message == [1..MessageSize -> Byte]
Buffers(sizes) == UNION {[1..n -> Byte] : n \in sizes}

succNoWrap(i) == IF i = queue_size THEN 0 ELSE i + 1
succ(i) == IF i + 1 = queue_size THEN 0 ELSE i + 1
is_full == succ(head) = tail
is_empty == head = tail

Count == IF head >= tail THEN head - tail ELSE head - tail + queue_size

(* _initsem leaves each semaphore at 1; queue_create then takes the one of *)
(* sem_empty.                                                              *)
Init ==
  /\ head = 0 /\ tail = 0 /\ message_offset = 0
  /\ slots \in [SlotIndex -> Message]
  /\ sem = [s \in Semaphore |-> IF s = "empty" THEN 0 ELSE 1]
  /\ live = TRUE
  /\ ppc = "idle" /\ pbuf = << >> /\ was_empty = FALSE /\ push_ret = 0
  /\ cpc = "idle" /\ want = 0 /\ was_full = FALSE
  /\ popped = [bytes |-> << >>, ret |-> 0]

-----------------------------------------------------------------------------
(* semop.  On a removed semaphore it fails at once, and both wrappers'     *)
(* callers ignore the -1; a post beyond SEMVMX fails the same way.         *)

sem_wait(s) ==
  /\ live => sem[s] > 0
  /\ sem' = IF live THEN [sem EXCEPT ![s] = @ - 1] ELSE sem
  /\ live' = live

sem_post(s) ==
  /\ sem' = IF live /\ sem[s] < SemMax THEN [sem EXCEPT ![s] = @ + 1] ELSE sem
  /\ live' = live

(* destroy_semaphores, run by the server for a slot whose client detached. *)
DestroySemaphores ==
  /\ live
  /\ live' = FALSE
  /\ UNCHANGED <<ringVars, sem, prodVars, consVars>>

-----------------------------------------------------------------------------
(* sem_push                                                                *)

PushReject ==
  /\ ppc = "idle"
  /\ \E n \in PushSizes : n > MessageSize
  /\ push_ret' = -1
  /\ UNCHANGED <<ringVars, semVars, ppc, pbuf, was_empty, consVars>>

(* The caller pushes only while fewer than Window messages are in flight,  *)
(* as a client that waits for answers does.                                *)
PushCall(buf) ==
  /\ ppc = "idle"
  /\ Count < Window
  /\ Len(buf) <= MessageSize
  /\ pbuf' = buf
  /\ ppc' = "lock"
  /\ UNCHANGED <<ringVars, semVars, was_empty, push_ret, consVars>>

PushLockSkipped ==
  /\ ppc = "lock"
  /\ ppc' = "inspect"
  /\ UNCHANGED <<ringVars, semVars, pbuf, was_empty, push_ret, consVars>>

PushLock ==
  /\ ppc = "lock"
  /\ sem_wait("lock")
  /\ ppc' = "inspect"
  /\ UNCHANGED <<ringVars, pbuf, was_empty, push_ret, consVars>>

PushInspectNegated ==
  /\ ppc = "inspect"
  /\ was_empty' = (~is_empty)
  /\ ppc' = IF is_full THEN "leave" ELSE "enqueue"
  /\ UNCHANGED <<ringVars, semVars, pbuf, push_ret, consVars>>

(* was_empty is what decides, much later, whether sem_empty is posted.     *)
PushInspect ==
  /\ ppc = "inspect"
  /\ was_empty' = is_empty
  /\ ppc' = IF is_full THEN "leave" ELSE "enqueue"
  /\ UNCHANGED <<ringVars, semVars, pbuf, push_ret, consVars>>

PushLeave ==
  /\ ppc = "leave"
  /\ sem_post("lock")
  /\ ppc' = "check"
  /\ UNCHANGED <<ringVars, pbuf, was_empty, push_ret, consVars>>

(* The loop condition is read without the lock.                            *)
PushCheck ==
  /\ ppc = "check"
  /\ ppc' = IF is_full THEN "wait" ELSE "relock"
  /\ UNCHANGED <<ringVars, semVars, pbuf, was_empty, push_ret, consVars>>

PushWaitOnce ==
  /\ ppc = "wait"
  /\ sem_wait("full")
  /\ ppc' = "relock"
  /\ UNCHANGED <<ringVars, pbuf, was_empty, push_ret, consVars>>

PushWait ==
  /\ ppc = "wait"
  /\ sem_wait("full")
  /\ ppc' = "check"
  /\ UNCHANGED <<ringVars, pbuf, was_empty, push_ret, consVars>>

PushRelock ==
  /\ ppc = "relock"
  /\ sem_wait("lock")
  /\ ppc' = "enqueue"
  /\ UNCHANGED <<ringVars, pbuf, was_empty, push_ret, consVars>>

(* The buffer may be shorter than a message: the rest of the slot keeps    *)
(* what an earlier lap left there.                                         *)
Enqueue ==
  /\ ppc = "enqueue"
  /\ slots' = [slots EXCEPT ![head] =
                 [k \in 1..MessageSize |-> IF k <= Len(pbuf) THEN pbuf[k] ELSE @[k]]]
  /\ head' = succ(head)
  /\ ppc' = "unlock"
  /\ UNCHANGED <<tail, message_offset, semVars, pbuf, was_empty, push_ret, consVars>>

PushUnlock ==
  /\ ppc = "unlock"
  /\ sem_post("lock")
  /\ ppc' = "signal"
  /\ UNCHANGED <<ringVars, pbuf, was_empty, push_ret, consVars>>

PushReturnSilent ==
  /\ ppc = "signal"
  /\ ppc' = "idle" /\ pbuf' = << >> /\ was_empty' = FALSE
  /\ push_ret' = 0
  /\ UNCHANGED <<ringVars, semVars, consVars>>

PushReturn ==
  /\ ppc = "signal"
  /\ IF was_empty THEN sem_post("empty") ELSE UNCHANGED semVars
  /\ ppc' = "idle" /\ pbuf' = << >> /\ was_empty' = FALSE
  /\ push_ret' = 0
  /\ UNCHANGED <<ringVars, consVars>>

-----------------------------------------------------------------------------
(* sem_pop                                                                 *)

PopCall(n) ==
  /\ cpc = "idle"
  /\ want' = n
  /\ cpc' = "lock"
  /\ UNCHANGED <<ringVars, semVars, prodVars, was_full, popped>>

PopLock ==
  /\ cpc = "lock"
  /\ sem_wait("lock")
  /\ cpc' = "inspect"
  /\ UNCHANGED <<ringVars, prodVars, want, was_full, popped>>

PopInspect ==
  /\ cpc = "inspect"
  /\ was_full' = is_full
  /\ cpc' = IF is_empty THEN "leave" ELSE "dequeue"
  /\ UNCHANGED <<ringVars, semVars, prodVars, want, popped>>

PopLeaveKeepsLock ==
  /\ cpc = "leave"
  /\ cpc' = "check"
  /\ UNCHANGED <<ringVars, semVars, prodVars, want, was_full, popped>>

PopLeave ==
  /\ cpc = "leave"
  /\ sem_post("lock")
  /\ cpc' = "check"
  /\ UNCHANGED <<ringVars, prodVars, want, was_full, popped>>

PopCheck ==
  /\ cpc = "check"
  /\ cpc' = IF is_empty THEN "wait" ELSE "relock"
  /\ UNCHANGED <<ringVars, semVars, prodVars, want, was_full, popped>>

PopWaitOnce ==
  /\ cpc = "wait"
  /\ sem_wait("empty")
  /\ cpc' = "relock"
  /\ UNCHANGED <<ringVars, prodVars, want, was_full, popped>>

PopWait ==
  /\ cpc = "wait"
  /\ sem_wait("empty")
  /\ cpc' = "check"
  /\ UNCHANGED <<ringVars, prodVars, want, was_full, popped>>

PopRelock ==
  /\ cpc = "relock"
  /\ sem_wait("lock")
  /\ cpc' = "dequeue"
  /\ UNCHANGED <<ringVars, prodVars, want, was_full, popped>>

(* The caller's size is cut down to what is left of the tail message; the  *)
(* message is removed once fully read.                                     *)
Dequeue ==
  LET n == IF want + message_offset > MessageSize
             THEN MessageSize - message_offset ELSE want
      read == message_offset + n
      done == read = MessageSize
  IN  /\ cpc = "dequeue"
      /\ message_offset' = IF done THEN 0 ELSE read
      /\ tail' = IF done THEN succ(tail) ELSE tail
      /\ popped' = [bytes |-> [k \in 1..n |-> slots[tail][message_offset + k]],
                    ret   |-> IF done THEN 0 ELSE read]
      /\ cpc' = "unlock"
      /\ UNCHANGED <<head, slots, semVars, prodVars, want, was_full>>

PopUnlock ==
  /\ cpc = "unlock"
  /\ sem_post("lock")
  /\ cpc' = "signal"
  /\ UNCHANGED <<ringVars, prodVars, want, was_full, popped>>

PopReturn ==
  /\ cpc = "signal"
  /\ IF was_full THEN sem_post("full") ELSE UNCHANGED semVars
  /\ cpc' = "idle" /\ want' = 0 /\ was_full' = FALSE
  /\ UNCHANGED <<ringVars, prodVars, popped>>

-----------------------------------------------------------------------------
PushStep ==
  \/ PushLock \/ PushInspect \/ PushLeave \/ PushCheck \/ PushWait
  \/ PushRelock \/ Enqueue \/ PushUnlock \/ PushReturn

PopStep ==
  \/ PopLock \/ PopInspect \/ PopLeave \/ PopCheck \/ PopWait
  \/ PopRelock \/ Dequeue \/ PopUnlock \/ PopReturn

Next ==
  \/ DestroySemaphores
  \/ PushReject
  \/ \E buf \in Buffers(PushSizes) : PushCall(buf)
  \/ PushStep
  \/ \E n \in PopSizes : PopCall(n)
  \/ PopStep

Spec == Init /\ [][Next]_vars

(***************************************************************************)
(* Both threads keep running, both callers keep calling, and the kernel    *)
(* wakes the waiters of a semaphore in the order they arrived, so a thread *)
(* that waits for sem_lock gets it although the other keeps retaking it.   *)
(***************************************************************************)
FairSpec ==
  /\ Spec
  /\ WF_vars(PushStep) /\ WF_vars(PopStep)
  /\ SF_vars(PushLock) /\ SF_vars(PushRelock)
  /\ SF_vars(PopLock) /\ SF_vars(PopRelock)
  /\ WF_vars(\E buf \in Buffers(PushSizes) : PushCall(buf))
  /\ WF_vars(\E n \in PopSizes : PopCall(n))

-----------------------------------------------------------------------------
Wrap(i) == IF i >= queue_size THEN i - queue_size ELSE i
Contents == [i \in 1..Count |-> slots[Wrap(tail + i - 1)]]

Channel == INSTANCE MessageChannel WITH
  Capacity <- queue_size - 1,
  offer    <- IF ppc \in {"idle", "unlock", "signal"} THEN {} ELSE {pbuf},
  chan     <- Contents,
  offset   <- message_offset,
  got      <- popped

(* Types of the header, the array, the semaphores and both threads' locals.*)
TypeOK ==
  /\ head \in SlotIndex /\ tail \in SlotIndex
  /\ message_offset \in 0..(MessageSize - 1)
  /\ slots \in [SlotIndex -> Message]
  /\ sem \in [Semaphore -> 0..SemMax]
  /\ live \in BOOLEAN
  /\ ppc \in {"idle", "lock", "inspect", "leave", "check", "wait", "relock",
              "enqueue", "unlock", "signal"}
  /\ pbuf \in Seq(Byte) /\ Len(pbuf) <= MessageSize
  /\ was_empty \in BOOLEAN
  /\ push_ret \in {0, -1}
  /\ cpc \in {"idle", "lock", "inspect", "leave", "check", "wait", "relock",
              "dequeue", "unlock", "signal"}
  /\ want \in Nat
  /\ was_full \in BOOLEAN
  /\ popped \in [bytes : Seq(Byte), ret : 0..(MessageSize - 1)]

PushHoldsLock == ppc \in {"inspect", "leave", "enqueue", "unlock"}
PopHoldsLock == cpc \in {"inspect", "leave", "dequeue", "unlock"}

(***************************************************************************)
(* sem_lock is a lock: its value says exactly whether one of the threads   *)
(* is inside, and never both are, on every path through the two waits      *)
(* (sem_queue.cpp:288-301 and 351-363), until it is removed.               *)
(***************************************************************************)
MutualExclusion ==
  live => /\ ~(PushHoldsLock /\ PopHoldsLock)
          /\ sem["lock"] = IF PushHoldsLock \/ PopHoldsLock THEN 0 ELSE 1

(***************************************************************************)
(* enqueue and dequeue never copy to and from the same slot, not even when *)
(* the semaphores are removed under the two threads and every wait fails.  *)
(***************************************************************************)
SlotsDisjoint == ppc = "enqueue" /\ cpc = "dequeue" => head # tail

(***************************************************************************)
(* Refinement: the blocking ring behaves as the message channel, including *)
(* after destroy_semaphores.                                               *)
(***************************************************************************)
ChannelSpec == Channel!ChanSpec

(***************************************************************************)
(* No lost wakeup: a consumer asleep on sem_empty beside a message has a   *)
(* token to wake it, or the producer is on its way to post one.            *)
(***************************************************************************)
NoLostWakeup ==
  live /\ cpc = "wait" /\ ~is_empty =>
    \/ sem["empty"] > 0
    \/ ppc \in {"unlock", "signal"} /\ was_empty

(* A sem_push in progress returns, when the consumer keeps popping.        *)
SemPushReturns == (ppc # "idle") ~> (ppc = "idle")

(* A sem_pop in progress returns, when the producer keeps pushing.         *)
SemPopReturns == (cpc # "idle") ~> (cpc = "idle")
=============================================================================
