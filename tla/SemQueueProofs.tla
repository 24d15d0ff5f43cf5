--------------------------- MODULE SemQueueProofs ---------------------------
(***************************************************************************)
(* Proofs about SemQueue, for every message size, region size, limit of    *)
(* the semaphores and set of buffer sizes that queue_create accepts.       *)
(***************************************************************************)
EXTENDS SemQueue, SequenceTheorems, TLAPS

(* queue_create's check leaves room for one message: the ring has a slot.  *)
LEMMA QueueSizePositive == queue_size \in Nat /\ queue_size >= 1
<1> DEFINE room == ShmSize - HeaderSize
<1>1. room \in Nat /\ MessageSize \in Nat /\ MessageSize > 0 /\ room >= MessageSize
  BY CreateAssumption
<1> HIDE DEF room
<1>2. /\ room \div MessageSize \in Int
      /\ room = MessageSize * (room \div MessageSize) + (room % MessageSize)
      /\ (room % MessageSize) \in 0..(MessageSize - 1)
  BY <1>1
<1> DEFINE q == room \div MessageSize
<1>3. q \in Int /\ MessageSize * q > 0
  BY <1>1, <1>2
<1> HIDE DEF q
<1>4. q >= 1
  BY <1>1, <1>3
<1> QED
  BY <1>3, <1>4 DEF queue_size, room, q

(* succ stays on the ring, and no two slots have the same successor.       *)
LEMMA SuccType ==
  ASSUME NEW i \in SlotIndex
  PROVE  succ(i) \in SlotIndex
BY QueueSizePositive DEF succ, SlotIndex

LEMMA SuccInjective ==
  ASSUME NEW i \in SlotIndex, NEW j \in SlotIndex, succ(i) = succ(j)
  PROVE  i = j
BY QueueSizePositive DEF succ, SlotIndex

(* A buffer handed to sem_push is a sequence of its own size.              *)
LEMMA BufferType ==
  ASSUME NEW buf \in Buffers(PushSizes)
  PROVE  buf \in Seq(Byte) /\ Len(buf) \in Nat
<1>1. PICK n \in PushSizes : buf \in [1..n -> Byte]
  BY DEF Buffers
<1> QED
  BY <1>1, CreateAssumption

(* What the two semaphore operations do, removed semaphores included.      *)
LEMMA SemWaitEffect ==
  ASSUME TypeOK, NEW s \in Semaphore, sem_wait(s)
  PROVE  /\ sem' \in [Semaphore -> 0..SemMax]
         /\ live' = live
         /\ live => sem[s] > 0 /\ sem'[s] = sem[s] - 1
         /\ \A t \in Semaphore \ {s} : sem'[t] = sem[t]
BY CreateAssumption DEF TypeOK, sem_wait

LEMMA SemPostEffect ==
  ASSUME TypeOK, NEW s \in Semaphore, sem_post(s)
  PROVE  /\ sem' \in [Semaphore -> 0..SemMax]
         /\ live' = live
         /\ live => sem'[s] = IF sem[s] < SemMax THEN sem[s] + 1 ELSE sem[s]
         /\ \A t \in Semaphore \ {s} : sem'[t] = sem[t]
BY CreateAssumption DEF TypeOK, sem_post

-----------------------------------------------------------------------------
(***************************************************************************)
(* The inductive invariant.  A thread on its way to the copy has seen that *)
(* there is room, or a message, and this stays true without any lock: each *)
(* index only moves towards the other one and never onto it.               *)
(***************************************************************************)
SeenInv ==
  /\ ppc \in {"relock", "enqueue"} => ~is_full
  /\ cpc \in {"relock", "dequeue"} => ~is_empty

QueueInv == TypeOK /\ SeenInv /\ MutualExclusion

(* queue_create establishes the invariant.                                 *)
LEMMA InitQueueInv == Init => QueueInv
<1> SUFFICES ASSUME Init PROVE QueueInv
  OBVIOUS
<1>1. 0 \in SlotIndex
  BY QueueSizePositive DEF SlotIndex
<1>2. 0 \in 0..(MessageSize - 1) /\ 0 \in 0..MessageSize
  BY CreateAssumption
<1>3. << >> \in Seq(Byte) /\ Len(<< >>) = 0
  OBVIOUS
<1>4. sem \in [Semaphore -> 0..SemMax] /\ sem["lock"] = 1
  BY CreateAssumption DEF Init, Semaphore
<1>5. TypeOK
  BY <1>1, <1>2, <1>3, <1>4, CreateAssumption DEF Init, TypeOK
<1>6. SeenInv /\ MutualExclusion
  BY <1>4 DEF Init, SeenInv, MutualExclusion, PushHoldsLock, PopHoldsLock
<1> QED
  BY <1>5, <1>6 DEF QueueInv

(* Types are kept by every step.                                           *)
LEMMA NextTypeOK == QueueInv /\ [Next]_vars => TypeOK'
<1> SUFFICES ASSUME QueueInv, [Next]_vars PROVE TypeOK'
  OBVIOUS
<1> USE DEF QueueInv, ringVars, semVars, prodVars, consVars
<1>1. CASE DestroySemaphores
  BY <1>1 DEF DestroySemaphores, TypeOK
<1>2. CASE PushReject
  BY <1>2 DEF PushReject, TypeOK
<1>3. ASSUME NEW buf \in Buffers(PushSizes), PushCall(buf)
      PROVE  TypeOK'
  BY <1>3, BufferType DEF PushCall, TypeOK
<1>4. CASE PushLock
  BY <1>4, SemWaitEffect DEF PushLock, TypeOK, Semaphore
<1>5. CASE PushInspect
  BY <1>5 DEF PushInspect, TypeOK, is_empty
<1>6. CASE PushLeave
  BY <1>6, SemPostEffect DEF PushLeave, TypeOK, Semaphore
<1>7. CASE PushCheck
  BY <1>7 DEF PushCheck, TypeOK
<1>8. CASE PushWait
  BY <1>8, SemWaitEffect DEF PushWait, TypeOK, Semaphore
<1>9. CASE PushRelock
  BY <1>9, SemWaitEffect DEF PushRelock, TypeOK, Semaphore
<1>10. CASE Enqueue
  <2> DEFINE m == [k \in 1..MessageSize |-> IF k <= Len(pbuf) THEN pbuf[k] ELSE slots[head][k]]
  <2>1. m \in Message
    BY CreateAssumption DEF TypeOK, Message
  <2> HIDE DEF m
  <2>2. slots' = [slots EXCEPT ![head] = m]
    BY <1>10 DEF Enqueue, m
  <2> QED
    BY <1>10, <2>1, <2>2, SuccType DEF Enqueue, TypeOK
<1>11. CASE PushUnlock
  BY <1>11, SemPostEffect DEF PushUnlock, TypeOK, Semaphore
<1>12. CASE PushReturn
  <2>1. sem' \in [Semaphore -> 0..SemMax] /\ live' \in BOOLEAN
    BY <1>12, SemPostEffect DEF PushReturn, TypeOK, Semaphore
  <2>2. pbuf' \in Seq(Byte) /\ Len(pbuf') <= MessageSize
    BY <1>12, CreateAssumption DEF PushReturn
  <2>3. /\ ppc' = "idle" /\ was_empty' \in BOOLEAN /\ push_ret' \in {0, -1}
        /\ UNCHANGED <<ringVars, consVars>>
    BY <1>12 DEF PushReturn
  <2> QED
    BY <2>1, <2>2, <2>3 DEF TypeOK
<1>13. ASSUME NEW n \in PopSizes, PopCall(n)
       PROVE  TypeOK'
  BY <1>13, CreateAssumption DEF PopCall, TypeOK
<1>14. CASE PopLock
  BY <1>14, SemWaitEffect DEF PopLock, TypeOK, Semaphore
<1>15. CASE PopInspect
  BY <1>15 DEF PopInspect, TypeOK, is_full
<1>16. CASE PopLeave
  BY <1>16, SemPostEffect DEF PopLeave, TypeOK, Semaphore
<1>17. CASE PopCheck
  BY <1>17 DEF PopCheck, TypeOK
<1>18. CASE PopWait
  BY <1>18, SemWaitEffect DEF PopWait, TypeOK, Semaphore
<1>19. CASE PopRelock
  BY <1>19, SemWaitEffect DEF PopRelock, TypeOK, Semaphore
<1>20. CASE Dequeue
  <2> DEFINE n == IF want + message_offset > MessageSize
                    THEN MessageSize - message_offset ELSE want
             bytes == [k \in 1..n |-> slots[tail][message_offset + k]]
             read == message_offset + n
  <2>1. n \in 0..(MessageSize - message_offset) /\ read \in 0..MessageSize
    BY CreateAssumption DEF TypeOK
  <2>2. bytes \in Seq(Byte)
    <3>1. \A k \in 1..n : slots[tail][message_offset + k] \in Byte
      BY <2>1, CreateAssumption DEF TypeOK, Message
    <3> QED
      BY <2>1, <3>1, CreateAssumption DEF TypeOK
  <2>3. /\ message_offset' = IF read = MessageSize THEN 0 ELSE read
        /\ popped' = [bytes |-> bytes, ret |-> IF read = MessageSize THEN 0 ELSE read]
        /\ tail' = IF read = MessageSize THEN succ(tail) ELSE tail
    BY <1>20 DEF Dequeue
  <2> HIDE DEF n, bytes, read
  <2>4. message_offset' \in 0..(MessageSize - 1) /\ tail' \in SlotIndex
    BY <2>1, <2>3, SuccType, CreateAssumption DEF TypeOK
  <2>5. popped' \in [bytes : Seq(Byte), ret : 0..(MessageSize - 1)]
    BY <2>1, <2>2, <2>3, CreateAssumption
  <2> QED
    BY <1>20, <2>4, <2>5 DEF Dequeue, TypeOK
<1>21. CASE PopUnlock
  BY <1>21, SemPostEffect DEF PopUnlock, TypeOK, Semaphore
<1>22. CASE PopReturn
  BY <1>22, SemPostEffect DEF PopReturn, TypeOK, Semaphore
<1>23. CASE UNCHANGED vars
  BY <1>23 DEF vars, TypeOK
<1> QED
  BY <1>1, <1>2, <1>3, <1>4, <1>5, <1>6, <1>7, <1>8, <1>9, <1>10, <1>11, <1>12,
     <1>13, <1>14, <1>15, <1>16, <1>17, <1>18, <1>19, <1>20, <1>21, <1>22, <1>23
  DEF Next, PushStep, PopStep

(* Nobody takes back what a thread has seen of the other's index.          *)
LEMMA NextSeenInv == QueueInv /\ [Next]_vars => SeenInv'
<1> SUFFICES ASSUME QueueInv, [Next]_vars PROVE SeenInv'
  OBVIOUS
<1> USE DEF QueueInv, SeenInv, is_full, is_empty, ringVars, semVars, prodVars, consVars
<1>1. CASE DestroySemaphores
  BY <1>1 DEF DestroySemaphores
<1>2. CASE PushReject
  BY <1>2 DEF PushReject
<1>3. ASSUME NEW buf \in Buffers(PushSizes), PushCall(buf)
      PROVE  SeenInv'
  BY <1>3 DEF PushCall
<1>4. CASE PushLock
  BY <1>4 DEF PushLock
<1>5. CASE PushInspect
  BY <1>5 DEF PushInspect
<1>6. CASE PushLeave
  BY <1>6 DEF PushLeave
<1>7. CASE PushCheck
  BY <1>7 DEF PushCheck
<1>8. CASE PushWait
  BY <1>8 DEF PushWait
<1>9. CASE PushRelock
  BY <1>9 DEF PushRelock
<1>10. CASE Enqueue
  BY <1>10 DEF Enqueue, TypeOK
<1>11. CASE PushUnlock
  BY <1>11 DEF PushUnlock
<1>12. CASE PushReturn
  BY <1>12 DEF PushReturn
<1>13. ASSUME NEW n \in PopSizes, PopCall(n)
       PROVE  SeenInv'
  BY <1>13 DEF PopCall
<1>14. CASE PopLock
  BY <1>14 DEF PopLock
<1>15. CASE PopInspect
  BY <1>15 DEF PopInspect
<1>16. CASE PopLeave
  BY <1>16 DEF PopLeave
<1>17. CASE PopCheck
  BY <1>17 DEF PopCheck
<1>18. CASE PopWait
  BY <1>18 DEF PopWait
<1>19. CASE PopRelock
  BY <1>19 DEF PopRelock
<1>20. CASE Dequeue
  BY <1>20, SuccInjective DEF Dequeue, TypeOK
<1>21. CASE PopUnlock
  BY <1>21 DEF PopUnlock
<1>22. CASE PopReturn
  BY <1>22 DEF PopReturn
<1>23. CASE UNCHANGED vars
  BY <1>23 DEF vars
<1> QED
  BY <1>1, <1>2, <1>3, <1>4, <1>5, <1>6, <1>7, <1>8, <1>9, <1>10, <1>11, <1>12,
     <1>13, <1>14, <1>15, <1>16, <1>17, <1>18, <1>19, <1>20, <1>21, <1>22, <1>23
  DEF Next, PushStep, PopStep

(* What taking, giving back and leaving alone sem_lock does to its value.   *)
LEMMA LockTaken ==
  ASSUME QueueInv, sem_wait("lock")
  PROVE  /\ live' = live
         /\ live => /\ ~PushHoldsLock /\ ~PopHoldsLock
                    /\ sem'["lock"] = 0
<1>1. live' = live /\ (live => sem["lock"] > 0 /\ sem'["lock"] = sem["lock"] - 1)
  BY SemWaitEffect DEF QueueInv, Semaphore
<1> QED
  BY <1>1 DEF QueueInv, MutualExclusion

LEMMA LockGivenBack ==
  ASSUME QueueInv, PushHoldsLock \/ PopHoldsLock, sem_post("lock")
  PROVE  /\ live' = live
         /\ live => /\ ~(PushHoldsLock /\ PopHoldsLock)
                    /\ sem'["lock"] = 1
<1>1. /\ live' = live
      /\ live => sem'["lock"] = IF sem["lock"] < SemMax THEN sem["lock"] + 1 ELSE sem["lock"]
  BY SemPostEffect DEF QueueInv, Semaphore
<1>2. SemMax \in Nat /\ 0 < SemMax
  BY CreateAssumption
<1> QED
  BY <1>1, <1>2 DEF QueueInv, MutualExclusion

LEMMA LockUntouched ==
  ASSUME TypeOK, NEW s \in Semaphore \ {"lock"}, sem_wait(s) \/ sem_post(s)
  PROVE  live' = live /\ sem'["lock"] = sem["lock"]
<1>1. CASE sem_wait(s)
  BY <1>1, SemWaitEffect DEF Semaphore
<1>2. CASE sem_post(s)
  BY <1>2, SemPostEffect DEF Semaphore
<1> QED
  BY <1>1, <1>2

(* sem_lock is taken and given back on every path.                         *)
LEMMA NextMutualExclusion == QueueInv /\ [Next]_vars => MutualExclusion'
<1> SUFFICES ASSUME QueueInv, [Next]_vars PROVE MutualExclusion'
  OBVIOUS
<1> USE DEF QueueInv, MutualExclusion, PushHoldsLock, PopHoldsLock,
           ringVars, semVars, prodVars, consVars
<1>1. CASE DestroySemaphores
  BY <1>1 DEF DestroySemaphores
<1>2. CASE PushReject
  BY <1>2 DEF PushReject
<1>3. ASSUME NEW buf \in Buffers(PushSizes), PushCall(buf)
      PROVE  MutualExclusion'
  BY <1>3 DEF PushCall
<1>4. CASE PushLock
  BY <1>4, LockTaken DEF PushLock
<1>5. CASE PushInspect
  BY <1>5 DEF PushInspect
<1>6. CASE PushLeave
  BY <1>6, LockGivenBack DEF PushLeave
<1>7. CASE PushCheck
  BY <1>7 DEF PushCheck
<1>8. CASE PushWait
  BY <1>8, LockUntouched DEF PushWait, Semaphore
<1>9. CASE PushRelock
  BY <1>9, LockTaken DEF PushRelock
<1>10. CASE Enqueue
  BY <1>10 DEF Enqueue
<1>11. CASE PushUnlock
  BY <1>11, LockGivenBack DEF PushUnlock
<1>12. CASE PushReturn
  BY <1>12, LockUntouched DEF PushReturn, Semaphore
<1>13. ASSUME NEW n \in PopSizes, PopCall(n)
       PROVE  MutualExclusion'
  BY <1>13 DEF PopCall
<1>14. CASE PopLock
  BY <1>14, LockTaken DEF PopLock
<1>15. CASE PopInspect
  BY <1>15 DEF PopInspect
<1>16. CASE PopLeave
  BY <1>16, LockGivenBack DEF PopLeave
<1>17. CASE PopCheck
  BY <1>17 DEF PopCheck
<1>18. CASE PopWait
  BY <1>18, LockUntouched DEF PopWait, Semaphore
<1>19. CASE PopRelock
  BY <1>19, LockTaken DEF PopRelock
<1>20. CASE Dequeue
  BY <1>20 DEF Dequeue
<1>21. CASE PopUnlock
  BY <1>21, LockGivenBack DEF PopUnlock
<1>22. CASE PopReturn
  BY <1>22, LockUntouched DEF PopReturn, Semaphore
<1>23. CASE UNCHANGED vars
  BY <1>23 DEF vars
<1> QED
  BY <1>1, <1>2, <1>3, <1>4, <1>5, <1>6, <1>7, <1>8, <1>9, <1>10, <1>11, <1>12,
     <1>13, <1>14, <1>15, <1>16, <1>17, <1>18, <1>19, <1>20, <1>21, <1>22, <1>23
  DEF Next, PushStep, PopStep


LEMMA NextQueueInv == QueueInv /\ [Next]_vars => QueueInv'
BY NextTypeOK, NextSeenInv, NextMutualExclusion DEF QueueInv

(***************************************************************************)
(* The header, the array, the semaphores and both threads' locals keep     *)
(* their types: no index leaves the array and no sem_pop reads past the    *)
(* end of a message (sem_queue.cpp:267-340), removed semaphores or not.    *)
(***************************************************************************)
THEOREM TypeCorrect == Spec => []TypeOK
<1>1. QueueInv => TypeOK
  BY DEF QueueInv
<1> QED
  BY <1>1, InitQueueInv, NextQueueInv, PTL DEF Spec

(***************************************************************************)
(* sem_lock is a lock on every path through sem_push and sem_pop, and no   *)
(* thread returns or sleeps with it, until destroy_semaphores removes it.  *)
(***************************************************************************)
THEOREM LockCorrect == Spec => []MutualExclusion
<1>1. QueueInv => MutualExclusion
  BY DEF QueueInv
<1> QED
  BY <1>1, InitQueueInv, NextQueueInv, PTL DEF Spec

(***************************************************************************)
(* enqueue and dequeue never copy to and from the same slot, for every     *)
(* ring and message size: the lock is not even needed for it, so this      *)
(* outlives destroy_semaphores.                                            *)
(***************************************************************************)
THEOREM CopiesDisjoint == Spec => []SlotsDisjoint
<1>1. QueueInv => SlotsDisjoint
  BY DEF QueueInv, SeenInv, SlotsDisjoint, is_empty
<1> QED
  BY <1>1, InitQueueInv, NextQueueInv, PTL DEF Spec

-----------------------------------------------------------------------------
(***************************************************************************)
(* No lost wakeup.  A caller that leaves fewer messages outstanding than   *)
(* the ring holds never finds it full, so what sem_push saw of an empty    *)
(* ring is still true when it enqueues: it has held the lock all along.    *)
(***************************************************************************)
WindowInv ==
  /\ ppc \notin {"leave", "check", "wait", "relock"}
  /\ ppc \in {"lock", "inspect", "enqueue"} => Count < Window
  /\ live /\ ppc = "enqueue" => was_empty = is_empty

(* The ring is full when it holds queue_size - 1 messages, not before.     *)
LEMMA CountProperties ==
  ASSUME TypeOK
  PROVE  /\ Count \in 0..(queue_size - 1)
         /\ is_full <=> Count = queue_size - 1
         /\ is_empty <=> Count = 0
BY QueueSizePositive DEF TypeOK, SlotIndex, Count, is_full, is_empty, succ

LEMMA CountType == TypeOK => Count \in Int
BY QueueSizePositive DEF TypeOK, SlotIndex, Count

LEMMA CountTypeNext == TypeOK' => (Count \in Int)'
BY CountType, PTL

(* dequeue never adds a message.                                           *)
LEMMA DequeueCount ==
  ASSUME QueueInv, Dequeue
  PROVE  Count' <= Count
<1>1. head \in SlotIndex /\ tail \in SlotIndex /\ head # tail /\ head' = head
  BY DEF QueueInv, TypeOK, SeenInv, is_empty, Dequeue
<1>2. tail' = succ(tail) \/ tail' = tail
  BY DEF Dequeue
<1> QED
  BY <1>1, <1>2, QueueSizePositive DEF SlotIndex, Count, succ

LEMMA InitWindowInv == Init => WindowInv
BY DEF Init, WindowInv

LEMMA NextWindowInv ==
  ASSUME Window < queue_size, QueueInv, WindowInv, [Next]_vars
  PROVE  WindowInv'
<1> USE DEF WindowInv, is_empty, ringVars, semVars, prodVars, consVars
<1>0. Window \in Nat /\ queue_size \in Nat /\ TypeOK
  BY CreateAssumption, QueueSizePositive DEF QueueInv
<1>1. CASE DestroySemaphores
  BY <1>1 DEF DestroySemaphores, Count
<1>2. CASE PushReject
  BY <1>2 DEF PushReject, Count
<1>3. ASSUME NEW buf \in Buffers(PushSizes), PushCall(buf)
      PROVE  WindowInv'
  BY <1>3 DEF PushCall, Count
<1>4. CASE PushLock
  BY <1>4 DEF PushLock, Count
<1>5. CASE PushInspect
  <2>1. ~is_full
    BY <1>0, <1>5, CountProperties DEF PushInspect
  <2> QED
    BY <1>5, <2>1 DEF PushInspect, Count
<1>6. CASE PushLeave \/ PushCheck \/ PushWait \/ PushRelock
  BY <1>6 DEF PushLeave, PushCheck, PushWait, PushRelock
<1>7. CASE Enqueue
  BY <1>7 DEF Enqueue
<1>8. CASE PushUnlock \/ PushReturn
  BY <1>8 DEF PushUnlock, PushReturn
<1>9. ASSUME NEW n \in PopSizes, PopCall(n)
      PROVE  WindowInv'
  BY <1>9 DEF PopCall, Count
<1>10. CASE PopLock
  BY <1>10 DEF PopLock, Count, sem_wait
<1>11. CASE PopInspect \/ PopCheck
  BY <1>11 DEF PopInspect, PopCheck, Count
<1>12. CASE PopLeave \/ PopUnlock
  BY <1>12 DEF PopLeave, PopUnlock, Count, sem_post
<1>13. CASE PopWait \/ PopRelock
  BY <1>13 DEF PopWait, PopRelock, Count, sem_wait
<1>14. CASE Dequeue
  <2>1. live => ppc # "enqueue"
    BY <1>14 DEF Dequeue, QueueInv, MutualExclusion, PushHoldsLock, PopHoldsLock
  <2>2. Count' <= Count /\ Count \in Int /\ Count' \in Int
    <3>1. TypeOK'
      BY NextTypeOK
    <3>2. Count \in Int /\ Count' \in Int
      BY <1>0, <3>1, CountType, CountTypeNext
    <3> QED
      BY <1>14, <3>2, DequeueCount
  <2>3. ppc' = ppc /\ live' = live
    BY <1>14 DEF Dequeue
  <2>4. ppc' \in {"lock", "inspect", "enqueue"} => Count' < Window
    BY <1>0, <2>2, <2>3
  <2> QED
    BY <2>1, <2>3, <2>4
<1>15. CASE PopReturn
  BY <1>15 DEF PopReturn, Count, sem_post
<1>16. CASE UNCHANGED vars
  BY <1>16 DEF vars, Count
<1> QED
  BY <1>1, <1>2, <1>3, <1>4, <1>5, <1>6, <1>7, <1>8, <1>9, <1>10, <1>11, <1>12,
     <1>13, <1>14, <1>15, <1>16
  DEF Next, PushStep, PopStep

(* A message is put beside a sleeping consumer only with a post to follow. *)
LEMMA NextNoLostWakeup ==
  ASSUME QueueInv, WindowInv, NoLostWakeup, [Next]_vars
  PROVE  NoLostWakeup'
<1> USE DEF NoLostWakeup, is_empty, ringVars, semVars, prodVars, consVars
<1>0. TypeOK /\ "empty" \in Semaphore /\ "full" \in Semaphore /\ "lock" \in Semaphore
  BY DEF QueueInv, Semaphore
<1>1. CASE DestroySemaphores
  BY <1>1 DEF DestroySemaphores
<1>2. CASE PushReject
  BY <1>2 DEF PushReject
<1>3. ASSUME NEW buf \in Buffers(PushSizes), PushCall(buf)
      PROVE  NoLostWakeup'
  BY <1>3 DEF PushCall
<1>4. CASE PushLock
  <2>1. live' = live /\ sem'["empty"] = sem["empty"]
    BY <1>0, <1>4, SemWaitEffect DEF PushLock
  <2> QED
    BY <1>4, <2>1 DEF PushLock
<1>5. CASE PushInspect
  BY <1>5 DEF PushInspect
<1>6. CASE PushLeave \/ PushCheck \/ PushWait \/ PushRelock
  BY <1>6 DEF PushLeave, PushCheck, PushWait, PushRelock, WindowInv
<1>7. CASE Enqueue
  BY <1>7 DEF Enqueue, WindowInv
<1>8. CASE PushUnlock
  <2>1. live' = live /\ sem'["empty"] = sem["empty"]
    BY <1>0, <1>8, SemPostEffect DEF PushUnlock
  <2> QED
    BY <1>8, <2>1 DEF PushUnlock
<1>9. CASE PushReturn
  <2>1. CASE was_empty
    <3>1. live => sem'["empty"] = IF sem["empty"] < SemMax THEN sem["empty"] + 1
                                  ELSE sem["empty"]
      BY <1>0, <1>9, <2>1, SemPostEffect DEF PushReturn
    <3>2. live' = live
      BY <1>9, <2>1 DEF PushReturn, sem_post
    <3>3. sem["empty"] \in 0..SemMax /\ SemMax > 0 /\ SemMax \in Nat
      BY <1>0, CreateAssumption DEF TypeOK
    <3> QED
      BY <3>1, <3>2, <3>3
  <2>2. CASE ~was_empty
    BY <1>9, <2>2 DEF PushReturn
  <2> QED
    BY <1>0, <2>1, <2>2 DEF TypeOK
<1>10. ASSUME NEW n \in PopSizes, PopCall(n)
       PROVE  NoLostWakeup'
  BY <1>10 DEF PopCall
<1>11. CASE PopLock \/ PopInspect \/ PopLeave \/ PopWait \/ PopRelock
  BY <1>11 DEF PopLock, PopInspect, PopLeave, PopWait, PopRelock
<1>12. CASE PopCheck
  BY <1>12 DEF PopCheck
<1>13. CASE Dequeue \/ PopUnlock \/ PopReturn
  BY <1>13 DEF Dequeue, PopUnlock, PopReturn
<1>14. CASE UNCHANGED vars
  BY <1>14 DEF vars
<1> QED
  BY <1>1, <1>2, <1>3, <1>4, <1>5, <1>6, <1>7, <1>8, <1>9, <1>10, <1>11, <1>12,
     <1>13, <1>14
  DEF Next, PushStep, PopStep

(***************************************************************************)
(* A consumer asleep on sem_empty beside a message is woken, for every     *)
(* ring, when the producer's caller leaves fewer messages outstanding than *)
(* the ring has slots, as a client that waits for its answers does.  The   *)
(* hypothesis is needed: the run of the full ring loses the wakeup because *)
(* was_empty is stale after the wait at sem_queue.cpp:293-296.             *)
(***************************************************************************)
THEOREM WakeupNotLost ==
  ASSUME Window < queue_size
  PROVE  Spec => []NoLostWakeup
<1> DEFINE IInv == QueueInv /\ WindowInv /\ NoLostWakeup
<1>1. Init => IInv
  <2>1. Init => NoLostWakeup
    BY DEF Init, NoLostWakeup
  <2> QED
    BY <2>1, InitQueueInv, InitWindowInv
<1>2. IInv /\ [Next]_vars => IInv'
  BY NextQueueInv, NextWindowInv, NextNoLostWakeup
<1>3. IInv => NoLostWakeup
  OBVIOUS
<1> HIDE DEF IInv
<1> QED
  BY <1>1, <1>2, <1>3, PTL DEF Spec

-----------------------------------------------------------------------------
(* Refinement.  The messages between tail and head are a sequence, all of  *)
(* them in slots other than head.                                          *)

ContentsInv ==
  /\ Count \in 0..(queue_size - 1)
  /\ Contents \in Seq(Message)
  /\ Len(Contents) = Count
  /\ \A i \in 1..Count : /\ Contents[i] = slots[Wrap(tail + i - 1)]
                         /\ Wrap(tail + i - 1) \in SlotIndex \ {head}

LEMMA ContentsType == QueueInv => ContentsInv
<1> SUFFICES ASSUME QueueInv PROVE ContentsInv
  OBVIOUS
<1>1. Count \in 0..(queue_size - 1)
  BY CountProperties DEF QueueInv
<1>2. ASSUME NEW i \in 1..Count
      PROVE  Wrap(tail + i - 1) \in SlotIndex \ {head}
  BY <1>1, <1>2, QueueSizePositive DEF QueueInv, TypeOK, SlotIndex, Wrap, Count
<1>3. ASSUME NEW i \in 1..Count
      PROVE  slots[Wrap(tail + i - 1)] \in Message
  BY <1>2, <1>3 DEF QueueInv, TypeOK
<1> QED
  BY <1>1, <1>2, <1>3 DEF ContentsInv, Contents

LEMMA ContentsTypeNext == QueueInv' => ContentsInv'
BY ContentsType, PTL

(* An empty ring is an empty channel.                                      *)
LEMMA InitChannel == Init => Channel!ChanInit
<1> SUFFICES ASSUME Init PROVE Channel!ChanInit
  OBVIOUS
<1>1. Count = 0 /\ Contents = << >>
  BY QueueSizePositive DEF Init, Count, Contents
<1> QED
  BY <1>1 DEF Init, Channel!ChanInit

(* What enqueue leaves in its slot: the buffer, then what was there.       *)
Enqueued ==
  [k \in 1..MessageSize |-> IF k <= Len(pbuf) THEN pbuf[k] ELSE slots[head][k]]

(* enqueue appends that message.                                           *)
LEMMA EnqueueAppends ==
  ASSUME QueueInv, QueueInv', Enqueue
  PROVE  /\ Count < queue_size - 1
         /\ Enqueued \in Message
         /\ Contents' = Append(Contents, Enqueued)
<1>1. ContentsInv /\ ContentsInv'
  BY ContentsType, ContentsTypeNext
<1>2. Count < queue_size - 1 /\ Count' = Count + 1
  BY QueueSizePositive
  DEF Enqueue, QueueInv, TypeOK, SeenInv, SlotIndex, Count, succ, is_full
<1>3. Enqueued \in Message
  BY CreateAssumption DEF QueueInv, TypeOK, Message, Enqueued
<1>4. /\ slots' = [slots EXCEPT ![head] = Enqueued]
      /\ tail' = tail /\ head \in SlotIndex /\ slots \in [SlotIndex -> Message]
  BY DEF Enqueue, Enqueued, QueueInv, TypeOK
<1>5. slots'[head] = Enqueued /\ \A i \in SlotIndex \ {head} : slots'[i] = slots[i]
  BY <1>4
<1>6. Wrap(tail + Count) = head
  BY QueueSizePositive DEF QueueInv, TypeOK, SlotIndex, Count, Wrap
<1> DEFINE s == Append(Contents, Enqueued)
<1>7. /\ s \in Seq(Message) /\ Len(s) = Count + 1
      /\ \A i \in 1..Count : s[i] = Contents[i]
      /\ s[Count + 1] = Enqueued
  BY <1>1, <1>3, AppendProperties DEF ContentsInv
<1>8. ASSUME NEW i \in 1..(Count + 1)
      PROVE  Contents'[i] = s[i]
  <2>1. Contents'[i] = slots'[Wrap(tail + i - 1)]
    BY <1>1, <1>2, <1>4, <1>8 DEF ContentsInv, Wrap
  <2>2. CASE i = Count + 1
    BY <2>1, <2>2, <1>1, <1>5, <1>6, <1>7 DEF ContentsInv
  <2>3. CASE i # Count + 1
    <3>1. i \in 1..Count
      BY <2>3, <1>1, <1>8 DEF ContentsInv
    <3>2. /\ Contents[i] = slots[Wrap(tail + i - 1)]
          /\ Wrap(tail + i - 1) \in SlotIndex \ {head}
      BY <3>1, <1>1 DEF ContentsInv
    <3>3. s[i] = Contents[i]
      BY <3>1, <1>7
    <3> QED
      BY <2>1, <3>2, <3>3, <1>5
  <2> QED
    BY <2>2, <2>3
<1> HIDE DEF s
<1>9. Contents' = s
  BY <1>1, <1>2, <1>7, <1>8, SeqEqual DEF ContentsInv
<1> QED
  BY <1>2, <1>3, <1>9 DEF s

(* dequeue removes the oldest message when it moves tail.                  *)
LEMMA DequeueRemoves ==
  ASSUME QueueInv, QueueInv', Dequeue, tail' = succ(tail)
  PROVE  Contents' = Tail(Contents)
<1>0. head' = head /\ slots' = slots
  BY DEF Dequeue
<1>1. ContentsInv /\ ContentsInv'
  BY ContentsType, ContentsTypeNext
<1>2. Count > 0 /\ Count' = Count - 1
  BY <1>0, QueueSizePositive
  DEF Dequeue, QueueInv, TypeOK, SeenInv, SlotIndex, Count, succ, is_empty
<1>3. /\ Tail(Contents) \in Seq(Message)
      /\ Len(Tail(Contents)) = Count - 1
      /\ \A i \in 1..(Count - 1) : Tail(Contents)[i] = Contents[i + 1]
  BY <1>1, <1>2, HeadTailProperties DEF ContentsInv
<1>4. ASSUME NEW i \in 1..(Count - 1)
      PROVE  Contents'[i] = Tail(Contents)[i]
  <2>1. Contents'[i] = slots[Wrap(succ(tail) + i - 1)]
    BY <1>0, <1>1, <1>2, <1>4 DEF ContentsInv, Wrap
  <2>2. Contents[i + 1] = slots[Wrap(tail + i)]
    BY <1>1, <1>4 DEF ContentsInv
  <2>3. Wrap(succ(tail) + i - 1) = Wrap(tail + i)
    BY <1>1, <1>4, QueueSizePositive
    DEF QueueInv, TypeOK, SlotIndex, Wrap, succ, ContentsInv
  <2> QED
    BY <2>1, <2>2, <2>3, <1>3
<1> QED
  BY <1>1, <1>2, <1>3, <1>4, SeqEqual DEF ContentsInv

(***************************************************************************)
(* Every step of the ring is a step of the channel or leaves it as it was: *)
(* sem_push offers on its call and sends with enqueue, sem_pop receives    *)
(* with dequeue, and no wait, post or look at the header is visible.       *)
(***************************************************************************)
LEMMA StepImplementsChannel ==
  QueueInv /\ QueueInv' /\ [Next]_vars => [Channel!ChanNext]_(Channel!chanVars)
<1> SUFFICES ASSUME QueueInv, QueueInv', [Next]_vars
             PROVE  Channel!ChanNext \/ UNCHANGED Channel!chanVars
  OBVIOUS
<1> USE DEF ringVars, semVars, prodVars, consVars
<1>1. CASE DestroySemaphores
  BY <1>1 DEF DestroySemaphores, Channel!chanVars, Contents, Count, Wrap
<1>2. CASE PushReject
  BY <1>2 DEF PushReject, Channel!chanVars, Contents, Count, Wrap
<1>3. ASSUME NEW buf \in Buffers(PushSizes), PushCall(buf)
      PROVE  Channel!ChanNext
  <2>1. buf \in Channel!Buffer
    <3>1. PICK n \in PushSizes : buf \in [1..n -> Byte]
      BY DEF Buffers
    <3>2. n \in 0..MessageSize
      BY <1>3, <3>1, CreateAssumption DEF PushCall
    <3> QED
      BY <3>1, <3>2 DEF Channel!Buffer
  <2>2. Contents' = Contents
    BY <1>3 DEF PushCall, Contents, Count, Wrap
  <2>3. Channel!Offer
    BY <1>3, <2>1, <2>2 DEF PushCall, Channel!Offer
  <2> QED
    BY <2>3 DEF Channel!ChanNext
<1>4. CASE PushLock \/ PushRelock \/ PushWait
  BY <1>4 DEF PushLock, PushRelock, PushWait, Channel!chanVars, Contents, Count, Wrap
<1>5. CASE PushInspect \/ PushCheck
  BY <1>5 DEF PushInspect, PushCheck, Channel!chanVars, Contents, Count, Wrap
<1>6. CASE PushLeave \/ PushUnlock
  BY <1>6 DEF PushLeave, PushUnlock, Channel!chanVars, Contents, Count, Wrap
<1>7. CASE PushReturn
  BY <1>7 DEF PushReturn, Channel!chanVars, Contents, Count, Wrap
<1>8. CASE Enqueue
  <2>1. /\ Len(Contents) < queue_size - 1
        /\ Enqueued \in Message
        /\ Contents' = Append(Contents, Enqueued)
    BY <1>8, EnqueueAppends, ContentsType DEF ContentsInv
  <2>2. \A k \in DOMAIN pbuf : Enqueued[k] = pbuf[k]
    BY CreateAssumption DEF QueueInv, TypeOK, Enqueued
  <2>3. Channel!Send
    BY <1>8, <2>1, <2>2 DEF Enqueue, Channel!Send, Channel!Message, Message
  <2> QED
    BY <2>3 DEF Channel!ChanNext
<1>9. ASSUME NEW n \in PopSizes, PopCall(n)
      PROVE  UNCHANGED Channel!chanVars
  BY <1>9 DEF PopCall, Channel!chanVars, Contents, Count, Wrap
<1>10. CASE PopLock \/ PopRelock \/ PopWait
  BY <1>10 DEF PopLock, PopRelock, PopWait, Channel!chanVars, Contents, Count, Wrap
<1>11. CASE PopInspect \/ PopCheck
  BY <1>11 DEF PopInspect, PopCheck, Channel!chanVars, Contents, Count, Wrap
<1>12. CASE PopLeave \/ PopUnlock
  BY <1>12 DEF PopLeave, PopUnlock, Channel!chanVars, Contents, Count, Wrap
<1>13. CASE PopReturn
  BY <1>13 DEF PopReturn, Channel!chanVars, Contents, Count, Wrap
<1>14. CASE Dequeue
  <2> DEFINE n == IF want + message_offset > MessageSize
                    THEN MessageSize - message_offset ELSE want
             read == message_offset + n
  <2>1. ContentsInv
    BY ContentsType
  <2>2. Count > 0
    BY <1>14, CountProperties, QueueSizePositive
    DEF Dequeue, QueueInv, SeenInv
  <2>3. Contents # << >> /\ Contents[1] = slots[tail]
    BY <2>1, <2>2, QueueSizePositive DEF ContentsInv, Wrap, QueueInv, TypeOK, SlotIndex
  <2>4. n \in 0..(MessageSize - message_offset)
    BY CreateAssumption DEF QueueInv, TypeOK
  <2>5. /\ message_offset' = IF read = MessageSize THEN 0 ELSE read
        /\ tail' = IF read = MessageSize THEN succ(tail) ELSE tail
        /\ popped' = [bytes |-> [k \in 1..n |-> slots[tail][message_offset + k]],
                      ret   |-> IF read = MessageSize THEN 0 ELSE read]
        /\ UNCHANGED <<head, slots, prodVars>>
    BY <1>14 DEF Dequeue
  <2> HIDE DEF n
  <2>6. Contents' = IF read = MessageSize THEN Tail(Contents) ELSE Contents
    <3>1. CASE read = MessageSize
      BY <3>1, <2>5, <1>14, DequeueRemoves
    <3>2. CASE read # MessageSize
      BY <3>2, <2>5 DEF Contents, Count, Wrap
    <3> QED
      BY <3>1, <3>2
  <2>7. Channel!Receive(n)
    BY <2>3, <2>5, <2>6 DEF Channel!Receive
  <2> QED
    BY <2>4, <2>7 DEF Channel!ChanNext
<1>15. CASE UNCHANGED vars
  BY <1>15 DEF vars, Channel!chanVars, Contents, Count, Wrap
<1> QED
  BY <1>1, <1>2, <1>3, <1>4, <1>5, <1>6, <1>7, <1>8, <1>9, <1>10, <1>11, <1>12,
     <1>13, <1>14, <1>15
  DEF Next, PushStep, PopStep

(***************************************************************************)
(* The blocking ring implements the message channel, the same contract as  *)
(* the polling ring's, for every size of ring, message and buffer, every   *)
(* interleaving of sem_push and sem_pop, and with the semaphores removed   *)
(* under them at any point (sem_queue.cpp:255-368).                        *)
(***************************************************************************)
THEOREM ImplementsChannel == Spec => ChannelSpec
<1>1. Init /\ [][Next]_vars => []QueueInv
  BY InitQueueInv, NextQueueInv, PTL
<1> QED
  BY <1>1, InitChannel, StepImplementsChannel, PTL
  DEF Spec, ChannelSpec, Channel!ChanSpec
=============================================================================
