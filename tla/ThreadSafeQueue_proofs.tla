----------------------- MODULE ThreadSafeQueue_proofs -----------------------
(* Proofs about ThreadSafeQueue, for any set of threads, any values and    *)
(* any capacity.                                                           *)
EXTENDS ThreadSafeQueue, TLAPS

USE CapacityAssumption, NoThreadAssumption

(* The threads that own nothing never hold the mutex, the buffer stays     *)
(* within the capacity given to the constructor, and each thread is at one *)
(* of the places of thread_safe_queue.cpp.                                 *)
THEOREM TypeCorrect == Spec => []TypeOK
<1>1. Init => TypeOK
  BY DEF Init, TypeOK, PC, EnqueuePC, DequeuePC
<1>2. TypeOK /\ [Next]_vars => TypeOK'
  <2> SUFFICES ASSUME TypeOK, [Next]_vars
               PROVE  TypeOK'
    OBVIOUS
  <2> USE DEF TypeOK, PC, EnqueuePC, DequeuePC, Move
  <2>1. ASSUME NEW t \in Thread, CallEnqueue(t) \/ CallDequeue(t)
        PROVE  TypeOK'
    BY <2>1 DEF CallEnqueue, CallDequeue
  <2>2. ASSUME NEW t \in Thread, Lock(t)
        PROVE  TypeOK'
    BY <2>2 DEF Lock
  <2>3. ASSUME NEW t \in Thread, WaitFull(t) \/ WaitEmpty(t)
        PROVE  TypeOK'
    BY <2>3 DEF WaitFull, WaitEmpty
  <2>4. ASSUME NEW t \in Thread, NEW v \in Value, Push(t, v)
        PROVE  TypeOK'
    BY <2>4 DEF Push, IsFull
  <2>5. ASSUME NEW t \in Thread, Pop(t)
        PROVE  TypeOK'
    BY <2>5 DEF Pop, IsEmpty
  <2>6. ASSUME NEW t \in Thread, NotifyEmpty(t) \/ NotifyFull(t)
        PROVE  TypeOK'
    BY <2>6 DEF NotifyEmpty, NotifyFull, Broadcast
  <2>7. ASSUME NEW t \in Thread, SpuriousWakeup(t)
        PROVE  TypeOK'
    BY <2>7 DEF SpuriousWakeup
  <2>8. CASE UNCHANGED vars
    BY <2>8 DEF vars
  <2>9. QED
    BY <2>1, <2>2, <2>3, <2>4, <2>5, <2>6, <2>7, <2>8 DEF Next
<1>3. QED
  BY <1>1, <1>2, PTL DEF Spec

-----------------------------------------------------------------------------

(* Every thread between lock and unlock owns the mutex, so no two threads  *)
(* touch the std::queue at once.                                           *)
THEOREM MutualExclusionHolds == Spec => []MutualExclusion
<1>1. Init => MutualExclusion
  BY DEF Init, MutualExclusion
<1>2. TypeOK /\ MutualExclusion /\ [Next]_vars => MutualExclusion'
  <2> SUFFICES ASSUME TypeOK, MutualExclusion, [Next]_vars
               PROVE  MutualExclusion'
    OBVIOUS
  <2> USE DEF TypeOK, MutualExclusion, Move
  <2>1. ASSUME NEW t \in Thread, CallEnqueue(t) \/ CallDequeue(t)
        PROVE  MutualExclusion'
    BY <2>1 DEF CallEnqueue, CallDequeue
  <2>2. ASSUME NEW t \in Thread, Lock(t)
        PROVE  MutualExclusion'
    BY <2>2 DEF Lock
  <2>3. ASSUME NEW t \in Thread, WaitFull(t) \/ WaitEmpty(t)
        PROVE  MutualExclusion'
    BY <2>3 DEF WaitFull, WaitEmpty
  <2>4. ASSUME NEW t \in Thread, NEW v \in Value, Push(t, v)
        PROVE  MutualExclusion'
    BY <2>4 DEF Push
  <2>5. ASSUME NEW t \in Thread, Pop(t)
        PROVE  MutualExclusion'
    BY <2>5 DEF Pop
  <2>6. ASSUME NEW t \in Thread, NotifyEmpty(t) \/ NotifyFull(t)
        PROVE  MutualExclusion'
    BY <2>6 DEF NotifyEmpty, NotifyFull, Broadcast
  <2>7. ASSUME NEW t \in Thread, SpuriousWakeup(t)
        PROVE  MutualExclusion'
    BY <2>7 DEF SpuriousWakeup
  <2>8. CASE UNCHANGED vars
    BY <2>8 DEF vars
  <2>9. QED
    BY <2>1, <2>2, <2>3, <2>4, <2>5, <2>6, <2>7, <2>8 DEF Next
<1>3. QED
  BY <1>1, <1>2, TypeCorrect, PTL DEF Spec

-----------------------------------------------------------------------------

(* Broadcasting after the unlock loses no wake-up: whoever sleeps although *)
(* the condition it waits for holds will be woken by a pending broadcast.  *)
THEOREM NoLostWakeupHolds == Spec => []NoLostWakeup
<1>1. Init => NoLostWakeup
  BY DEF Init, NoLostWakeup, IsEmpty
<1>2. TypeOK /\ NoLostWakeup /\ [Next]_vars => NoLostWakeup'
  <2> SUFFICES ASSUME TypeOK, NoLostWakeup, [Next]_vars
               PROVE  NoLostWakeup'
    OBVIOUS
  <2> USE DEF TypeOK, NoLostWakeup, Move, IsEmpty, IsFull
  <2>1. ASSUME NEW t \in Thread, CallEnqueue(t) \/ CallDequeue(t)
        PROVE  NoLostWakeup'
    BY <2>1 DEF CallEnqueue, CallDequeue
  <2>2. ASSUME NEW t \in Thread, Lock(t)
        PROVE  NoLostWakeup'
    BY <2>2 DEF Lock
  <2>3. ASSUME NEW t \in Thread, WaitFull(t) \/ WaitEmpty(t)
        PROVE  NoLostWakeup'
    BY <2>3 DEF WaitFull, WaitEmpty
  <2>4. ASSUME NEW t \in Thread, NEW v \in Value, Push(t, v)
        PROVE  NoLostWakeup'
    <3>1. Len(data') = Len(data) + 1 /\ pc'[t] = "enq_notify"
      BY <2>4 DEF Push
    <3>2. \A u \in Thread : u # t => pc'[u] = pc[u]
      BY <2>4 DEF Push
    <3>3. ~IsFull' => ~IsFull
      BY <3>1, <2>4 DEF Push
    <3>4. QED
      BY <2>4, <3>1, <3>2, <3>3 DEF Push
  <2>5. ASSUME NEW t \in Thread, Pop(t)
        PROVE  NoLostWakeup'
    <3>1. pc'[t] = "deq_notify"
      BY <2>5 DEF Pop
    <3>2. \A u \in Thread : u # t => pc'[u] = pc[u]
      BY <2>5 DEF Pop
    <3>3. ~IsEmpty /\ pc[t] = "deq_crit"
      BY <2>5 DEF Pop
    <3>4. QED
      BY <3>1, <3>2, <3>3
  <2>6. ASSUME NEW t \in Thread, NotifyEmpty(t)
        PROVE  NoLostWakeup'
    BY <2>6 DEF NotifyEmpty, Broadcast
  <2>7. ASSUME NEW t \in Thread, NotifyFull(t)
        PROVE  NoLostWakeup'
    BY <2>7 DEF NotifyFull, Broadcast
  <2>8. ASSUME NEW t \in Thread, SpuriousWakeup(t)
        PROVE  NoLostWakeup'
    BY <2>8 DEF SpuriousWakeup
  <2>9. CASE UNCHANGED vars
    BY <2>9 DEF vars
  <2>10. QED
    BY <2>1, <2>2, <2>3, <2>4, <2>5, <2>6, <2>7, <2>8, <2>9 DEF Next
<1>3. QED
  BY <1>1, <1>2, TypeCorrect, PTL DEF Spec

-----------------------------------------------------------------------------

(* The queue of threads, mutex and condition variables implements the      *)
(* bounded first-in first-out buffer of BoundedFifo.                       *)
THEOREM QueueImplementsFifo == Spec => ImplementsFifo
<1>1. Init => Fifo!Init
  BY DEF Init, Fifo!Init
<1>2. TypeOK /\ [Next]_vars => [Fifo!Next]_data
  <2> SUFFICES ASSUME TypeOK, [Next]_vars
               PROVE  [Fifo!Next]_data
    OBVIOUS
  <2>1. ASSUME NEW t \in Thread, NEW v \in Value, Push(t, v)
        PROVE  Fifo!Insert(v)
    BY <2>1 DEF Push, IsFull, TypeOK, Fifo!Insert
  <2>2. ASSUME NEW t \in Thread, Pop(t)
        PROVE  Fifo!Remove
    BY <2>2 DEF Pop, IsEmpty, Fifo!Remove
  <2>3. ASSUME NEW t \in Thread,
               \/ CallEnqueue(t) \/ CallDequeue(t) \/ Lock(t)
               \/ WaitFull(t) \/ WaitEmpty(t)
               \/ NotifyEmpty(t) \/ NotifyFull(t) \/ SpuriousWakeup(t)
        PROVE  UNCHANGED data
    BY <2>3 DEF CallEnqueue, CallDequeue, Lock, WaitFull, WaitEmpty,
                NotifyEmpty, NotifyFull, SpuriousWakeup
  <2>4. CASE UNCHANGED vars
    BY <2>4 DEF vars
  <2>5. QED
    BY <2>1, <2>2, <2>3, <2>4 DEF Next, Fifo!Next
<1>3. QED
  BY <1>1, <1>2, TypeCorrect, PTL DEF Spec, ImplementsFifo, Fifo!Spec

=============================================================================
