-------------------------- MODULE ThreadSafeQueue --------------------------
(***************************************************************************)
(* The blocking queue of c/disambig/thread_safe_queue.{h,cpp}: a           *)
(* std::queue guarded by one pthread mutex and two condition variables.    *)
(*                                                                         *)
(* The code releases the mutex BEFORE it broadcasts, so that between the   *)
(* unlock and the broadcast other threads run; each call is therefore cut  *)
(* into the steps other threads can see:                                   *)
(*                                                                         *)
(*    lock -> crit -> (wait -> lock -> crit)* -> notify -> out             *)
(*                                                                         *)
(* "crit" is the code between lock and unlock, where the loop guard is     *)
(* evaluated and the data changed; "wait" is pthread_cond_wait, which      *)
(* gives the mutex up atomically; "notify" is the broadcast after unlock.  *)
(*                                                                         *)
(* The specification at the end is the most general client: every thread   *)
(* calls enqueue or dequeue whenever it likes.  CanonicalizerM2            *)
(* instantiates the actions for the real threads.                          *)
(*                                                                         *)
(* Here and in the other modules a definition marked "mutant" is a mistake *)
(* a programmer could have made in the definition that follows it.  No     *)
(* specification uses it; PROJECT.json pairs it with the property that     *)
(* would expose it.                                                        *)
(***************************************************************************)
EXTENDS Naturals, Sequences

CONSTANTS
  Thread,     (* the threads that hold a reference to the queue   *)
  Value,      (* the type parameter T                             *)
  Capacity,   (* the constructor's argument; 0 is "no limit"      *)
  NoThread    (* the owner of a free mutex                        *)

ASSUME CapacityAssumption == Capacity \in Nat
ASSUME NoThreadAssumption == NoThread \notin Thread

VARIABLES
  data,    (* the std::queue                                   *)
  mutex,   (* the thread that owns the mutex, or NoThread      *)
  pc       (* where each thread is in enqueue or dequeue       *)

vars == <<data, mutex, pc>>

EnqueuePC == {"enq_lock", "enq_crit", "enq_wait", "enq_notify"}
DequeuePC == {"deq_lock", "deq_crit", "deq_wait", "deq_notify"}
PC == {"out"} \cup EnqueuePC \cup DequeuePC

TypeOK ==
  /\ data \in Seq(Value)
  /\ Capacity > 0 => Len(data) <= Capacity
  /\ mutex \in Thread \cup {NoThread}
  /\ pc \in [Thread -> PC]

Init ==
  /\ data = <<>>
  /\ mutex = NoThread
  /\ pc = [t \in Thread |-> "out"]

-----------------------------------------------------------------------------
(* The steps of enqueue(value) and dequeue().                              *)

IsFull  == Capacity > 0 /\ Len(data) = Capacity
IsEmpty == data = <<>>

Move(t, from, to) == pc[t] = from /\ pc' = [pc EXCEPT ![t] = to]

(* Thread t enters a call: it is about to take the mutex.                  *)
CallEnqueue(t) == Move(t, "out", "enq_lock") /\ UNCHANGED <<data, mutex>>
CallDequeue(t) == Move(t, "out", "deq_lock") /\ UNCHANGED <<data, mutex>>

(* pthread_mutex_lock returns, on entry or at the end of pthread_cond_wait. *)
Lock(t) ==
  /\ Move(t, "enq_lock", "enq_crit") \/ Move(t, "deq_lock", "deq_crit")
  /\ mutex = NoThread
  /\ mutex' = t
  /\ UNCHANGED data

(* pthread_cond_wait: the guard of the while loop was true.                *)
WaitFull(t) ==
  /\ Move(t, "enq_crit", "enq_wait")
  /\ IsFull
  /\ mutex' = NoThread
  /\ UNCHANGED data

WaitEmptyLocked(t) ==                                          (* mutant *)
  /\ Move(t, "deq_crit", "deq_wait")
  /\ IsEmpty
  /\ UNCHANGED <<data, mutex>>

WaitEmpty(t) ==
  /\ Move(t, "deq_crit", "deq_wait")
  /\ IsEmpty
  /\ mutex' = NoThread
  /\ UNCHANGED data

PushFront(t, v) ==                                             (* mutant *)
  /\ Move(t, "enq_crit", "enq_notify")
  /\ ~IsFull
  /\ data' = <<v>> \o data
  /\ mutex' = NoThread

(* The guard was false: change the data and release the mutex.             *)
Push(t, v) ==
  /\ Move(t, "enq_crit", "enq_notify")
  /\ ~IsFull
  /\ data' = Append(data, v)
  /\ mutex' = NoThread

Peek(t) ==                                                     (* mutant *)
  /\ Move(t, "deq_crit", "deq_notify")
  /\ ~IsEmpty
  /\ mutex' = NoThread
  /\ UNCHANGED data

Pop(t) ==
  /\ Move(t, "deq_crit", "deq_notify")
  /\ ~IsEmpty
  /\ data' = Tail(data)
  /\ mutex' = NoThread

Signal(t, asleep, awake) ==                                    (* mutant *)
  pc' = [u \in Thread |->
           IF u = t THEN "out"
           ELSE IF pc[u] = asleep /\ u = (CHOOSE s \in Thread : pc[s] = asleep)
                THEN awake ELSE pc[u]]

(* pthread_cond_broadcast, after the unlock, and the return of the call:   *)
(* every thread that sleeps on the condition must take the mutex again.    *)
Broadcast(t, asleep, awake) ==
  pc' = [u \in Thread |-> IF u = t THEN "out"
                          ELSE IF pc[u] = asleep THEN awake ELSE pc[u]]

NotifyEmpty(t) ==
  /\ pc[t] = "enq_notify"
  /\ Broadcast(t, "deq_wait", "deq_lock")
  /\ UNCHANGED <<data, mutex>>

NotifyNobody(t) ==                                             (* mutant *)
  Move(t, "deq_notify", "out") /\ UNCHANGED <<data, mutex>>

NotifyFull(t) ==
  /\ pc[t] = "deq_notify"
  /\ Broadcast(t, "enq_wait", "enq_lock")
  /\ UNCHANGED <<data, mutex>>

(* POSIX lets pthread_cond_wait return without a broadcast.                *)
SpuriousWakeup(t) ==
  /\ Move(t, "enq_wait", "enq_lock") \/ Move(t, "deq_wait", "deq_lock")
  /\ UNCHANGED <<data, mutex>>

-----------------------------------------------------------------------------
(* The most general client.                                                *)

Next ==
  \E t \in Thread :
    \/ CallEnqueue(t)
    \/ CallDequeue(t)
    \/ Lock(t)
    \/ WaitFull(t)
    \/ WaitEmpty(t)
    \/ \E v \in Value : Push(t, v)
    \/ Pop(t)
    \/ NotifyEmpty(t)
    \/ NotifyFull(t)
    \/ SpuriousWakeup(t)

Spec == Init /\ [][Next]_vars

-----------------------------------------------------------------------------
(* Properties                                                              *)

(* The data is read and changed by one thread at a time: the threads       *)
(* between lock and unlock are exactly the owner of the mutex.             *)
MutualExclusion ==
  \A t \in Thread : pc[t] \in {"enq_crit", "deq_crit"} <=> mutex = t

(* No wake-up is lost although the broadcasts come after the unlock: a     *)
(* thread sleeps in dequeue beside a non-empty queue, or in enqueue beside *)
(* one that has room, only while a thread that made it so is still about   *)
(* to broadcast.                                                           *)
NoLostWakeup ==
  /\ (\E t \in Thread : pc[t] = "deq_wait") /\ ~IsEmpty
        => \E u \in Thread : pc[u] = "enq_notify"
  /\ (\E t \in Thread : pc[t] = "enq_wait") /\ ~IsFull
        => \E u \in Thread : pc[u] = "deq_notify"

(* The queue of threads implements the bounded first-in first-out buffer:  *)
(* every step of a call inserts one item, removes the oldest, or changes   *)
(* nothing its users can see.                                              *)
Fifo == INSTANCE BoundedFifo WITH items <- data
ImplementsFifo == Fifo!Spec
=============================================================================
