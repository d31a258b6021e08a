---------------------------- MODULE BoundedFifo ----------------------------
(***************************************************************************)
(* What the users of c/disambig/thread_safe_queue.h rely on: one first-in  *)
(* first-out buffer that never holds more than Capacity items (a Capacity  *)
(* of 0 means the buffer is unbounded), and whose every step is either one *)
(* insertion or one removal.  Threads, the mutex and the two condition     *)
(* variables do not appear here; ThreadSafeQueue implements this module.   *)
(***************************************************************************)
EXTENDS Naturals, Sequences

CONSTANTS
  Value,     (* what may be stored                            *)
  Capacity   (* the constructor's argument; 0 is "no limit"   *)

VARIABLE items

TypeOK ==
  /\ items \in Seq(Value)
  /\ Capacity > 0 => Len(items) <= Capacity

Init == items = <<>>

Insert(v) ==
  /\ Capacity > 0 => Len(items) < Capacity
  /\ items' = Append(items, v)

Remove ==
  /\ items # <<>>
  /\ items' = Tail(items)

Next == Remove \/ \E v \in Value : Insert(v)

Spec == Init /\ [][Next]_items
=============================================================================
