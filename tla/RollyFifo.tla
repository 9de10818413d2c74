------------------------------ MODULE RollyFifo ------------------------------
(***************************************************************************)
(* bsg_fifo_1r1w_rolly: a ring of Els words with a checkpoint, a read and  *)
(* a write pointer.  A pointer counts modulo 2*Els: its top bit tells a    *)
(* full queue from an empty one.  One step is one clock cycle; the inputs  *)
(* obey the protocol of the FIFO's users (ready-then-valid writes, reads   *)
(* only when v_o, no checkpoint of a word not read before).                *)
(***************************************************************************)
EXTENDS Naturals, Sequences

CONSTANTS Item, Els
ASSUME ElsAssumption == Els \in Nat \ {0}

VARIABLES mem, cptr, rptr, wptr

vars == <<mem, cptr, rptr, wptr>>

Slot == 0 .. Els - 1
Ptr == 0 .. 2 * Els - 1

TypeOK ==
  /\ mem \in [Slot -> Item]
  /\ cptr \in Ptr /\ rptr \in Ptr /\ wptr \in Ptr

Init ==
  /\ mem \in [Slot -> Item]
  /\ cptr = 0 /\ rptr = 0 /\ wptr = 0

\* bsg_circular_ptr: a pointer moved on by n slots, n < 2*Els.
Plus(p, n) == IF p + n >= 2 * Els THEN p + n - 2 * Els ELSE p + n

\* How far pointer q is ahead of pointer p.
Ahead(q, p) == IF q >= p THEN q - p ELSE q + 2 * Els - p

\* The word a pointer points at: the pointer without its top bit.
SlotOf(p) == IF p >= Els THEN p - Els ELSE p

empty == rptr = wptr

\* Mutation: full is measured from the read pointer, not from the checkpoint.
fullByReader == SlotOf(rptr) = SlotOf(wptr) /\ rptr # wptr

full == SlotOf(cptr) = SlotOf(wptr) /\ cptr # wptr

\* The write port: a word is written when v_i, which needs ready_o.
Write(enq, x) ==
  /\ enq => ~full
  /\ mem' = IF enq THEN [mem EXCEPT ![SlotOf(wptr)] = x] ELSE mem
  /\ wptr' = Plus(wptr, IF enq THEN 1 ELSE 0)

\* The checkpoint moves on by one word, which must have been read.
Checkpoint(ckpt) ==
  /\ ckpt => cptr # rptr
  /\ cptr' = Plus(cptr, IF ckpt THEN 1 ELSE 0)

\* Neither clr_v_i nor roll_v_i: any of a write, a read and a checkpoint.
Step(enq, x, deq, ckpt) ==
  /\ deq => ~empty
  /\ Write(enq, x)
  /\ rptr' = Plus(rptr, IF deq THEN 1 ELSE 0)
  /\ Checkpoint(ckpt)

\* Mutation: a clear takes the words read since the checkpoint with it.
ClearToCheckpoint(ckpt) ==
  /\ Checkpoint(ckpt)
  /\ wptr' = Plus(wptr, Ahead(cptr, wptr))
  /\ rptr' = Plus(rptr, Ahead(cptr, rptr))
  /\ UNCHANGED mem

\* clr_v_i: ready_o is low, and the director poisons what would be read.
Clear(ckpt) ==
  /\ Checkpoint(ckpt)
  /\ wptr' = Plus(wptr, Ahead(rptr, wptr))
  /\ UNCHANGED <<mem, rptr>>

\* roll_v_i: v_o is low, and the director withholds the checkpoint.
Rollback(enq, x) ==
  /\ Write(enq, x)
  /\ rptr' = Plus(rptr, Ahead(cptr, rptr))
  /\ UNCHANGED cptr

Next ==
  \E x \in Item :
    \/ \E enq, deq, ckpt \in BOOLEAN : Step(enq, x, deq, ckpt)
    \/ \E ckpt \in BOOLEAN : Clear(ckpt)
    \/ \E enq \in BOOLEAN : Rollback(enq, x)

Spec == Init /\ [][Next]_vars
-----------------------------------------------------------------------------
\* The words from pointer p up to pointer q, in the order they were written.
Words(p, q) == [i \in 1 .. Ahead(q, p) |-> mem[SlotOf(Plus(p, i - 1))]]

Queue == INSTANCE ReplayQueue
           WITH pending <- Words(cptr, rptr), unread <- Words(rptr, wptr)

\* The read pointer stays between the checkpoint and the write pointer, and
\* the write pointer at most one ring ahead of the checkpoint: no word that a
\* rollback may ask for is overwritten (bsg_fifo_1r1w_rolly.v:40-70).
PointersOrdered == Ahead(rptr, cptr) + Ahead(wptr, rptr) <= Els

\* The three pointers and the ring are a queue with replay: in every cycle the
\* words given out again by a rollback are those read since the checkpoint, in
\* order, whatever writes, reads and clears came between.
ImplementsReplayQueue == Queue!Spec
=============================================================================
