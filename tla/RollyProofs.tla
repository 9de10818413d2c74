----------------------------- MODULE RollyProofs -----------------------------
(***************************************************************************)
(* Theorems about RollyFifo for every number of slots and every set of     *)
(* words: the pointers stay in order, and the ring implements the queue    *)
(* with replay.                                                            *)
(***************************************************************************)
EXTENDS RollyFifo, SequenceTheorems, TLAPS

-----------------------------------------------------------------------------
(* Pointers.                                                               *)

LEMMA PlusType ==
  ASSUME NEW p \in Ptr, NEW n \in 0 .. 2 * Els - 1
  PROVE  Plus(p, n) \in Ptr /\ SlotOf(p) \in Slot
BY ElsAssumption DEF Plus, Ptr, SlotOf, Slot

LEMMA MoveType ==
  ASSUME NEW p \in Ptr, NEW move \in BOOLEAN
  PROVE  Plus(p, IF move THEN 1 ELSE 0) \in Ptr
BY ElsAssumption DEF Plus, Ptr

LEMMA AheadType ==
  ASSUME NEW p \in Ptr, NEW q \in Ptr
  PROVE  Ahead(q, p) \in Ptr /\ (Ahead(q, p) = 0 <=> p = q)
BY ElsAssumption DEF Ahead, Ptr

\* Moving a pointer on by its distance to another one makes them meet.
LEMMA PlusAhead ==
  ASSUME NEW p \in Ptr, NEW q \in Ptr
  PROVE  Plus(p, Ahead(q, p)) = q
BY ElsAssumption DEF Plus, Ahead, Ptr

LEMMA PlusZero ==
  ASSUME NEW p \in Ptr
  PROVE  Plus(p, 0) = p
BY ElsAssumption DEF Plus, Ptr

LEMMA PlusPlus ==
  ASSUME NEW p \in Ptr, NEW i \in Ptr, NEW j \in Ptr, i + j < 2 * Els
  PROVE  Plus(Plus(p, i), j) = Plus(p, i + j)
BY ElsAssumption DEF Plus, Ptr

\* Moving the front pointer on takes it one further away.
LEMMA AheadFront ==
  ASSUME NEW p \in Ptr, NEW q \in Ptr, Ahead(q, p) < Els
  PROVE  Ahead(Plus(q, 1), p) = Ahead(q, p) + 1
BY ElsAssumption DEF Plus, Ahead, Ptr

\* Moving the rear pointer on takes it one closer.
LEMMA AheadRear ==
  ASSUME NEW p \in Ptr, NEW q \in Ptr, p # q
  PROVE  Ahead(q, Plus(p, 1)) = Ahead(q, p) - 1
BY ElsAssumption DEF Plus, Ahead, Ptr

LEMMA AheadSum ==
  ASSUME NEW p \in Ptr, NEW q \in Ptr, NEW r \in Ptr,
         Ahead(r, p) + Ahead(q, r) <= Els
  PROVE  Ahead(q, p) = Ahead(r, p) + Ahead(q, r)
BY ElsAssumption DEF Ahead, Ptr

\* Within one ring, different pointers name different slots.
LEMMA SlotsApart ==
  ASSUME NEW p \in Ptr, NEW i \in Ptr, NEW j \in Ptr, i < j, j - i < Els
  PROVE  SlotOf(Plus(p, i)) # SlotOf(Plus(p, j))
BY ElsAssumption DEF Plus, SlotOf, Ptr

-----------------------------------------------------------------------------
(* Type correctness and the order of the pointers.                         *)

\* The invariant: the types and the order together are inductive.
PtrInv == TypeOK /\ PointersOrdered

\* When the queue is not full, the write pointer is less than a ring ahead.
LEMMA NotFull ==
  ASSUME PtrInv, ~full
  PROVE  /\ Ahead(rptr, cptr) + Ahead(wptr, rptr) < Els
         /\ Ahead(wptr, cptr) < Els
BY ElsAssumption DEF PtrInv, TypeOK, PointersOrdered, full, Ahead, SlotOf, Ptr

LEMMA WriteType ==
  ASSUME PtrInv, NEW enq \in BOOLEAN, NEW x \in Item, Write(enq, x)
  PROVE  mem' \in [Slot -> Item] /\ wptr' \in Ptr
<1>1. SlotOf(wptr) \in Slot
  BY ElsAssumption DEF PtrInv, TypeOK, SlotOf, Slot, Ptr
<1>2. mem' \in [Slot -> Item]
  BY <1>1 DEF PtrInv, TypeOK, Write
<1> QED BY <1>2, MoveType DEF PtrInv, TypeOK, Write

LEMMA InitInv == Init => PtrInv
BY ElsAssumption DEF Init, PtrInv, TypeOK, PointersOrdered, Ahead, Ptr

LEMMA StepInv ==
  ASSUME PtrInv, NEW enq \in BOOLEAN, NEW deq \in BOOLEAN, NEW ckpt \in BOOLEAN,
         NEW x \in Item, Step(enq, x, deq, ckpt)
  PROVE  PtrInv'
<1> USE ElsAssumption
<1>1. cptr' \in Ptr /\ rptr' \in Ptr
  BY MoveType DEF PtrInv, TypeOK, Step, Checkpoint
<1>2. enq => Ahead(rptr, cptr) + Ahead(wptr, rptr) < Els
  BY NotFull DEF Step, Write
<1>3. PointersOrdered'
  BY <1>2 DEF PtrInv, TypeOK, PointersOrdered, Step, Write, Checkpoint, empty,
              Ahead, Plus, Ptr
<1> QED BY <1>1, <1>3, WriteType DEF PtrInv, TypeOK, Step

LEMMA ClearInv ==
  ASSUME PtrInv, NEW ckpt \in BOOLEAN, Clear(ckpt)
  PROVE  PtrInv'
<1> USE ElsAssumption
<1>1. wptr' = rptr
  <2>1. Plus(wptr, Ahead(rptr, wptr)) = rptr
    BY PlusAhead DEF PtrInv, TypeOK
  <2> QED BY <2>1 DEF Clear
<1>2. cptr' \in Ptr
  BY MoveType DEF PtrInv, TypeOK, Clear, Checkpoint
<1>3. PointersOrdered'
  BY <1>1 DEF PtrInv, TypeOK, PointersOrdered, Clear, Checkpoint, Ahead, Plus, Ptr
<1> QED BY <1>1, <1>2, <1>3 DEF PtrInv, TypeOK, Clear

LEMMA RollbackInv ==
  ASSUME PtrInv, NEW enq \in BOOLEAN, NEW x \in Item, Rollback(enq, x)
  PROVE  PtrInv'
<1> USE ElsAssumption
<1>1. rptr' = cptr /\ cptr' = cptr
  <2>1. Plus(rptr, Ahead(cptr, rptr)) = cptr
    BY PlusAhead DEF PtrInv, TypeOK
  <2> QED BY <2>1 DEF Rollback
<1>2. enq => Ahead(wptr, cptr) < Els
  BY NotFull DEF Rollback, Write
<1>3. Ahead(wptr, cptr) <= Els
  BY AheadSum DEF PtrInv, TypeOK, PointersOrdered
<1>4. PointersOrdered'
  BY <1>1, <1>2, <1>3 DEF PtrInv, TypeOK, PointersOrdered, Rollback, Write,
                          Ahead, Plus, Ptr
<1> QED BY <1>1, <1>4, WriteType DEF PtrInv, TypeOK, Rollback

LEMMA NextInv == PtrInv /\ [Next]_vars => PtrInv'
<1> SUFFICES ASSUME PtrInv, [Next]_vars PROVE PtrInv'
  OBVIOUS
<1>1. CASE UNCHANGED vars
  BY <1>1 DEF vars, PtrInv, TypeOK, PointersOrdered
<1>2. CASE Next
  BY <1>2, StepInv, ClearInv, RollbackInv DEF Next
<1> QED BY <1>1, <1>2

\* Every pointer counts modulo two rings and every slot holds a word
\* (bsg_fifo_1r1w_rolly.v:22-39).
THEOREM TypeCorrect == Spec => []TypeOK
BY InitInv, NextInv, PTL DEF Spec, PtrInv

\* No word that a rollback may ask for is ever overwritten: the checkpoint, the
\* read and the write pointer stay in order (bsg_fifo_1r1w_rolly.v:40-70).
THEOREM PointersStayOrdered == Spec => []PointersOrdered
BY InitInv, NextInv, PTL DEF Spec, PtrInv

-----------------------------------------------------------------------------
(* The words between two pointers.                                         *)

\* Words, of a ring with contents m.
WordsIn(m, p, q) == [i \in 1 .. Ahead(q, p) |-> m[SlotOf(Plus(p, i - 1))]]

Ring == [Slot -> Item]

LEMMA WordsType ==
  ASSUME NEW m \in Ring, NEW p \in Ptr, NEW q \in Ptr
  PROVE  /\ WordsIn(m, p, q) \in Seq(Item)
         /\ Len(WordsIn(m, p, q)) = Ahead(q, p)
         /\ \A i \in 1 .. Ahead(q, p) :
              WordsIn(m, p, q)[i] = m[SlotOf(Plus(p, i - 1))]
<1>1. Ahead(q, p) \in Nat /\ Ahead(q, p) <= 2 * Els - 1
  BY ElsAssumption, AheadType DEF Ptr
<1>2. \A i \in 1 .. Ahead(q, p) : m[SlotOf(Plus(p, i - 1))] \in Item
  <2> SUFFICES ASSUME NEW i \in 1 .. Ahead(q, p)
               PROVE  SlotOf(Plus(p, i - 1)) \in Slot
    BY DEF Ring
  <2> QED BY <1>1, ElsAssumption DEF Plus, SlotOf, Ptr, Slot
<1>3. WordsIn(m, p, q) \in [1 .. Ahead(q, p) -> Item]
  BY <1>2 DEF WordsIn
<1> QED BY <1>1, <1>3 DEF WordsIn

LEMMA NoWords ==
  ASSUME NEW m \in Ring, NEW p \in Ptr
  PROVE  WordsIn(m, p, p) = <<>>
BY WordsType, AheadType, EmptySeq

\* Without its first word, a run of words starts one pointer later.
LEMMA DropWord ==
  ASSUME NEW m \in Ring, NEW p \in Ptr, NEW q \in Ptr, p # q
  PROVE  /\ WordsIn(m, p, q) # <<>>
         /\ Head(WordsIn(m, p, q)) = m[SlotOf(p)]
         /\ Tail(WordsIn(m, p, q)) = WordsIn(m, Plus(p, 1), q)
<1> DEFINE s == WordsIn(m, p, q)
           t == WordsIn(m, Plus(p, 1), q)
           d == Ahead(q, p)
<1>1. Plus(p, 1) \in Ptr /\ d \in Ptr /\ d > 0
  BY ElsAssumption, AheadType DEF Plus, Ptr
<1>2. Ahead(q, Plus(p, 1)) = d - 1
  BY AheadRear
<1>3. /\ s \in Seq(Item) /\ Len(s) = d
      /\ \A i \in 1 .. d : s[i] = m[SlotOf(Plus(p, i - 1))]
  BY WordsType
<1>4. /\ t \in Seq(Item) /\ Len(t) = d - 1
      /\ \A i \in 1 .. d - 1 : t[i] = m[SlotOf(Plus(Plus(p, 1), i - 1))]
  BY <1>1, <1>2, WordsType
<1>5. s # <<>>
  BY <1>1, <1>3, EmptySeq DEF Ptr
<1>6. Head(s) = m[SlotOf(p)]
  <2>1. Head(s) = s[1] /\ 1 \in 1 .. d
    BY <1>1, <1>3 DEF Ptr
  <2> QED BY <2>1, <1>3, PlusZero
<1>7. \A i \in 1 .. d - 1 : Tail(s)[i] = t[i]
  <2> SUFFICES ASSUME NEW i \in 1 .. d - 1 PROVE Tail(s)[i] = t[i]
    OBVIOUS
  <2>1. Tail(s)[i] = s[i + 1] /\ i + 1 \in 1 .. d
    BY <1>1, <1>3, <1>5, HeadTailProperties DEF Ptr
  <2>2. Plus(Plus(p, 1), i - 1) = Plus(p, i)
    BY <1>1, ElsAssumption DEF Plus, Ptr
  <2>3. s[i + 1] = m[SlotOf(Plus(p, i))]
    <3>1. (i + 1) - 1 = i
      BY <1>1 DEF Ptr
    <3> QED BY <2>1, <1>3, <3>1
  <2> QED BY <2>1, <2>2, <2>3, <1>4
<1>8. Tail(s) \in Seq(Item) /\ Len(Tail(s)) = d - 1
  BY <1>3, <1>5, HeadTailProperties
<1>9. Tail(s) = t
  <2> HIDE DEF s, t, d
  <2> QED BY <1>4, <1>7, <1>8, SeqEqual
<1> QED BY <1>5, <1>6, <1>9

\* Two runs that meet are one run.
LEMMA JoinWords ==
  ASSUME NEW m \in Ring, NEW p \in Ptr, NEW q \in Ptr, NEW r \in Ptr,
         Ahead(r, p) + Ahead(q, r) <= Els
  PROVE  WordsIn(m, p, q) = WordsIn(m, p, r) \o WordsIn(m, r, q)
<1> DEFINE s == WordsIn(m, p, q)
           u == WordsIn(m, p, r)
           v == WordsIn(m, r, q)
           d == Ahead(r, p)
           e == Ahead(q, r)
<1>1. d \in Ptr /\ e \in Ptr
  BY AheadType
<1>2. /\ s \in Seq(Item) /\ Len(s) = d + e
      /\ \A i \in 1 .. d + e : s[i] = m[SlotOf(Plus(p, i - 1))]
  BY WordsType, AheadSum
<1>3. /\ u \in Seq(Item) /\ Len(u) = d
      /\ \A i \in 1 .. d : u[i] = m[SlotOf(Plus(p, i - 1))]
  BY WordsType
<1>4. /\ v \in Seq(Item) /\ Len(v) = e
      /\ \A i \in 1 .. e : v[i] = m[SlotOf(Plus(r, i - 1))]
  BY WordsType
<1>5. /\ u \o v \in Seq(Item) /\ Len(u \o v) = d + e
      /\ \A i \in 1 .. d + e : (u \o v)[i] = IF i <= d THEN u[i] ELSE v[i - d]
  <2> HIDE DEF u, v, d, e
  <2> QED BY <1>3, <1>4, ConcatProperties
<1>6. \A i \in 1 .. d + e : s[i] = (u \o v)[i]
  <2> SUFFICES ASSUME NEW i \in 1 .. d + e PROVE s[i] = (u \o v)[i]
    OBVIOUS
  <2>1. CASE i <= d
    <3>1. i \in 1 .. d
      BY <2>1, <1>1 DEF Ptr
    <3> QED BY <2>1, <3>1, <1>2, <1>3, <1>5
  <2>2. CASE ~(i <= d)
    <3>1. i - d \in 1 .. e /\ i - d - 1 \in Ptr
      BY <2>2, <1>1, ElsAssumption DEF Ptr
    <3>2. r = Plus(p, d)
      BY PlusAhead
    <3>3. Plus(Plus(p, d), i - d - 1) = Plus(p, i - 1)
      <4>1. d + (i - d - 1) = i - 1 /\ i - 1 < 2 * Els
        BY <1>1, ElsAssumption DEF Ptr
      <4> HIDE DEF d
      <4> QED BY <4>1, <1>1, <3>1, PlusPlus
    <3>4. v[i - d] = m[SlotOf(Plus(r, i - d - 1))]
      BY <3>1, <1>4
    <3> QED BY <2>2, <3>2, <3>3, <3>4, <1>2, <1>5
  <2> QED BY <2>1, <2>2
<1>7. s = u \o v
  <2> HIDE DEF s, u, v, d, e
  <2> QED BY <1>2, <1>5, <1>6, SeqEqual
<1> QED BY <1>7

LEMMA OneWord ==
  ASSUME NEW m \in Ring, NEW p \in Ptr
  PROVE  WordsIn(m, p, Plus(p, 1)) = <<m[SlotOf(p)]>>
<1>1. Plus(p, 1) \in Ptr /\ Ahead(Plus(p, 1), p) = 1
  BY ElsAssumption DEF Plus, Ahead, Ptr
<1>2. m[SlotOf(p)] \in Item
  BY PlusType, ElsAssumption DEF Ring, Slot, SlotOf, Ptr
<1>3. /\ WordsIn(m, p, Plus(p, 1)) \in Seq(Item)
      /\ Len(WordsIn(m, p, Plus(p, 1))) = 1
      /\ WordsIn(m, p, Plus(p, 1))[1] = m[SlotOf(Plus(p, 1 - 1))]
  <2>1. 1 \in 1 .. Ahead(Plus(p, 1), p)
    BY <1>1
  <2> QED BY <1>1, <2>1, WordsType
<1>4. Plus(p, 1 - 1) = p
  BY PlusZero
<1> QED BY <1>2, <1>3, <1>4, SeqEqual

\* A write at the end of a run that does not fill the ring leaves it alone.
LEMMA WordsKept ==
  ASSUME NEW m \in Ring, NEW p \in Ptr, NEW q \in Ptr, NEW w \in Ptr, NEW x \in Item,
         Ahead(q, p) + Ahead(w, q) < Els
  PROVE  WordsIn([m EXCEPT ![SlotOf(w)] = x], p, q) = WordsIn(m, p, q)
<1> DEFINE n == [m EXCEPT ![SlotOf(w)] = x]
           d == Ahead(q, p)
           e == Ahead(w, q)
<1>1. n \in Ring
  BY DEF Ring
<1>2. d \in Ptr /\ e \in Ptr
  BY AheadType
<1>3. w = Plus(p, d + e)
  <2>1. Ahead(w, p) = d + e
    BY AheadSum, <1>2, ElsAssumption DEF Ptr
  <2> QED BY <2>1, PlusAhead
<1>4. \A i \in 1 .. d : n[SlotOf(Plus(p, i - 1))] = m[SlotOf(Plus(p, i - 1))]
  <2> SUFFICES ASSUME NEW i \in 1 .. d
               PROVE  n[SlotOf(Plus(p, i - 1))] = m[SlotOf(Plus(p, i - 1))]
    OBVIOUS
  <2>1. /\ i - 1 \in Ptr /\ d + e \in Ptr
        /\ i - 1 < d + e /\ (d + e) - (i - 1) < Els
    BY <1>2, ElsAssumption DEF Ptr
  <2>2. SlotOf(Plus(p, i - 1)) # SlotOf(w)
    <3> HIDE DEF d, e
    <3> QED BY <2>1, <1>3, SlotsApart
  <2>3. SlotOf(Plus(p, i - 1)) \in Slot
    BY <2>1, PlusType, ElsAssumption DEF Plus, SlotOf, Slot, Ptr
  <2> QED BY <2>2, <2>3 DEF Ring
<1> QED BY <1>4 DEF WordsIn

-----------------------------------------------------------------------------
(* The ring implements the queue with replay.                              *)

\* What the write port adds to the queue.
Pushed(enq, x) == IF enq THEN <<x>> ELSE <<>>

LEMMA TheWords ==
  /\ Queue!Room <=> Len(WordsIn(mem, cptr, rptr)) + Len(WordsIn(mem, rptr, wptr)) < Els
  /\ Words(cptr, rptr) = WordsIn(mem, cptr, rptr)
  /\ Words(rptr, wptr) = WordsIn(mem, rptr, wptr)
BY DEF Words, WordsIn, Queue!Room

LEMMA InitQueue == Init => Queue!Init
<1> SUFFICES ASSUME Init PROVE Queue!Init
  OBVIOUS
<1>1. mem \in Ring /\ 0 \in Ptr
  BY ElsAssumption DEF Init, Ring, Ptr
<1>2. WordsIn(mem, 0, 0) = <<>>
  BY <1>1, NoWords
<1> QED BY <1>2 DEF Init, Queue!Init, Words, WordsIn

\* A write happens only when the abstract queue has room.
LEMMA WriteHasRoom ==
  ASSUME PtrInv, NEW enq \in BOOLEAN, NEW x \in Item, Write(enq, x)
  PROVE  Queue!Written(Pushed(enq, x))
<1>1. CASE enq
  <2>1. Ahead(rptr, cptr) + Ahead(wptr, rptr) < Els
    BY <1>1, NotFull DEF Write
  <2>2. /\ Len(WordsIn(mem, cptr, rptr)) = Ahead(rptr, cptr)
        /\ Len(WordsIn(mem, rptr, wptr)) = Ahead(wptr, rptr)
    BY WordsType DEF PtrInv, TypeOK, Ring
  <2>3. Queue!Room
    BY <2>1, <2>2, TheWords
  <2> QED BY <1>1, <2>3 DEF Queue!Written, Pushed
<1>2. CASE ~enq
  BY <1>2 DEF Queue!Written, Pushed
<1> QED BY <1>1, <1>2

\* A write leaves a run alone that ends at or before the write pointer.
LEMMA WriteKeeps ==
  ASSUME PtrInv, NEW enq \in BOOLEAN, NEW x \in Item, Write(enq, x),
         NEW p \in Ptr, NEW q \in Ptr,
         enq => Ahead(q, p) + Ahead(wptr, q) < Els
  PROVE  WordsIn(mem', p, q) = WordsIn(mem, p, q)
<1>1. mem \in Ring /\ wptr \in Ptr
  BY DEF PtrInv, TypeOK, Ring
<1>2. CASE enq
  <2>1. mem' = [mem EXCEPT ![SlotOf(wptr)] = x]
    BY <1>2 DEF Write
  <2> QED BY <1>1, <1>2, <2>1, WordsKept
<1>3. CASE ~enq
  BY <1>3 DEF Write
<1> QED BY <1>2, <1>3

\* A write adds its word at the end of a run that ends at the write pointer.
LEMMA WriteAdds ==
  ASSUME PtrInv, NEW enq \in BOOLEAN, NEW x \in Item, Write(enq, x),
         NEW p \in Ptr, Ahead(wptr, p) <= Els, enq => Ahead(wptr, p) < Els
  PROVE  WordsIn(mem', p, wptr') = WordsIn(mem, p, wptr) \o Pushed(enq, x)
<1>1. /\ mem \in Ring /\ wptr \in Ptr
      /\ mem' \in Ring /\ wptr' \in Ptr
  BY WriteType DEF PtrInv, TypeOK, Ring
<1>2. Ahead(wptr, p) \in Ptr /\ Ahead(wptr, wptr) = 0
  BY <1>1, AheadType
<1>3. WordsIn(mem', p, wptr) = WordsIn(mem, p, wptr)
  <2>1. enq => Ahead(wptr, p) + Ahead(wptr, wptr) < Els
    BY <1>2 DEF Ptr
  <2> QED BY <1>1, <2>1, WriteKeeps
<1>4. CASE enq
  <2>1. wptr' = Plus(wptr, 1) /\ mem'[SlotOf(wptr)] = x
    <3>1. SlotOf(wptr) \in Slot
      BY <1>1, ElsAssumption DEF SlotOf, Slot, Ptr
    <3> QED BY <1>4, <3>1 DEF Write, PtrInv, TypeOK
  <2>2. Ahead(wptr', wptr) = 1
    BY <1>1, <2>1, ElsAssumption DEF Plus, Ahead, Ptr
  <2>3. Ahead(wptr, p) + Ahead(wptr', wptr) <= Els
    BY <1>2, <1>4, <2>2, ElsAssumption DEF Ptr
  <2>4. WordsIn(mem', p, wptr') = WordsIn(mem', p, wptr) \o WordsIn(mem', wptr, wptr')
    BY <1>1, <2>3, JoinWords
  <2>5. WordsIn(mem', wptr, wptr') = <<x>>
    BY <1>1, <2>1, OneWord
  <2> QED BY <1>3, <1>4, <2>4, <2>5 DEF Pushed
<1>5. CASE ~enq
  <2>1. wptr' = wptr
    BY <1>1, <1>5, PlusZero DEF Write
  <2>2. WordsIn(mem, p, wptr) \in Seq(Item)
    BY <1>1, WordsType
  <2> QED BY <1>3, <1>5, <2>1, <2>2, ConcatEmptySeq DEF Pushed
<1> QED BY <1>4, <1>5

\* The checkpoint drops the first of the words that were read.
LEMMA CheckpointDrops ==
  ASSUME PtrInv, NEW ckpt \in BOOLEAN, Checkpoint(ckpt)
  PROVE  /\ ckpt => WordsIn(mem, cptr, rptr) # <<>>
         /\ WordsIn(mem, cptr', rptr) = Queue!Dropped(WordsIn(mem, cptr, rptr), ckpt)
         /\ cptr' \in Ptr
         /\ Ahead(rptr, cptr') <= Ahead(rptr, cptr)
<1>1. mem \in Ring /\ cptr \in Ptr /\ rptr \in Ptr
  BY DEF PtrInv, TypeOK, Ring
<1>2. cptr' \in Ptr
  BY <1>1, MoveType DEF Checkpoint
<1>3. CASE ckpt
  <2>1. cptr' = Plus(cptr, 1) /\ cptr # rptr
    BY <1>3 DEF Checkpoint
  <2>2. Ahead(rptr, cptr') <= Ahead(rptr, cptr)
    BY <1>1, <2>1, AheadRear, AheadType DEF Ptr
  <2> QED BY <1>1, <1>2, <1>3, <2>1, <2>2, DropWord DEF Queue!Dropped
<1>4. CASE ~ckpt
  <2>1. cptr' = cptr
    BY <1>1, <1>4, PlusZero DEF Checkpoint
  <2>2. Ahead(rptr, cptr) \in Ptr
    BY <1>1, AheadType
  <2> QED BY <1>2, <1>4, <2>1, <2>2 DEF Queue!Dropped, Ptr
<1> QED BY <1>3, <1>4

LEMMA StepQueue ==
  ASSUME PtrInv, NEW enq \in BOOLEAN, NEW deq \in BOOLEAN, NEW ckpt \in BOOLEAN,
         NEW x \in Item, Step(enq, x, deq, ckpt)
  PROVE  Queue!Step(Pushed(enq, x), deq, ckpt)
<1> DEFINE P == WordsIn(mem, cptr, rptr)
           U == WordsIn(mem, rptr, wptr)
<1>1. /\ mem \in Ring
      /\ cptr \in Ptr /\ rptr \in Ptr /\ wptr \in Ptr
  BY DEF PtrInv, TypeOK, Ring
<1>2. Write(enq, x) /\ Checkpoint(ckpt)
  BY DEF Step
<1>3. /\ ckpt => P # <<>>
      /\ WordsIn(mem, cptr', rptr) = Queue!Dropped(P, ckpt)
      /\ cptr' \in Ptr
      /\ Ahead(rptr, cptr') <= Ahead(rptr, cptr)
  BY <1>2, CheckpointDrops
<1>4. rptr' = (IF deq THEN Plus(rptr, 1) ELSE rptr) /\ (deq => rptr # wptr)
  BY <1>1, PlusZero DEF Step, empty
<1>5. rptr' \in Ptr
  BY <1>1, <1>4, ElsAssumption DEF Plus, Ptr
<1>6. /\ Ahead(rptr, cptr) \in Nat /\ Ahead(wptr, rptr) \in Nat
      /\ Ahead(rptr, cptr') \in Nat
  BY <1>1, <1>3, AheadType DEF Ptr
<1>7. /\ Ahead(rptr, cptr) + Ahead(wptr, rptr) <= Els
      /\ enq => Ahead(rptr, cptr) + Ahead(wptr, rptr) < Els
  BY <1>2, NotFull DEF PtrInv, PointersOrdered, Write
\* How far the pointers are apart after the read.
<1>8. /\ Ahead(rptr', cptr') + Ahead(wptr, rptr')
           = Ahead(rptr, cptr') + Ahead(wptr, rptr)
      /\ Ahead(wptr, rptr') <= Ahead(wptr, rptr) /\ Ahead(wptr, rptr') \in Nat
      /\ Ahead(rptr', cptr') \in Nat
  <2>1. CASE deq
    <3>1. Ahead(wptr, rptr) > 0
      BY <1>1, <1>4, <2>1, AheadType DEF Ptr
    <3>2. Ahead(wptr, rptr') = Ahead(wptr, rptr) - 1
      BY <1>1, <1>4, <2>1, AheadRear
    <3>3. Ahead(rptr, cptr') < Els
      BY <1>3, <1>6, <1>7, <3>1, ElsAssumption
    <3>4. Ahead(rptr', cptr') = Ahead(rptr, cptr') + 1
      BY <1>1, <1>3, <1>4, <2>1, <3>3, AheadFront
    <3> QED BY <1>6, <3>1, <3>2, <3>4
  <2>2. CASE ~deq
    BY <1>4, <1>6, <2>2
  <2> QED BY <2>1, <2>2
<1>9. /\ Ahead(rptr', cptr') + Ahead(wptr, rptr') <= Els
      /\ enq => Ahead(rptr', cptr') + Ahead(wptr, rptr') < Els
      /\ Ahead(wptr, rptr') <= Els
      /\ enq => Ahead(wptr, rptr') < Els
  BY <1>3, <1>6, <1>7, <1>8, ElsAssumption
\* What was read.
<1>10. /\ deq => U # <<>>
       /\ WordsIn(mem, rptr', wptr) = Queue!Dropped(U, deq)
       /\ WordsIn(mem, rptr, rptr') = IF deq THEN <<Head(U)>> ELSE <<>>
  <2>1. CASE deq
    <3>1. /\ U # <<>> /\ Head(U) = mem[SlotOf(rptr)]
          /\ Tail(U) = WordsIn(mem, Plus(rptr, 1), wptr)
      BY <1>1, <1>4, <2>1, DropWord
    <3>2. WordsIn(mem, rptr, Plus(rptr, 1)) = <<mem[SlotOf(rptr)]>>
      BY <1>1, OneWord
    <3> QED BY <1>4, <2>1, <3>1, <3>2 DEF Queue!Dropped
  <2>2. CASE ~deq
    BY <1>1, <1>4, <2>2, NoWords DEF Queue!Dropped
  <2> QED BY <2>1, <2>2
<1>11. Words(cptr, rptr)' = Queue!Dropped(P, ckpt) \o (IF deq THEN <<Head(U)>> ELSE <<>>)
  <2>1. Words(cptr, rptr)' = WordsIn(mem', cptr', rptr')
    BY DEF Words, WordsIn, Ahead, SlotOf, Plus
  <2>2. WordsIn(mem', cptr', rptr') = WordsIn(mem, cptr', rptr')
    BY <1>2, <1>3, <1>5, <1>9, WriteKeeps
  <2>3. Ahead(rptr, cptr') + Ahead(rptr', rptr) <= Els
    <3>1. CASE deq
      <4>1. Ahead(rptr', rptr) = 1
        BY <1>1, <1>4, <3>1, ElsAssumption DEF Plus, Ahead, Ptr
      <4>2. Ahead(wptr, rptr) > 0
        BY <1>1, <1>4, <3>1, AheadType DEF Ptr
      <4> QED BY <1>3, <1>6, <1>7, <4>1, <4>2, ElsAssumption
    <3>2. CASE ~deq
      <4>1. Ahead(rptr', rptr) = 0
        BY <1>1, <1>4, <3>2, AheadType
      <4> QED BY <1>3, <1>6, <1>7, <4>1, ElsAssumption
    <3> QED BY <3>1, <3>2
  <2>4. WordsIn(mem, cptr', rptr') = WordsIn(mem, cptr', rptr) \o WordsIn(mem, rptr, rptr')
    BY <1>1, <1>3, <1>5, <2>3, JoinWords
  <2> QED BY <1>3, <1>10, <2>1, <2>2, <2>4
<1>12. Words(rptr, wptr)' = Queue!Dropped(U, deq) \o Pushed(enq, x)
  <2>1. Words(rptr, wptr)' = WordsIn(mem', rptr', wptr')
    BY DEF Words, WordsIn, Ahead, SlotOf, Plus
  <2>2. WordsIn(mem', rptr', wptr') = WordsIn(mem, rptr', wptr) \o Pushed(enq, x)
    BY <1>2, <1>5, <1>9, WriteAdds
  <2> QED BY <1>10, <2>1, <2>2
<1>13. Queue!Written(Pushed(enq, x))
  BY <1>2, WriteHasRoom
<1> QED BY <1>3, <1>10, <1>11, <1>12, <1>13, TheWords DEF Queue!Step

LEMMA ClearQueue ==
  ASSUME PtrInv, NEW ckpt \in BOOLEAN, Clear(ckpt)
  PROVE  Queue!Clear(ckpt)
<1>1. /\ mem \in Ring
      /\ cptr \in Ptr /\ rptr \in Ptr /\ wptr \in Ptr
  BY DEF PtrInv, TypeOK, Ring
<1>2. wptr' = rptr /\ rptr' = rptr /\ mem' = mem /\ Checkpoint(ckpt)
  <2>1. Plus(wptr, Ahead(rptr, wptr)) = rptr
    BY <1>1, PlusAhead
  <2> QED BY <2>1 DEF Clear
<1>3. Words(cptr, rptr)' = WordsIn(mem, cptr', rptr)
  BY <1>2 DEF Words, WordsIn, Ahead, SlotOf, Plus
<1>4. Words(rptr, wptr)' = WordsIn(mem, rptr, rptr)
  BY <1>2 DEF Words, WordsIn, Ahead, SlotOf, Plus
<1> QED
  BY <1>1, <1>2, <1>3, <1>4, CheckpointDrops, NoWords, TheWords DEF Queue!Clear

LEMMA RollbackQueue ==
  ASSUME PtrInv, NEW enq \in BOOLEAN, NEW x \in Item, Rollback(enq, x)
  PROVE  Queue!Rollback(Pushed(enq, x))
<1>1. /\ mem \in Ring
      /\ cptr \in Ptr /\ rptr \in Ptr /\ wptr \in Ptr
  BY DEF PtrInv, TypeOK, Ring
<1>2. rptr' = cptr /\ cptr' = cptr /\ Write(enq, x)
  <2>1. Plus(rptr, Ahead(cptr, rptr)) = cptr
    BY <1>1, PlusAhead
  <2> QED BY <2>1 DEF Rollback
<1>3. /\ Ahead(rptr, cptr) + Ahead(wptr, rptr) <= Els
      /\ Ahead(wptr, cptr) <= Els
      /\ enq => Ahead(wptr, cptr) < Els
  BY <1>1, <1>2, AheadSum, NotFull DEF PtrInv, PointersOrdered, Write
<1>4. Words(cptr, rptr)' = <<>>
  <2>1. mem' \in Ring
    BY <1>2, WriteType DEF Ring
  <2>2. Words(cptr, rptr)' = WordsIn(mem', cptr, cptr)
    BY <1>2 DEF Words, WordsIn, Ahead, SlotOf, Plus
  <2> QED BY <1>1, <2>1, <2>2, NoWords
<1>5. Words(rptr, wptr)' = WordsIn(mem, cptr, rptr) \o WordsIn(mem, rptr, wptr)
                             \o Pushed(enq, x)
  <2>1. Words(rptr, wptr)' = WordsIn(mem', cptr, wptr')
    BY <1>2 DEF Words, WordsIn, Ahead, SlotOf, Plus
  <2>2. WordsIn(mem', cptr, wptr') = WordsIn(mem, cptr, wptr) \o Pushed(enq, x)
    BY <1>1, <1>2, <1>3, WriteAdds
  <2>3. WordsIn(mem, cptr, wptr) = WordsIn(mem, cptr, rptr) \o WordsIn(mem, rptr, wptr)
    BY <1>1, <1>3, JoinWords
  <2> QED BY <2>1, <2>2, <2>3
<1> QED BY <1>2, <1>4, <1>5, WriteHasRoom, TheWords DEF Queue!Rollback

LEMMA NextQueue == PtrInv /\ [Next]_vars => [Queue!Next]_(Queue!qVars)
<1> SUFFICES ASSUME PtrInv, [Next]_vars PROVE [Queue!Next]_(Queue!qVars)
  OBVIOUS
<1>1. CASE UNCHANGED vars
  BY <1>1 DEF vars, Queue!qVars, Words, Ahead, SlotOf, Plus
<1>2. CASE Next
  <2> SUFFICES Queue!Next
    OBVIOUS
  <2>1. PICK x \in Item :
          \/ \E enq, deq, ckpt \in BOOLEAN : Step(enq, x, deq, ckpt)
          \/ \E ckpt \in BOOLEAN : Clear(ckpt)
          \/ \E enq \in BOOLEAN : Rollback(enq, x)
    BY <1>2 DEF Next
  <2>2. \A enq \in BOOLEAN : Pushed(enq, x) \in Queue!Pushes
    BY DEF Pushed, Queue!Pushes
  <2>3. CASE \E enq, deq, ckpt \in BOOLEAN : Step(enq, x, deq, ckpt)
    BY <2>2, <2>3, StepQueue DEF Queue!Next
  <2>4. CASE \E ckpt \in BOOLEAN : Clear(ckpt)
    BY <2>4, ClearQueue DEF Queue!Next
  <2>5. CASE \E enq \in BOOLEAN : Rollback(enq, x)
    BY <2>2, <2>5, RollbackQueue DEF Queue!Next
  <2> QED BY <2>1, <2>3, <2>4, <2>5
<1> QED BY <1>1, <1>2

\* The three pointers and the ring implement the queue with replay, for every
\* size of the ring: what a rollback gives out again is what was read since the
\* checkpoint, in order (bsg_fifo_1r1w_rolly.v:40-122).
THEOREM QueueImplemented == Spec => ImplementsReplayQueue
BY InitInv, InitQueue, NextInv, NextQueue, PTL
   DEF Spec, ImplementsReplayQueue, Queue!Spec
=============================================================================
