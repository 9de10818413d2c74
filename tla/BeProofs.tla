------------------------------- MODULE BeProofs -------------------------------
(***************************************************************************)
(* Theorems about BePipe for every size of the words, the register file    *)
(* and the queue, every set of programs and every predictor: the types,    *)
(* the agreement of npc with EX1, the place of the checkpoint, and that    *)
(* the pipe executes one instruction at a time.                            *)
(***************************************************************************)
EXTENDS BePipe, SequenceTheorems, FiniteSetTheorems, TLAPS

-----------------------------------------------------------------------------
(* Instructions and words.                                                 *)

LEMMA WordFacts ==
  /\ NumWord \in Nat \ {0} /\ NumReg \in Nat \ {0}
  /\ 0 \in Word /\ 0 \in Reg /\ None \notin Word
BY BeIsaAssumption DEF Word, Reg, None

LEMMA AddType ==
  ASSUME NEW x \in Word, NEW y \in Int
  PROVE  Add(x, y) \in Word
<1>1. x + y \in Int /\ NumWord \in Nat /\ NumWord > 0
  BY WordFacts DEF Word
<1> QED BY <1>1 DEF Add, Word

LEMMA ExecType ==
  ASSUME NEW i \in Instr, NEW p \in Word, NEW a \in Word, NEW b \in Word
  PROVE  IntResult(i, p, a, b) \in Word /\ Target(i, p, a) \in Word
<1>1. i.imm \in Word /\ i.imm \in Int /\ 1 \in Int /\ b \in Int
  BY DEF Instr, Word
<1>2. Add(p, 1) \in Word /\ Add(a, b) \in Word /\ Add(p, i.imm) \in Word
      /\ Add(a, i.imm) \in Word
  BY <1>1, AddType
<1>3. Add(Add(a, b), i.imm) \in Word
  BY <1>1, <1>2, AddType
<1> QED BY <1>2, <1>3 DEF IntResult, Target

LEMMA ProgType ==
  ASSUME prog \in Programs, NEW p \in Word
  PROVE  prog[p] \in Instr
BY BeIsaAssumption

-----------------------------------------------------------------------------
(* The operators of a cycle.                                               *)

LEMMA StageType ==
  ASSUME TypeOK, NEW s \in Stage
  PROVE  /\ stage[s] \in {Bubble, Poisoned} \cup LiveWords
         /\ IsLive(s) => /\ stage[s] \in LiveWords
                         /\ InstrOf(s) \in Instr
         /\ stage[s] = Bubble <=> stage[s].kind = "bubble"
BY ProgType DEF TypeOK, IsLive, InstrOf, Bubble, Poisoned, LiveWords

LEMMA ResultType ==
  ASSUME TypeOK, NEW s \in Stage, IsLive(s), NEW v \in Word
  PROVE  Result(s, v) \in Word
BY StageType, ExecType DEF Result, LiveWords

LEMMA AnswersType == ASSUME NEW v \in Answers PROVE v \in Word
BY WordFacts DEF Answers

\* Among some stages there is a youngest.
LEMMA Youngest ==
  ASSUME NEW W \in SUBSET Stage, W # {}
  PROVE  \E s \in W : \A t \in W : s <= t
<1>1. \A s \in W : s \in Int /\ s \in {0, 1, 2, 3}
  BY DEF Stage
<1>2. CASE 0 \in W BY <1>1, <1>2
<1>3. CASE 0 \notin W /\ 1 \in W BY <1>1, <1>3
<1>4. CASE 0 \notin W /\ 1 \notin W /\ 2 \in W BY <1>1, <1>4
<1>5. CASE 0 \notin W /\ 1 \notin W /\ 2 \notin W
  <2>1. W = {3}
    BY <1>1, <1>5
  <2> QED BY <2>1
<1> QED BY <1>2, <1>3, <1>4, <1>5

LEMMA BypassType ==
  ASSUME TypeOK, NEW r \in Reg, NEW v \in Word
  PROVE  Bypass(r, v) \in Word
<1> DEFINE W == {s \in Stage : WritesReg(s, r)}
           y == CHOOSE s \in W : \A t \in W : s <= t
<1>1. CASE W # {}
  <2>1. y \in W
    <3>1. W \in SUBSET Stage
      OBVIOUS
    <3>2. \E s \in W : \A t \in W : s <= t
      <4> HIDE DEF W
      <4> QED BY <1>1, <3>1, Youngest
    <3> HIDE DEF W
    <3> QED BY <3>2
  <2>2. Result(y, v) \in Word
    <3>1. y \in Stage /\ IsLive(y)
      <4> HIDE DEF y
      <4> QED BY <2>1 DEF WritesReg
    <3> HIDE DEF y
    <3> QED BY <3>1, ResultType
  <2>3. Bypass(r, v) = IF r = 0 THEN 0 ELSE Result(y, v)
    BY <1>1 DEF Bypass
  <2> QED BY <2>2, <2>3, WordFacts
<1>2. CASE W = {}
  <2>1. Bypass(r, v) = IF r = 0 THEN 0 ELSE irf[r]
    BY <1>2 DEF Bypass
  <2>2. irf \in [Reg -> Word]
    BY DEF TypeOK
  <2> QED BY <2>1, <2>2, WordFacts
<1> QED BY <1>1, <1>2

LEMMA ExpectedType == TypeOK => Expected \in Word
<1> SUFFICES ASSUME TypeOK PROVE Expected \in Word
  OBVIOUS
<1>1. EX1 \in Stage /\ npc \in Word /\ Add(npc, 1) \in Word
  BY AddType DEF EX1, Stage, TypeOK
<1>2. CASE ~IsLive(EX1)
  BY <1>1, <1>2 DEF Expected
<1>3. CASE IsLive(EX1)
  <2>1. stage[EX1] \in LiveWords /\ InstrOf(EX1) \in Instr
    BY <1>1, <1>3, StageType
  <2>2. Target(prog[stage[EX1].pc], stage[EX1].pc, stage[EX1].a) \in Word
    BY <2>1, ExecType DEF InstrOf, LiveWords
  <2> QED BY <1>1, <1>3, <2>2 DEF Expected
<1> QED BY <1>2, <1>3

LEMMA DispatchedType ==
  ASSUME TypeOK, NEW mmuReady \in BOOLEAN, NEW v \in Word
  PROVE  Dispatched(mmuReady, v) \in {Bubble, Poisoned} \cup LiveWords
<1>1. CASE isd = None
  BY <1>1 DEF Dispatched, Dispatch
<1>2. CASE isd # None
  <2>1. isd \in Word /\ prog[isd] \in Instr
    BY <1>2, ProgType DEF TypeOK
  <2>2. /\ Bypass(prog[isd].rs1, v) \in Word
        /\ Bypass(prog[isd].rs2, v) \in Word
    BY <2>1, BypassType DEF Instr
  <2>3. Stale \in SUBSET Reg
    BY <2>1 DEF Stale, Reads, Instr
  <2>4. Live(isd, Bypass(prog[isd].rs1, v), Bypass(prog[isd].rs2, v), Stale)
          \in LiveWords
    BY <2>1, <2>2, <2>3, WordFacts DEF Live, LiveWords
  <2> QED BY <2>4 DEF Dispatched
<1> QED BY <1>1, <1>2

LEMMA AdvanceType ==
  ASSUME TypeOK, NEW mmuReady \in BOOLEAN, NEW v \in Word,
         Advance(Dispatched(mmuReady, v), v)
  PROVE  stage' \in [Stage -> {Bubble, Poisoned} \cup LiveWords]
<1>1. Completed(v) \in {Bubble, Poisoned} \cup LiveWords
  BY StageType DEF Completed, MEM3, Stage, LiveWords
<1>2. \A s \in Stage : s # EX1 /\ s # IWB => s - 1 \in Stage
  BY DEF Stage, EX1, IWB
<1> QED BY <1>1, <1>2, DispatchedType DEF Advance, TypeOK

LEMMA WritebackType ==
  ASSUME TypeOK, Writeback, ReadRegs
  PROVE  {rf, irf}' \subseteq [Reg -> Word]
<1>1. IWB \in Stage
  BY DEF IWB, Stage
<1>2. IsLive(IWB) => InstrOf(IWB) \in Instr /\ Result(IWB, 0) \in Word
  BY <1>1, StageType, ResultType, WordFacts
<1>3. \A r \in Reg : WritesReg(IWB, r) => IsLive(IWB)
  BY DEF WritesReg
<1>4. rf \in [Reg -> Word]
  BY DEF TypeOK
<1>5. rf' \in [Reg -> Word]
  BY <1>2, <1>3, <1>4 DEF Writeback
<1>6. irf' \in {rf, rf'}
  BY DEF ReadRegs
<1> QED BY <1>4, <1>5, <1>6

\* The queue's operations keep its types.
LEMMA DroppedType ==
  ASSUME NEW q \in Seq(Word), NEW drop \in BOOLEAN, drop => q # <<>>
  PROVE  Queue!Dropped(q, drop) \in Seq(Word)
BY HeadTailProperties DEF Queue!Dropped

LEMMA FetchType ==
  ASSUME TypeOK, NEW push \in Pushes, Fetch(push)
  PROVE  /\ push \in Seq(Word)
         /\ fetchPc' \in Word
         /\ target' \in Word \cup {None}
<1>1. fetchPc \in Word /\ target \in Word \cup {None}
  BY DEF TypeOK
<1>2. push \in Seq(Word)
  <2>1. <<>> \in Seq(Word) /\ <<fetchPc>> \in Seq(Word)
    BY <1>1
  <2> QED BY <2>1 DEF Pushes
<1>3. Predict[fetchPc] \subseteq Word
  BY <1>1, BePipeAssumption
<1> QED BY <1>1, <1>2, <1>3 DEF Fetch, Follow, Deliver, Wait, feVars

-----------------------------------------------------------------------------
(* Type correctness.                                                       *)

LEMMA InitType == Init => TypeOK
<1> SUFFICES ASSUME Init PROVE TypeOK
  OBVIOUS
<1>1. pending \in Seq(Word) /\ unread \in Seq(Word)
  BY DEF Init
<1>2. rf \in [Reg -> Word] /\ irf \in [Reg -> Word]
  BY BeIsaAssumption DEF Init
<1>3. stage \in [Stage -> {Bubble, Poisoned} \cup LiveWords]
  BY DEF Init
<1> QED BY <1>1, <1>2, <1>3, WordFacts DEF Init, TypeOK

LEMMA RollbackType ==
  ASSUME TypeOK, NEW push \in Pushes, Rollback(push)
  PROVE  TypeOK'
<1>1. stage[MEM3].pc \in Word
  BY StageType DEF Rollback, MEM3, Stage, LiveWords
<1>2. stage' \in [Stage -> {Bubble, Poisoned} \cup LiveWords]
  BY DEF Rollback
<1>3. redirectPending' \in BOOLEAN
  BY DEF Rollback, TypeOK
<1>4. pending' \in Seq(Word) /\ unread' \in Seq(Word)
  BY FetchType DEF Rollback, Queue!Rollback, TypeOK
<1> QED
  BY <1>1, <1>2, <1>3, <1>4, FetchType, WritebackType DEF Rollback, TypeOK

LEMMA RedirectType ==
  ASSUME TypeOK, NEW mmuReady \in BOOLEAN, NEW v \in Answers, Redirect(mmuReady, v)
  PROVE  TypeOK'
<1>1. pending' \in Seq(Word) /\ unread' \in Seq(Word)
  <2>1. Committing \in BOOLEAN
    BY DEF Committing
  <2> QED BY <2>1, DroppedType DEF Redirect, Queue!Clear, TypeOK
<1>2. isd' \in Word \cup {None} /\ target' \in Word \cup {None}
  BY ExpectedType DEF Redirect, TypeOK
<1> QED
  BY <1>1, <1>2, AnswersType, ExpectedType, AdvanceType, WritebackType
  DEF Redirect, TypeOK

LEMMA FlowType ==
  ASSUME TypeOK, NEW push \in Pushes, NEW mmuReady \in BOOLEAN, NEW v \in Answers,
         Flow(push, mmuReady, v)
  PROVE  TypeOK'
<1> DEFINE issue == /\ unread # <<>>
                    /\ isd = None \/ Dispatch(mmuReady)
                    /\ ~Mispredict
<1>1. /\ Fetch(push) /\ Queue!Step(push, issue, Committing)
      /\ isd' = IF issue THEN Head(unread)
                ELSE IF Dispatch(mmuReady) THEN None ELSE isd
      /\ redirectPending' = IF isd # None THEN Mispredict ELSE redirectPending
  BY DEF Flow
<1>2. Committing \in BOOLEAN /\ Mispredict \in BOOLEAN /\ issue \in BOOLEAN
  BY DEF Committing, Mispredict
<1>3. pending \in Seq(Word) /\ unread \in Seq(Word)
  BY DEF TypeOK
<1>4. issue => Head(unread) \in Word
  BY <1>3, HeadTailProperties
<1>5. isd' \in Word \cup {None}
  BY <1>1, <1>4 DEF TypeOK
<1>6. unread' \in Seq(Word)
  <2> HIDE DEF issue
  <2>1. Queue!Dropped(unread, issue) \in Seq(Word)
    BY <1>1, <1>2, <1>3, DroppedType DEF Queue!Step
  <2> QED BY <1>1, <2>1, FetchType DEF Queue!Step
<1>7. pending' \in Seq(Word)
  <2>1. (IF issue THEN <<Head(unread)>> ELSE <<>>) \in Seq(Word)
    BY <1>4
  <2> HIDE DEF issue
  <2>2. Queue!Dropped(pending, Committing) \in Seq(Word)
    BY <1>1, <1>2, <1>3, DroppedType DEF Queue!Step
  <2> QED BY <1>1, <2>1, <2>2, ConcatProperties DEF Queue!Step
<1>8. redirectPending' \in BOOLEAN
  BY <1>1, <1>2 DEF TypeOK
<1>9. v \in Word /\ Expected \in Word
  BY AnswersType, ExpectedType
<1>10. /\ Advance(Dispatched(mmuReady, v), v) /\ Writeback /\ ReadRegs
       /\ npc' = Expected /\ prog' = prog
  BY DEF Flow
<1> QED
  BY <1>1, <1>5, <1>6, <1>7, <1>8, <1>9, <1>10, AdvanceType, WritebackType, FetchType
  DEF TypeOK

LEMMA NextType == TypeOK /\ [Next]_vars => TypeOK'
<1> SUFFICES ASSUME TypeOK, [Next]_vars PROVE TypeOK'
  OBVIOUS
<1>1. CASE UNCHANGED vars
  BY <1>1 DEF vars, TypeOK
<1>2. CASE Next
  BY <1>2, RollbackType, RedirectType, FlowType DEF Next
<1> QED BY <1>1, <1>2

\* Every pc, register and queued word stays in range, also around the ends of
\* the word's range and the queue (bp_be_calculator_top.v:154-186).
THEOREM TypeCorrect == Spec => []TypeOK
BY InitType, NextType, PTL DEF Spec

-----------------------------------------------------------------------------
(* The register npc and EX1.                                               *)

LEMMA StageMoves ==
  ASSUME NEW d, NEW v, Advance(d, v)
  PROVE  stage'[EX1] = d /\ stage'[EX2] = stage[EX1] /\ stage'[MEM3] = stage[EX2]
BY DEF Advance, Stage, EX1, EX2, MEM3, IWB

LEMMA NpcStep ==
  ASSUME NEW mmuReady \in BOOLEAN, NEW v, Advance(Dispatched(mmuReady, v), v),
         npc' = Expected
  PROVE  NpcIsEx1'
<1> SUFFICES ASSUME IsLive(EX1)' PROVE npc' = stage'[EX1].pc
  BY DEF NpcIsEx1, EX1
<1>1. stage'[EX1] = Dispatched(mmuReady, v)
  BY StageMoves
<1>2. Dispatched(mmuReady, v).kind = "live"
  BY <1>1 DEF IsLive, EX1
<1>3. /\ Dispatched(mmuReady, v)
           = Live(isd, Bypass(prog[isd].rs1, v), Bypass(prog[isd].rs2, v), Stale)
      /\ isd # None /\ ~Mispredict
  BY <1>2 DEF Dispatched, Dispatch, Bubble, Poisoned
<1> QED BY <1>1, <1>3 DEF Live, Mispredict

LEMMA NpcInv == NpcIsEx1 /\ [Next]_vars => NpcIsEx1'
<1> SUFFICES ASSUME NpcIsEx1, [Next]_vars PROVE NpcIsEx1'
  OBVIOUS
<1>1. CASE UNCHANGED vars
  BY <1>1 DEF vars, NpcIsEx1, IsLive, EX1
<1>2. ASSUME NEW push \in Pushes, Rollback(push) PROVE NpcIsEx1'
  BY <1>2 DEF Rollback, NpcIsEx1, IsLive, Bubble, EX1, Stage
<1>3. ASSUME NEW mmuReady \in BOOLEAN, NEW v \in Answers, Redirect(mmuReady, v)
      PROVE  NpcIsEx1'
  BY <1>3, NpcStep DEF Redirect
<1>4. ASSUME NEW push \in Pushes, NEW mmuReady \in BOOLEAN, NEW v \in Answers,
             Flow(push, mmuReady, v)
      PROVE  NpcIsEx1'
  BY <1>4, NpcStep DEF Flow
<1> QED BY <1>1, <1>2, <1>3, <1>4 DEF Next

\* The adder of the director computes branch targets and returns from the pc of
\* the instruction in EX1 although it is fed with npc (bp_be_director.v:157).
THEOREM NpcHolds == Spec => []NpcIsEx1
<1>1. Init => NpcIsEx1
  BY DEF Init, NpcIsEx1, IsLive, Bubble, EX1, Stage
<1> QED BY <1>1, NpcInv, PTL DEF Spec

-----------------------------------------------------------------------------
(* The checkpoint.                                                         *)

\* The places of a word on its way from the queue to MEM3: ISD and three stages.
Place == 0 .. 3
Occupied == {k \in Place : IF k = 0 THEN isd # None ELSE stage[k - 1] # Bubble}
Matches(k, w) == IF k = 0 THEN isd = w
                 ELSE IsLive(k - 1) => stage[k - 1].pc = w

Count(k) == IF k \in Occupied THEN 1 ELSE 0
Occupants == Count(0) + Count(1) + Count(2) + Count(3)
\* How many words are in the places after place k.
Older(k) == (IF k < 1 THEN Count(1) ELSE 0) + (IF k < 2 THEN Count(2) ELSE 0)
              + (IF k < 3 THEN Count(3) ELSE 0)

\* The words of the pipe are in the queue, the oldest first; in a program
\* without illegal words there are no others between them or before them.
QueuedAt(at) ==
  /\ \A k \in Occupied : /\ at[k] \in 1 .. Len(pending)
                         /\ Matches(k, pending[at[k]])
  /\ \A j, k \in Occupied : j < k => at[k] < at[j]
  /\ Legal => \A k \in Occupied : at[k] = Older(k) + 1

QueuedInOrder ==
  /\ \E at \in [Place -> Int] : QueuedAt(at)
  /\ Occupants <= Len(pending)
  /\ Legal => Occupants = Len(pending)

LEMMA OccupantsInPipe == Occupants = NumInPipe
<1> DEFINE I == InPipe
           A == IF EX1 \in I THEN {EX1} ELSE {}
           B == IF EX2 \in I THEN A \cup {EX2} ELSE A
           C == IF MEM3 \in I THEN B \cup {MEM3} ELSE B
<1>1. EX1 = 0 /\ EX2 = 1 /\ MEM3 = 2
  BY DEF EX1, EX2, MEM3
<1>2. I = C
  BY DEF InPipe
<1>3. IsFiniteSet(A) /\ Cardinality(A) = IF EX1 \in I THEN 1 ELSE 0
  BY FS_EmptySet, FS_Singleton
<1>4. /\ IsFiniteSet(B)
      /\ Cardinality(B) = Cardinality(A) + IF EX2 \in I THEN 1 ELSE 0
  <2>1. EX2 \notin A
    BY <1>1
  <2>2. IsFiniteSet(A \cup {EX2}) /\ Cardinality(A \cup {EX2}) = Cardinality(A) + 1
    <3> HIDE DEF A
    <3> QED BY <1>3, <2>1, FS_AddElement
  <2> QED BY <1>3, <2>2
<1>5. Cardinality(C) = Cardinality(B) + IF MEM3 \in I THEN 1 ELSE 0
  <2>1. MEM3 \notin B
    BY <1>1
  <2>2. Cardinality(B \cup {MEM3}) = Cardinality(B) + 1
    <3> HIDE DEF B
    <3> QED BY <1>4, <2>1, FS_AddElement
  <2>3. Cardinality(B) \in Int
    <3> HIDE DEF B
    <3> QED BY <1>4, FS_CardinalityType
  <2> QED BY <2>2, <2>3
<1>6. /\ EX1 \in I <=> 1 \in Occupied
      /\ EX2 \in I <=> 2 \in Occupied
      /\ MEM3 \in I <=> 3 \in Occupied
      /\ isd # None <=> 0 \in Occupied
  BY <1>1 DEF InPipe, Occupied, Place
<1>7. Cardinality(I) = Count(1) + Count(2) + Count(3)
  <2> HIDE DEF A, B, C
  <2> QED BY <1>2, <1>3, <1>4, <1>5, <1>6 DEF Count
<1> QED BY <1>6, <1>7 DEF Occupants, NumInPipe, Count

LEMMA InitQueued == Init => QueuedInOrder
<1> SUFFICES ASSUME Init PROVE QueuedInOrder
  OBVIOUS
<1>1. Occupied = {}
  BY DEF Init, Occupied, Place, Stage
<1>2. QueuedAt([k \in Place |-> 0])
  BY <1>1 DEF QueuedAt
<1>3. Occupants = 0 /\ Len(pending) = 0
  BY <1>1 DEF Init, Occupants, Count
<1> QED BY <1>2, <1>3 DEF QueuedInOrder

\* A rollback empties the pipe and the queue's memory of it.
LEMMA RollbackQueued ==
  ASSUME NEW push \in Pushes, Rollback(push)
  PROVE  QueuedInOrder'
<1>1. Occupied' = {}
  BY DEF Rollback, Occupied, Place, Stage
<1>2. QueuedAt([k \in Place |-> 0])'
  BY <1>1 DEF QueuedAt
<1>3. Occupants' = 0 /\ Len(pending') = 0
  BY <1>1 DEF Rollback, Queue!Rollback, Occupants, Count
<1> QED BY <1>2, <1>3 DEF QueuedInOrder

\* A cycle that advances the pipe: with issue, word w enters ISD.
PipeCycle(mmuReady, v, issue, w) ==
  /\ Advance(Dispatched(mmuReady, v), v)
  /\ Committing => pending # <<>>
  /\ issue => isd = None \/ Dispatch(mmuReady)
  /\ isd' = IF issue THEN w ELSE IF Dispatch(mmuReady) THEN None ELSE isd
  /\ pending' = Queue!Dropped(pending, Committing) \o (IF issue THEN <<w>> ELSE <<>>)
  /\ prog' = prog

\* Which places are occupied after the cycle.
LEMMA PlacesMove ==
  ASSUME TypeOK, NEW mmuReady \in BOOLEAN, NEW v \in Word,
         NEW issue \in BOOLEAN, NEW w \in Word, PipeCycle(mmuReady, v, issue, w)
  PROVE  /\ 0 \in Occupied' <=> issue \/ (0 \in Occupied /\ ~Dispatch(mmuReady))
         /\ Dispatch(mmuReady) => 0 \in Occupied
         /\ 1 \in Occupied' => Dispatch(mmuReady)
         /\ Legal => (1 \in Occupied' <=> Dispatch(mmuReady))
         /\ 2 \in Occupied' <=> 1 \in Occupied
         /\ 3 \in Occupied' <=> 2 \in Occupied
         /\ 3 \in Occupied <=> Committing
<1>1. /\ stage'[0] = Dispatched(mmuReady, v)
      /\ stage'[1] = stage[0] /\ stage'[2] = stage[1]
  BY StageMoves DEF PipeCycle, EX1, EX2, MEM3
<1>2. \A k \in {1, 2, 3} : /\ k \in Occupied <=> stage[k - 1] # Bubble
                           /\ k \in Occupied' <=> stage'[k - 1] # Bubble
  BY DEF Occupied, Place
<1>3. /\ 0 \in Occupied <=> isd # None
      /\ 0 \in Occupied' <=> isd' # None
  BY DEF Occupied, Place
<1>4. 0 \in Occupied' <=> issue \/ (0 \in Occupied /\ ~Dispatch(mmuReady))
  BY <1>3, WordFacts DEF PipeCycle
<1>5. Dispatch(mmuReady) => isd \in Word
  BY DEF Dispatch, TypeOK
<1>6. /\ Dispatched(mmuReady, v) # Bubble => Dispatch(mmuReady)
      /\ Legal /\ Dispatch(mmuReady) => Dispatched(mmuReady, v) # Bubble
  BY <1>5 DEF Dispatched, Bubble, Poisoned, Live, Legal
<1>7. 3 \in Occupied <=> Committing
  BY <1>2, StageType DEF Committing, MEM3, Stage
<1> QED BY <1>1, <1>2, <1>3, <1>4, <1>6, <1>7 DEF Dispatch

LEMMA PipeQueued ==
  ASSUME TypeOK, QueuedInOrder, NEW mmuReady \in BOOLEAN, NEW v \in Word,
         NEW issue \in BOOLEAN, NEW w \in Word, PipeCycle(mmuReady, v, issue, w)
  PROVE  QueuedInOrder'
<1> DEFINE c == IF Committing THEN 1 ELSE 0
           n == IF issue THEN 1 ELSE 0
           D == Queue!Dropped(pending, Committing)
<1>1. PICK at \in [Place -> Int] : QueuedAt(at)
  BY DEF QueuedInOrder
<1>2. /\ Len(pending) \in Nat /\ pending \in Seq(Word)
      /\ Committing => Len(pending) > 0
      /\ c \in {0, 1} /\ (c = 1 <=> Committing)
      /\ n \in {0, 1} /\ (n = 1 <=> issue)
  BY EmptySeq DEF TypeOK, PipeCycle
\* The queue after the cycle.
<1>3. /\ D \in Seq(Word) /\ Len(D) = Len(pending) - c
      /\ \A i \in 1 .. Len(pending) - c : D[i] = pending[i + c]
  BY <1>2, HeadTailProperties DEF Queue!Dropped, PipeCycle
<1>4. /\ Len(pending') = Len(pending) - c + n
      /\ \A i \in 1 .. Len(pending) - c : pending'[i] = pending[i + c]
      /\ issue => pending'[Len(pending) - c + 1] = w
  <2>1. CASE issue
    <3>1. pending' = D \o <<w>> /\ n = 1
      BY <2>1 DEF PipeCycle
    <3>2. <<w>> \in Seq(Word) /\ Len(<<w>>) = 1 /\ <<w>>[1] = w
      OBVIOUS
    <3>3. /\ Len(D \o <<w>>) = Len(pending) - c + 1
          /\ \A i \in 1 .. Len(pending) - c + 1 :
               (D \o <<w>>)[i] = IF i <= Len(pending) - c THEN D[i] ELSE <<w>>[i - (Len(pending) - c)]
      <4> HIDE DEF D, c
      <4> QED BY <1>3, <3>2, ConcatProperties
    <3>4. (D \o <<w>>)[Len(pending) - c + 1] = w
      <4>1. /\ Len(pending) - c + 1 \in 1 .. Len(pending) - c + 1
            /\ ~(Len(pending) - c + 1 <= Len(pending) - c)
            /\ Len(pending) - c + 1 - (Len(pending) - c) = 1
        BY <1>2
      <4> HIDE DEF D, c
      <4> QED BY <3>2, <3>3, <4>1
    <3>5. \A i \in 1 .. Len(pending) - c :
            i \in 1 .. Len(pending) - c + 1 /\ (D \o <<w>>)[i] = D[i]
      <4> HIDE DEF D, c
      <4> QED BY <1>2, <3>3
    <3> HIDE DEF D, c, n
    <3> QED BY <1>3, <3>1, <3>3, <3>4, <3>5
  <2>2. CASE ~issue
    <3>1. pending' = D \o <<>> /\ n = 0
      BY <2>2 DEF PipeCycle
    <3>2. pending' = D
      <4> HIDE DEF D
      <4> QED BY <1>3, <3>1, ConcatEmptySeq
    <3> QED BY <1>2, <1>3, <2>2, <3>1, <3>2
  <2> QED BY <2>1, <2>2
<1> HIDE DEF c, n, D
<1>5. /\ 0 \in Occupied' <=> issue \/ (0 \in Occupied /\ ~Dispatch(mmuReady))
      /\ Dispatch(mmuReady) => 0 \in Occupied
      /\ 1 \in Occupied' => Dispatch(mmuReady)
      /\ Legal => (1 \in Occupied' <=> Dispatch(mmuReady))
      /\ 2 \in Occupied' <=> 1 \in Occupied
      /\ 3 \in Occupied' <=> 2 \in Occupied
      /\ 3 \in Occupied <=> Committing
  BY PlacesMove
<1>6. issue => 0 \notin Occupied \/ Dispatch(mmuReady)
  BY DEF PipeCycle, Occupied
<1>7. Legal' <=> Legal
  BY DEF Legal, PipeCycle
\* An occupied place before MEM3 keeps its word when the oldest is dropped.
<1>8. \A j \in {0, 1, 2} : j \in Occupied =>
        at[j] - c \in 1 .. Len(pending) - c /\ pending'[at[j] - c] = pending[at[j]]
  <2> SUFFICES ASSUME NEW j \in {0, 1, 2}, j \in Occupied
               PROVE  /\ at[j] - c \in 1 .. Len(pending) - c
                      /\ pending'[at[j] - c] = pending[at[j]]
    OBVIOUS
  <2>1. at[j] \in 1 .. Len(pending)
    BY <1>1 DEF QueuedAt
  <2>2. Committing => at[3] \in 1 .. Len(pending) /\ at[3] < at[j]
    BY <1>1, <1>5 DEF QueuedAt
  <2>3. at[j] - c \in 1 .. Len(pending) - c /\ (at[j] - c) + c = at[j]
    BY <1>2, <2>1, <2>2
  <2> QED BY <1>4, <2>3
<1>9. PICK new \in [Place -> Int] :
        /\ new[0] = (IF issue THEN Len(pending) - c + 1 ELSE at[0] - c)
        /\ \A k \in {1, 2, 3} : new[k] = at[k - 1] - c
  <2> DEFINE first == IF issue THEN Len(pending) - c + 1 ELSE at[0] - c
             f == [k \in Place |-> IF k = 0 THEN first ELSE at[k - 1] - c]
  <2>1. at[0] \in Int /\ at[1] \in Int /\ at[2] \in Int
    BY <1>1 DEF Place
  <2>2. first \in Int
    BY <1>2, <2>1
  <2> HIDE DEF first
  <2>3. f \in [Place -> Int] /\ f[0] = first /\ \A k \in {1, 2, 3} : f[k] = at[k - 1] - c
    BY <1>2, <2>1, <2>2 DEF Place
  <2> HIDE DEF f
  <2> QED BY <2>3 DEF first
<1>10. \A k \in {1, 2, 3} : k \in Occupied' => k - 1 \in Occupied
  BY <1>5
<1>11. \A k \in Occupied' : k \in {0, 1, 2, 3}
  BY DEF Occupied, Place
<1>12. ASSUME NEW k \in Occupied'
       PROVE  new[k] \in 1 .. Len(pending') /\ Matches(k, pending[new[k]])'
  <2>1. CASE k = 0 /\ issue
    <3>1. new[0] = Len(pending) - c + 1 /\ new[0] \in 1 .. Len(pending')
      BY <1>2, <1>4, <1>9, <2>1
    <3>2. isd' = pending'[new[0]]
      BY <1>4, <2>1, <3>1 DEF PipeCycle
    <3> QED BY <2>1, <3>1, <3>2 DEF Matches
  <2>2. CASE k = 0 /\ ~issue
    <3>1. 0 \in Occupied /\ new[0] = at[0] - c /\ isd' = isd
      BY <1>5, <1>9, <2>2 DEF PipeCycle
    <3>2. isd = pending[at[0]]
      BY <1>1, <3>1 DEF QueuedAt, Matches
    <3>3. new[0] \in 1 .. Len(pending') /\ pending'[new[0]] = isd'
      BY <1>2, <1>4, <1>8, <2>2, <3>1, <3>2
    <3> QED BY <2>2, <3>3 DEF Matches
  <2>3. CASE k \in {1, 2, 3}
    <3>1. k - 1 \in Occupied /\ k - 1 \in {0, 1, 2} /\ new[k] = at[k - 1] - c
      BY <1>9, <1>10, <2>3
    <3>2. new[k] \in 1 .. Len(pending') /\ pending'[new[k]] = pending[at[k - 1]]
      BY <1>2, <1>4, <1>8, <3>1
    <3>3. Matches(k - 1, pending[at[k - 1]])
      BY <1>1, <3>1 DEF QueuedAt
    <3>4. IsLive(k - 1)' => stage'[k - 1].pc = pending'[new[k]]
      <4>1. /\ stage'[0] = Dispatched(mmuReady, v)
            /\ stage'[1] = stage[0] /\ stage'[2] = stage[1]
        BY StageMoves DEF PipeCycle, EX1, EX2, MEM3
      <4>2. stage'[0].kind = "live" => stage'[0].pc = isd
        BY <4>1 DEF Dispatched, Bubble, Poisoned, Live
      <4> QED BY <2>3, <3>2, <3>3, <4>1, <4>2 DEF Matches, IsLive
    <3> QED BY <2>3, <3>2, <3>4 DEF Matches
  <2> QED BY <1>11, <2>1, <2>2, <2>3
<1>13. ASSUME NEW j \in Occupied', NEW k \in Occupied', j < k
       PROVE  new[k] < new[j]
  <2>1. k \in {1, 2, 3} /\ k - 1 \in Occupied /\ new[k] = at[k - 1] - c
    <3>1. j \in {0, 1, 2, 3} /\ k \in {0, 1, 2, 3}
      BY <1>11
    <3>2. k \in {1, 2, 3}
      BY <3>1, <1>13
    <3> QED BY <1>9, <1>10, <3>2
  <2>2. at[k - 1] \in 1 .. Len(pending)
    BY <1>1, <2>1 DEF QueuedAt
  <2>3. CASE j = 0 /\ issue
    BY <1>2, <1>9, <2>1, <2>2, <2>3
  <2>4. CASE j = 0 /\ ~issue
    <3>1. 0 \in Occupied /\ k # 1 /\ new[0] = at[0] - c
      BY <1>5, <1>9, <2>4
    <3>2. at[k - 1] < at[0]
      BY <1>1, <2>1, <3>1 DEF QueuedAt
    <3>3. at[0] \in 1 .. Len(pending)
      BY <1>1, <3>1 DEF QueuedAt
    <3> QED BY <1>2, <2>1, <2>2, <2>4, <3>1, <3>2, <3>3
  <2>5. CASE j \in {1, 2, 3}
    <3>1. j - 1 \in Occupied /\ new[j] = at[j - 1] - c
      BY <1>9, <1>10, <2>5
    <3>2. at[k - 1] < at[j - 1] /\ at[j - 1] \in 1 .. Len(pending)
      BY <1>1, <1>13, <2>1, <2>5, <3>1 DEF QueuedAt
    <3> QED BY <1>2, <2>1, <2>2, <3>1, <3>2
  <2> QED BY <1>11, <2>3, <2>4, <2>5
<1>14. /\ Count(0)' \in {0, 1} /\ Count(0) \in {0, 1} /\ Count(1)' \in {0, 1}
       /\ Count(1) \in {0, 1} /\ Count(2) \in {0, 1} /\ Count(3) \in {0, 1}
       /\ Count(2)' = Count(1) /\ Count(3)' = Count(2) /\ Count(3) = c
       /\ Count(0)' + Count(1)' <= Count(0) + n
       /\ Legal => Count(0)' + Count(1)' = Count(0) + n
       /\ Legal /\ issue => Count(1)' = Count(0)
       /\ 0 \in Occupied' /\ ~issue => Count(1)' = 0
  <2>1. /\ Count(0)' \in {0, 1} /\ Count(0) \in {0, 1} /\ Count(1)' \in {0, 1}
        /\ Count(1) \in {0, 1} /\ Count(2) \in {0, 1} /\ Count(3) \in {0, 1}
        /\ Count(0) = 1 <=> 0 \in Occupied
        /\ Count(0)' = 1 <=> 0 \in Occupied'
        /\ Count(1)' = 1 <=> 1 \in Occupied'
        /\ Count(3) = 1 <=> 3 \in Occupied
    BY DEF Count
  <2>2. Count(2)' = Count(1) /\ Count(3)' = Count(2)
    BY <1>5 DEF Count
  <2>3. Count(3) = c
    BY <1>2, <1>5, <2>1
  <2>4. CASE issue
    BY <1>2, <1>5, <1>6, <2>1, <2>2, <2>3, <2>4
  <2>5. CASE ~issue
    BY <1>2, <1>5, <1>6, <2>1, <2>2, <2>3, <2>5
  <2> QED BY <2>4, <2>5
<1>15. Occupants <= Len(pending) /\ (Legal => Occupants = Len(pending))
  BY DEF QueuedInOrder
<1>16. /\ Occupants' <= Len(pending')
       /\ Legal' => Occupants' = Len(pending')
  BY <1>2, <1>4, <1>7, <1>14, <1>15 DEF Occupants
<1>17. ASSUME Legal', NEW k \in Occupied' PROVE new[k] = Older(k)' + 1
  <2>1. \A j \in Occupied : at[j] = Older(j) + 1
    BY <1>1, <1>7, <1>17 DEF QueuedAt
  <2>2. /\ Older(0) = Count(1) + Count(2) + Count(3)
        /\ Older(1) = Count(2) + Count(3) /\ Older(2) = Count(3)
        /\ Older(0)' = Count(1)' + Count(2)' + Count(3)'
        /\ Older(1)' = Count(2)' + Count(3)'
        /\ Older(2)' = Count(3)' /\ Older(3)' = 0
    BY <1>14 DEF Older
  <2>3. CASE k \in {1, 2, 3}
    <3>1. k - 1 \in Occupied /\ new[k] = at[k - 1] - c
      BY <1>9, <1>10, <2>3
    <3>2. at[k - 1] = Older(k - 1) + 1
      BY <2>1, <3>1
    <3>3. CASE k = 1
      BY <1>2, <1>14, <2>2, <3>1, <3>2, <3>3
    <3>4. CASE k = 2
      BY <1>2, <1>14, <2>2, <3>1, <3>2, <3>4
    <3>5. CASE k = 3
      BY <1>2, <1>14, <2>2, <3>1, <3>2, <3>5
    <3> QED BY <2>3, <3>3, <3>4, <3>5
  <2>4. CASE k = 0 /\ issue
    <3>1. new[0] = Count(0) + Count(1) + Count(2) + Count(3) - c + 1
      BY <1>2, <1>7, <1>9, <1>14, <1>15, <1>17, <2>4 DEF Occupants
    <3> QED BY <1>7, <1>14, <1>17, <2>2, <2>4, <3>1
  <2>5. CASE k = 0 /\ ~issue
    <3>1. 0 \in Occupied /\ new[0] = at[0] - c
      BY <1>5, <1>9, <2>5
    <3>2. at[0] = Older(0) + 1
      BY <2>1, <3>1
    <3>3. Count(1)' = 0
      BY <1>14, <1>17, <2>5
    <3> QED BY <1>2, <1>14, <2>2, <2>5, <3>1, <3>2, <3>3
  <2> QED BY <1>11, <2>3, <2>4, <2>5
<1>18. QueuedAt(new)'
  BY <1>12, <1>13, <1>17 DEF QueuedAt
<1> QED BY <1>9, <1>16, <1>18 DEF QueuedInOrder

LEMMA RedirectQueued ==
  ASSUME TypeOK, QueuedInOrder, NEW mmuReady \in BOOLEAN, NEW v \in Answers,
         Redirect(mmuReady, v)
  PROVE  QueuedInOrder'
<1>1. Queue!Dropped(pending, Committing) \in Seq(Word)
  <2>1. Committing \in BOOLEAN /\ (Committing => pending # <<>>)
    BY DEF Redirect, Queue!Clear, Committing
  <2> QED BY <2>1, DroppedType DEF TypeOK
<1>2. pending' = Queue!Dropped(pending, Committing) \o <<>>
  BY <1>1, ConcatEmptySeq DEF Redirect, Queue!Clear
<1>3. PipeCycle(mmuReady, v, FALSE, 0)
  BY <1>2 DEF PipeCycle, Redirect, Queue!Clear
<1> QED BY <1>3, PipeQueued, AnswersType, WordFacts

LEMMA FlowQueued ==
  ASSUME TypeOK, QueuedInOrder, NEW push \in Pushes, NEW mmuReady \in BOOLEAN,
         NEW v \in Answers, Flow(push, mmuReady, v)
  PROVE  QueuedInOrder'
<1> DEFINE issue == /\ unread # <<>>
                    /\ isd = None \/ Dispatch(mmuReady)
                    /\ ~Mispredict
<1>1. issue \in BOOLEAN
  BY DEF Mispredict
<1>2. CASE issue
  <2>1. Head(unread) \in Word
    BY <1>2, HeadTailProperties DEF TypeOK
  <2>2. PipeCycle(mmuReady, v, TRUE, Head(unread))
    BY <1>2 DEF PipeCycle, Flow, Queue!Step
  <2> QED BY <2>1, <2>2, PipeQueued, AnswersType
<1>3. CASE ~issue
  <2>1. PipeCycle(mmuReady, v, FALSE, 0)
    BY <1>3 DEF PipeCycle, Flow, Queue!Step
  <2> QED BY <2>1, PipeQueued, AnswersType, WordFacts
<1> QED BY <1>2, <1>3

LEMMA QueuedInv == TypeOK /\ QueuedInOrder /\ [Next]_vars => QueuedInOrder'
<1> SUFFICES ASSUME TypeOK, QueuedInOrder, [Next]_vars PROVE QueuedInOrder'
  OBVIOUS
<1>1. CASE UNCHANGED vars
  BY <1>1 DEF vars, QueuedInOrder, QueuedAt, Occupants, Older, Count, Occupied,
              Matches, IsLive, Legal
<1>2. CASE Next
  BY <1>2, RollbackQueued, RedirectQueued, FlowQueued DEF Next
<1> QED BY <1>1, <1>2

\* An uncommitted word of the pipe has its place.
LEMMA PlaceOf ==
  ASSUME NEW s \in InPipe
  PROVE  /\ s + 1 \in Occupied /\ s + 1 # 0
         /\ \A w : Matches(s + 1, w) => (IsLive(s) => stage[s].pc = w)
<1>1. s \in {0, 1, 2} /\ stage[s] # Bubble /\ (s + 1) - 1 = s
  BY DEF InPipe, EX1, EX2, MEM3
<1> QED BY <1>1 DEF Occupied, Place, Matches

LEMMA CheckpointFromQueued ==
  ASSUME TypeOK, QueuedInOrder
  PROVE  CheckpointNotAhead /\ CheckpointExact
<1>1. PICK at \in [Place -> Int] : QueuedAt(at)
  BY DEF QueuedInOrder
<1>2. NumInPipe <= Len(pending) /\ (Legal => NumInPipe = Len(pending))
  BY OccupantsInPipe DEF QueuedInOrder
<1>3. ASSUME NEW s \in InPipe, IsLive(s)
      PROVE  \E k \in 1 .. Len(pending) : pending[k] = stage[s].pc
  <2>1. at[s + 1] \in 1 .. Len(pending) /\ Matches(s + 1, pending[at[s + 1]])
    BY <1>1, PlaceOf DEF QueuedAt
  <2> QED BY <1>3, <2>1, PlaceOf
<1>4. ASSUME Legal, IsLive(MEM3) PROVE Head(pending) = stage[MEM3].pc
  <2>1. MEM3 \in InPipe /\ MEM3 + 1 = 3
    BY <1>4 DEF InPipe, IsLive, Bubble, MEM3
  <2>2. 3 \in Occupied /\ \A w : Matches(3, w) => stage[MEM3].pc = w
    BY <1>4, <2>1, PlaceOf
  <2>3. at[3] = 1 /\ 1 \in 1 .. Len(pending) /\ Matches(3, pending[at[3]])
    BY <1>1, <1>4, <2>2 DEF QueuedAt, Older
  <2>4. pending \in Seq(Word)
    BY DEF TypeOK
  <2> QED BY <2>2, <2>3, <2>4
<1> QED BY <1>2, <1>3, <1>4 DEF CheckpointNotAhead, CheckpointExact

\* Whatever is squashed, replayed or does not decode, a rollback gives out again
\* every word that a miss removes from the pipe (bp_be_calculator_top.v:530,
\* bp_be_director.v:186-212).
THEOREM CheckpointNeverAhead == Spec => []CheckpointNotAhead
BY InitType, NextType, InitQueued, QueuedInv, CheckpointFromQueued, PTL DEF Spec

\* If every word decodes, a rollback starts with the instruction that missed and
\* no slot of the queue is lost (bp_be_calculator_top.v:530).
THEOREM CheckpointStaysExact == Spec => []CheckpointExact
BY InitType, NextType, InitQueued, QueuedInv, CheckpointFromQueued, PTL DEF Spec

-----------------------------------------------------------------------------
(* One instruction at a time.                                              *)

\* The pc after the instruction in w.
NextPc(w) ==
  IF Taken(prog[w.pc], w.a, w.b) THEN Target(prog[w.pc], w.pc, w.a)
  ELSE Add(w.pc, 1)

\* The instructions of the pipe that will take effect follow one another, and
\* npc is the pc after the youngest of them, but for the one in EX1.
PcsFollow ==
  /\ IsLive(EX1) => npc = stage[EX1].pc
  /\ IsLive(EX2) => npc = NextPc(stage[EX2])
  /\ IsLive(MEM3) =>
       NextPc(stage[MEM3]) = IF IsLive(EX2) THEN stage[EX2].pc ELSE npc

\* Register r as the instruction in stage s has to see it.
Seen(s, r) ==
  IF r = 0 THEN 0
  ELSE IF s < EX2 /\ WritesReg(EX2, r) THEN Result(EX2, 0)
  ELSE IF s < MEM3 /\ WritesReg(MEM3, r) THEN Result(MEM3, 0)
  ELSE ArchRegs[r]

\* It has seen it so unless it was read stale, and no load that is to write it
\* is still on its way.
OperandsRight ==
  \A s \in {EX1, EX2, MEM3} : IsLive(s) =>
    /\ InstrOf(s).op # "illegal"
    /\ InstrOf(s).rs1 \notin stage[s].stale => stage[s].a = Seen(s, InstrOf(s).rs1)
    /\ InstrOf(s).rs2 \notin stage[s].stale => stage[s].b = Seen(s, InstrOf(s).rs2)
    /\ \A t \in {EX2, MEM3}, r \in Reads(InstrOf(s)) :
         t > s /\ WritesReg(t, r) => InstrOf(t).op # "load"

\* The forwarding network, stage by stage.
LEMMA BypassIs ==
  ASSUME NEW r, NEW v
  PROVE  Bypass(r, v) = IF r = 0 THEN 0
                        ELSE IF WritesReg(EX1, r) THEN Result(EX1, v)
                        ELSE IF WritesReg(EX2, r) THEN Result(EX2, v)
                        ELSE IF WritesReg(MEM3, r) THEN Result(MEM3, v)
                        ELSE IF WritesReg(IWB, r) THEN Result(IWB, v)
                        ELSE irf[r]
<1> DEFINE W == {s \in Stage : WritesReg(s, r)}
           y == CHOOSE s \in W : \A t \in W : s <= t
<1>1. /\ W \subseteq {0, 1, 2, 3}
      /\ (0 \in W <=> WritesReg(EX1, r)) /\ (1 \in W <=> WritesReg(EX2, r))
      /\ (2 \in W <=> WritesReg(MEM3, r)) /\ (3 \in W <=> WritesReg(IWB, r))
  BY DEF Stage, EX1, EX2, MEM3, IWB
<1>2. Bypass(r, v) = IF r = 0 THEN 0 ELSE IF W = {} THEN irf[r] ELSE Result(y, v)
  BY DEF Bypass
<1> HIDE DEF W
<1>3. ASSUME NEW s \in W, \A t \in W : s <= t PROVE y = s
  <2>1. \A t \in W : t \in {0, 1, 2, 3}
    BY <1>1
  <2>2. y \in W /\ \A t \in W : y <= t
    BY <1>3
  <2>3. y <= s /\ s <= y
    BY <1>3, <2>2
  <2> HIDE DEF y
  <2> QED BY <2>1, <2>2, <2>3
<1> HIDE DEF y
<1>4. CASE 0 \in W
  <2>1. y = 0
    BY <1>1, <1>3, <1>4
  <2> QED BY <1>1, <1>2, <1>4, <2>1 DEF EX1
<1>5. CASE 0 \notin W /\ 1 \in W
  <2>1. y = 1
    BY <1>1, <1>3, <1>5
  <2> QED BY <1>1, <1>2, <1>5, <2>1 DEF EX2
<1>6. CASE 0 \notin W /\ 1 \notin W /\ 2 \in W
  <2>1. y = 2
    BY <1>1, <1>3, <1>6
  <2> QED BY <1>1, <1>2, <1>6, <2>1 DEF MEM3
<1>7. CASE 0 \notin W /\ 1 \notin W /\ 2 \notin W /\ 3 \in W
  <2>1. y = 3
    BY <1>1, <1>3, <1>7
  <2> QED BY <1>1, <1>2, <1>7, <2>1 DEF IWB
<1>8. CASE W = {}
  BY <1>1, <1>2, <1>8
<1> QED BY <1>1, <1>4, <1>5, <1>6, <1>7, <1>8

LEMMA StageNames ==
  /\ EX1 \in Stage /\ EX2 \in Stage /\ MEM3 \in Stage /\ IWB \in Stage
  /\ EX1 = 0 /\ EX2 = 1 /\ MEM3 = 2 /\ IWB = 3
BY DEF Stage, EX1, EX2, MEM3, IWB

\* What a cycle moves on.
LEMMA CycleMoves ==
  ASSUME TypeOK, NEW d, NEW v, Advance(d, v), prog' = prog
  PROVE  /\ stage'[EX1] = d /\ stage'[EX2] = stage[EX1]
         /\ stage'[MEM3] = stage[EX2] /\ stage'[IWB] = Completed(v)
         /\ IsLive(EX2)' <=> IsLive(EX1)
         /\ IsLive(MEM3)' <=> IsLive(EX2)
         /\ IsLive(IWB)' <=> IsLive(MEM3)
         /\ InstrOf(EX2)' = InstrOf(EX1) /\ InstrOf(MEM3)' = InstrOf(EX2)
         /\ IsLive(MEM3) => InstrOf(IWB)' = InstrOf(MEM3)
<1>1. /\ stage'[EX1] = d /\ stage'[EX2] = stage[EX1]
      /\ stage'[MEM3] = stage[EX2] /\ stage'[IWB] = Completed(v)
  BY DEF Advance, Stage, EX1, EX2, MEM3, IWB
<1>2. IsLive(MEM3) => stage[MEM3] \in LiveWords
  BY StageType, StageNames
<1>3. IsLive(MEM3) => /\ Completed(v).kind = "live"
                      /\ Completed(v).pc = stage[MEM3].pc
  BY <1>2 DEF Completed, LiveWords
<1>4. IsLive(MEM3) <=> Completed(v).kind = "live"
  BY <1>3 DEF Completed, IsLive
<1> QED BY <1>1, <1>3, <1>4 DEF IsLive, InstrOf, EX1, EX2, MEM3, IWB

\* What is forwarded stays what it is, but for a load that is answered.
LEMMA ResultMoves ==
  ASSUME TypeOK, NEW d, NEW v, Advance(d, v), prog' = prog, NEW r
  PROVE  /\ WritesReg(EX2, r)' <=> WritesReg(EX1, r)
         /\ WritesReg(MEM3, r)' <=> WritesReg(EX2, r)
         /\ WritesReg(IWB, r)' <=> WritesReg(MEM3, r)
         /\ \A u : InstrOf(EX1).op # "load" => Result(EX2, 0)' = Result(EX1, u)
         /\ \A u : InstrOf(EX2).op # "load" => Result(MEM3, 0)' = Result(EX2, u)
         /\ \A u : InstrOf(MEM3).op # "load" => Result(MEM3, u) = Result(MEM3, v)
         /\ IsLive(MEM3) => Result(IWB, 0)' = Result(MEM3, v)
<1>1. IsLive(MEM3) => /\ stage'[IWB].pc = stage[MEM3].pc
                      /\ stage'[IWB].a = stage[MEM3].a
                      /\ stage'[IWB].b = stage[MEM3].b
                      /\ stage'[IWB].loaded = v
  <2>1. IsLive(MEM3) => stage[MEM3] \in LiveWords
    BY StageType, StageNames
  <2>2. stage'[IWB] = Completed(v)
    BY CycleMoves
  <2> QED BY <2>1, <2>2 DEF Completed, LiveWords
<1>2. /\ WritesReg(EX2, r)' <=> WritesReg(EX1, r)
      /\ WritesReg(MEM3, r)' <=> WritesReg(EX2, r)
      /\ WritesReg(IWB, r)' <=> WritesReg(MEM3, r)
  BY CycleMoves DEF WritesReg, Writes
<1>3. \A u : InstrOf(EX1).op # "load" => Result(EX2, 0)' = Result(EX1, u)
  BY CycleMoves DEF Result, IntResult, Add
<1>4. \A u : InstrOf(EX2).op # "load" => Result(MEM3, 0)' = Result(EX2, u)
  BY CycleMoves DEF Result, IntResult, Add
<1>5. \A u : InstrOf(MEM3).op # "load" => Result(MEM3, u) = Result(MEM3, v)
  BY DEF Result
<1>6. IsLive(MEM3) => Result(IWB, 0)' = Result(MEM3, v)
  BY <1>1, CycleMoves, StageNames DEF Result, IntResult, Add
<1> QED BY <1>2, <1>3, <1>4, <1>5, <1>6

\* The registers after a cycle are those before it with what leaves MEM3.
LEMMA ArchStep ==
  ASSUME TypeOK, NEW d, NEW v, Advance(d, v), Writeback, prog' = prog
  PROVE  \A r \in Reg : ArchRegs'[r] = IF WritesReg(MEM3, r) THEN Result(MEM3, v)
                                       ELSE ArchRegs[r]
<1> SUFFICES ASSUME NEW r \in Reg
             PROVE  ArchRegs'[r] = IF WritesReg(MEM3, r) THEN Result(MEM3, v)
                                   ELSE ArchRegs[r]
  OBVIOUS
<1>1. ArchRegs'[r] = IF WritesReg(IWB, r)' THEN Result(IWB, 0)' ELSE rf'[r]
  BY DEF ArchRegs, WritesReg, Writes, InstrOf, IsLive, Result, IntResult, Add
<1>2. rf'[r] = ArchRegs[r]
  BY DEF Writeback, ArchRegs
<1>3. WritesReg(MEM3, r) => IsLive(MEM3)
  BY DEF WritesReg
<1> QED BY <1>1, <1>2, <1>3, ResultMoves

\* Every cycle but that of a miss.
Moves(mmuReady, v) ==
  /\ Advance(Dispatched(mmuReady, v), v)
  /\ Writeback
  /\ npc' = Expected
  /\ prog' = prog

\* Redirect and Flow are such cycles.
LEMMA NotMissMoves ==
  /\ \A m, v : Redirect(m, v) => Moves(m, v)
  /\ \A push, m, v : Flow(push, m, v) => Moves(m, v)
BY DEF Redirect, Flow, Moves

\* What enters EX1 as an instruction is the expected one, with what is
\* forwarded to it.
LEMMA EntersLive ==
  ASSUME TypeOK, NEW m, NEW v, Moves(m, v), IsLive(EX1)'
  PROVE  /\ isd \in Word /\ isd = Expected
         /\ prog[isd] \in Instr /\ prog[isd].op # "illegal" /\ ~DataHazard
         /\ stage'[EX1].pc = isd
         /\ stage'[EX1].a = Bypass(prog[isd].rs1, v)
         /\ stage'[EX1].b = Bypass(prog[isd].rs2, v)
         /\ stage'[EX1].stale = Stale
<1>1. stage'[EX1] = Dispatched(m, v)
  BY CycleMoves DEF Moves
<1>2. Dispatched(m, v).kind = "live"
  BY <1>1 DEF IsLive, EX1
<1>3. /\ Dispatched(m, v)
           = Live(isd, Bypass(prog[isd].rs1, v), Bypass(prog[isd].rs2, v), Stale)
      /\ isd # None /\ ~Mispredict /\ ~DataHazard /\ prog[isd].op # "illegal"
  BY <1>2 DEF Dispatched, Dispatch, Bubble, Poisoned
<1>4. isd \in Word /\ isd = Expected
  BY <1>3 DEF TypeOK, Mispredict
<1> QED BY <1>1, <1>3, <1>4, ProgType DEF Live, TypeOK

\* The pc after EX1, by the instruction in it.
LEMMA ExpectedIs ==
  ASSUME PcsFollow
  PROVE  Expected = IF IsLive(EX1) THEN NextPc(stage[EX1]) ELSE npc
BY DEF PcsFollow, Expected, NextPc

\* The pcs follow one another after every such cycle.
LEMMA PcsStep ==
  ASSUME TypeOK, PcsFollow, NEW m, NEW v, Moves(m, v)
  PROVE  PcsFollow'
<1>1. npc' = IF IsLive(EX1) THEN NextPc(stage[EX1]) ELSE npc
  BY ExpectedIs DEF Moves
<1>2. /\ IsLive(EX2)' <=> IsLive(EX1)
      /\ IsLive(MEM3)' <=> IsLive(EX2)
      /\ stage'[EX2] = stage[EX1] /\ stage'[MEM3] = stage[EX2]
  BY CycleMoves DEF Moves
<1>4. NextPc(stage[EX2])' = NextPc(stage[EX1]) /\ NextPc(stage[MEM3])' = NextPc(stage[EX2])
  BY <1>2 DEF NextPc, Taken, Target, Add, Moves, EX1, EX2, MEM3
<1>5. IsLive(EX1)' => npc' = stage'[EX1].pc
  BY EntersLive DEF Moves
<1> QED BY <1>1, <1>2, <1>4, <1>5 DEF PcsFollow, EX1, EX2, MEM3

\* Which registers an instruction looks at.
LEMMA Sources ==
  ASSUME NEW i \in Instr
  PROVE  /\ i.rs1 \in Reg /\ i.rs2 \in Reg
         /\ i.rs1 # 0 => i.rs1 \in Reads(i)
         /\ i.rs2 # 0 => i.rs2 \in Reads(i)
         /\ Reads(i) \subseteq Reg
BY DEF Instr, Reads

\* An operand stays what the instruction has to see while it moves on.
LEMMA SeenMoves ==
  ASSUME TypeOK, OperandsRight, NEW m, NEW v, Moves(m, v), NEW r \in Reg
  PROVE  /\ IsLive(EX1) /\ (r # 0 => r \in Reads(InstrOf(EX1)))
              => Seen(EX2, r)' = Seen(EX1, r)
         /\ IsLive(EX2) /\ (r # 0 => r \in Reads(InstrOf(EX2)))
              => Seen(MEM3, r)' = Seen(EX2, r)
<1>1. ArchRegs'[r] = IF WritesReg(MEM3, r) THEN Result(MEM3, v) ELSE ArchRegs[r]
  BY ArchStep DEF Moves
<1>2. Seen(EX2, r)' = IF r = 0 THEN 0
                      ELSE IF WritesReg(MEM3, r)' THEN Result(MEM3, 0)'
                      ELSE ArchRegs'[r]
  BY DEF Seen, EX2, MEM3
<1>3. Seen(MEM3, r)' = IF r = 0 THEN 0 ELSE ArchRegs'[r]
  BY DEF Seen, EX2, MEM3
<1>4. Seen(EX1, r) = IF r = 0 THEN 0
                     ELSE IF WritesReg(EX2, r) THEN Result(EX2, 0)
                     ELSE IF WritesReg(MEM3, r) THEN Result(MEM3, 0)
                     ELSE ArchRegs[r]
  BY DEF Seen, EX1, EX2, MEM3
<1>5. Seen(EX2, r) = IF r = 0 THEN 0
                     ELSE IF WritesReg(MEM3, r) THEN Result(MEM3, 0)
                     ELSE ArchRegs[r]
  BY DEF Seen, EX2, MEM3
<1>6. /\ WritesReg(MEM3, r)' <=> WritesReg(EX2, r)
      /\ InstrOf(EX2).op # "load" => Result(MEM3, 0)' = Result(EX2, 0)
      /\ InstrOf(MEM3).op # "load" => Result(MEM3, 0) = Result(MEM3, v)
  BY ResultMoves DEF Moves
<1>7. IsLive(EX1) /\ r \in Reads(InstrOf(EX1)) =>
        /\ WritesReg(EX2, r) => InstrOf(EX2).op # "load"
        /\ WritesReg(MEM3, r) => InstrOf(MEM3).op # "load"
  BY DEF OperandsRight, EX1, EX2, MEM3
<1>8. IsLive(EX2) /\ r \in Reads(InstrOf(EX2)) /\ WritesReg(MEM3, r) =>
        InstrOf(MEM3).op # "load"
  BY DEF OperandsRight, EX1, EX2, MEM3
<1> QED BY <1>1, <1>2, <1>3, <1>4, <1>5, <1>6, <1>7, <1>8

\* What is forwarded to EX1, or was read in time, is what the instruction has to
\* see.
LEMMA BypassRight ==
  ASSUME TypeOK, NEW m, NEW v, Moves(m, v), ~DataHazard, NEW r \in Reg,
         r # 0 => r \in Reads(prog[isd]), r \notin Stale
  PROVE  Seen(EX1, r)' = Bypass(r, v)
<1>1. ArchRegs'[r] = IF WritesReg(MEM3, r) THEN Result(MEM3, v) ELSE ArchRegs[r]
  BY ArchStep DEF Moves
<1>2. Seen(EX1, r)' = IF r = 0 THEN 0
                      ELSE IF WritesReg(EX2, r)' THEN Result(EX2, 0)'
                      ELSE IF WritesReg(MEM3, r)' THEN Result(MEM3, 0)'
                      ELSE ArchRegs'[r]
  BY DEF Seen, EX1, EX2, MEM3
<1>3. /\ WritesReg(EX2, r)' <=> WritesReg(EX1, r)
      /\ WritesReg(MEM3, r)' <=> WritesReg(EX2, r)
      /\ InstrOf(EX1).op # "load" => Result(EX2, 0)' = Result(EX1, v)
      /\ InstrOf(EX2).op # "load" => Result(MEM3, 0)' = Result(EX2, v)
  BY ResultMoves DEF Moves
<1>4. r # 0 => /\ WritesReg(EX1, r) => InstrOf(EX1).op # "load"
               /\ WritesReg(EX2, r) => InstrOf(EX2).op # "load"
  BY DEF DataHazard
<1>5. ArchRegs[r] = IF WritesReg(IWB, r) THEN Result(IWB, v) ELSE rf[r]
  BY DEF ArchRegs, Result, IWB, MEM3
<1>6. r # 0 => irf[r] = rf[r] \/ \E s \in Stage : WritesReg(s, r)
  BY DEF Stale, Forwarded
<1>7. (\E s \in Stage : WritesReg(s, r)) =>
        WritesReg(EX1, r) \/ WritesReg(EX2, r) \/ WritesReg(MEM3, r) \/ WritesReg(IWB, r)
  BY DEF Stage, EX1, EX2, MEM3, IWB
<1> QED BY <1>1, <1>2, <1>3, <1>4, <1>5, <1>6, <1>7, BypassIs

\* The operands are right after every such cycle.
LEMMA OperandsStep ==
  ASSUME TypeOK, OperandsRight, NEW m, NEW v, Moves(m, v)
  PROVE  OperandsRight'
<1>1. /\ stage'[EX2] = stage[EX1] /\ stage'[MEM3] = stage[EX2]
      /\ IsLive(EX2)' <=> IsLive(EX1)
      /\ IsLive(MEM3)' <=> IsLive(EX2)
      /\ InstrOf(EX2)' = InstrOf(EX1)
      /\ InstrOf(MEM3)' = InstrOf(EX2)
  <2>1. stage'[EX2] = stage[EX1] /\ stage'[MEM3] = stage[EX2] /\ prog' = prog
    BY CycleMoves DEF Moves
  <2> QED BY <2>1 DEF IsLive, InstrOf, EX1, EX2, MEM3
<1>2. \A r : /\ WritesReg(EX2, r)' <=> WritesReg(EX1, r)
             /\ WritesReg(MEM3, r)' <=> WritesReg(EX2, r)
  BY ResultMoves DEF Moves
<1>3. ASSUME IsLive(EX1)'
      PROVE  /\ InstrOf(EX1)'.op # "illegal"
             /\ InstrOf(EX1)'.rs1 \notin stage'[EX1].stale =>
                  stage'[EX1].a = Seen(EX1, InstrOf(EX1).rs1)'
             /\ InstrOf(EX1)'.rs2 \notin stage'[EX1].stale =>
                  stage'[EX1].b = Seen(EX1, InstrOf(EX1).rs2)'
             /\ \A r \in Reads(InstrOf(EX1))' :
                  /\ WritesReg(EX2, r)' => InstrOf(EX2)'.op # "load"
                  /\ WritesReg(MEM3, r)' => InstrOf(MEM3)'.op # "load"
  <2> PICK i : i = prog[isd]
    OBVIOUS
  <2>1. /\ i \in Instr /\ i.op # "illegal" /\ ~DataHazard
        /\ stage'[EX1].pc = isd
        /\ stage'[EX1].a = Bypass(i.rs1, v)
        /\ stage'[EX1].b = Bypass(i.rs2, v)
        /\ stage'[EX1].stale = Stale
    BY <1>3, EntersLive
  <2>2. InstrOf(EX1)' = i
    BY <2>1 DEF InstrOf, Moves, EX1
  <2>3. /\ i.rs1 \notin Stale => Seen(EX1, i.rs1)' = Bypass(i.rs1, v)
        /\ i.rs2 \notin Stale => Seen(EX1, i.rs2)' = Bypass(i.rs2, v)
    BY <2>1, Sources, BypassRight
  <2>4. \A r \in Reads(i) :
          /\ WritesReg(EX1, r) => InstrOf(EX1).op # "load"
          /\ WritesReg(EX2, r) => InstrOf(EX2).op # "load"
    BY <2>1 DEF DataHazard
  <2> QED BY <1>1, <1>2, <2>1, <2>2, <2>3, <2>4
<1>4. ASSUME IsLive(EX2)'
      PROVE  /\ InstrOf(EX2)'.op # "illegal"
             /\ InstrOf(EX2)'.rs1 \notin stage'[EX2].stale =>
                  stage'[EX2].a = Seen(EX2, InstrOf(EX2).rs1)'
             /\ InstrOf(EX2)'.rs2 \notin stage'[EX2].stale =>
                  stage'[EX2].b = Seen(EX2, InstrOf(EX2).rs2)'
             /\ \A r \in Reads(InstrOf(EX2))' :
                  WritesReg(MEM3, r)' => InstrOf(MEM3)'.op # "load"
  <2> PICK i : i = InstrOf(EX1)
    OBVIOUS
  <2>1. IsLive(EX1) /\ i \in Instr /\ InstrOf(EX2)' = i
    BY <1>1, <1>4, StageType, StageNames DEF IsLive, InstrOf, EX1, EX2, MEM3
  <2>2. /\ i.op # "illegal"
        /\ i.rs1 \notin stage[EX1].stale => stage[EX1].a = Seen(EX1, i.rs1)
        /\ i.rs2 \notin stage[EX1].stale => stage[EX1].b = Seen(EX1, i.rs2)
        /\ \A r \in Reads(i) : WritesReg(EX2, r) => InstrOf(EX2).op # "load"
    BY <2>1 DEF OperandsRight, EX1, EX2, MEM3
  <2>3. Seen(EX2, i.rs1)' = Seen(EX1, i.rs1) /\ Seen(EX2, i.rs2)' = Seen(EX1, i.rs2)
    BY <2>1, Sources, SeenMoves
  <2> QED BY <1>1, <1>2, <2>1, <2>2, <2>3
<1>5. ASSUME IsLive(MEM3)'
      PROVE  /\ InstrOf(MEM3)'.op # "illegal"
             /\ InstrOf(MEM3)'.rs1 \notin stage'[MEM3].stale =>
                  stage'[MEM3].a = Seen(MEM3, InstrOf(MEM3).rs1)'
             /\ InstrOf(MEM3)'.rs2 \notin stage'[MEM3].stale =>
                  stage'[MEM3].b = Seen(MEM3, InstrOf(MEM3).rs2)'
  <2> PICK i : i = InstrOf(EX2)
    OBVIOUS
  <2>1. IsLive(EX2) /\ i \in Instr /\ InstrOf(MEM3)' = i
    BY <1>1, <1>5, StageType, StageNames DEF IsLive, InstrOf, EX1, EX2, MEM3
  <2>2. /\ i.op # "illegal"
        /\ i.rs1 \notin stage[EX2].stale => stage[EX2].a = Seen(EX2, i.rs1)
        /\ i.rs2 \notin stage[EX2].stale => stage[EX2].b = Seen(EX2, i.rs2)
    BY <2>1 DEF OperandsRight
  <2>3. Seen(MEM3, i.rs1)' = Seen(EX2, i.rs1) /\ Seen(MEM3, i.rs2)' = Seen(EX2, i.rs2)
    BY <2>1, Sources, SeenMoves
  <2> QED BY <1>1, <2>1, <2>2, <2>3
<1> QED BY <1>3, <1>4, <1>5 DEF OperandsRight, EX1, EX2, MEM3

\* What every cycle keeps.
OrderInv == TypeOK /\ PcsFollow /\ OperandsRight

\* An empty pipe has nothing to follow and nothing to have seen.
LEMMA NoneLive ==
  ASSUME \A s \in {EX1, EX2, MEM3} : ~IsLive(s)
  PROVE  PcsFollow /\ OperandsRight
BY DEF PcsFollow, OperandsRight

\* A miss leaves an empty pipe.
LEMMA EmptiedPipe ==
  ASSUME NEW push, Rollback(push)
  PROVE  PcsFollow' /\ OperandsRight'
<1>1. \A s \in {EX1, EX2, MEM3} : stage'[s].kind # "live"
  BY StageNames DEF Rollback, Bubble
<1>2. ~IsLive(EX1)' /\ ~IsLive(EX2)' /\ ~IsLive(MEM3)'
  BY <1>1 DEF IsLive, EX1, EX2, MEM3
<1>3. PcsFollow'
  BY <1>2 DEF PcsFollow
<1>4. OperandsRight'
  <2>1. \A s \in {EX1, EX2, MEM3} : ~IsLive(s)'
    BY <1>1 DEF IsLive
  <2> QED BY <2>1 DEF OperandsRight, EX1, EX2, MEM3
<1> QED BY <1>3, <1>4

LEMMA OrderStutter ==
  ASSUME PcsFollow, OperandsRight, UNCHANGED vars
  PROVE  PcsFollow' /\ OperandsRight'
<1>1. stage' = stage /\ prog' = prog /\ npc' = npc /\ rf' = rf
  BY DEF vars
<1>2. PcsFollow'
  BY <1>1 DEF PcsFollow, NextPc, IsLive, Taken, Target, Add, EX1, EX2, MEM3
<1>3. \A s, r : /\ IsLive(s)' <=> IsLive(s)
                /\ InstrOf(s)' = InstrOf(s)
                /\ WritesReg(s, r)' <=> WritesReg(s, r)
                /\ Result(s, 0)' = Result(s, 0)
  BY <1>1 DEF IsLive, InstrOf, WritesReg, Writes, Result, IntResult, Add, MEM3
<1>4. ArchRegs' = ArchRegs
  BY <1>1 DEF ArchRegs, IsLive, InstrOf, WritesReg, Writes, Result, IntResult, Add, MEM3, IWB
<1>5. \A s, r : Seen(s, r)' = Seen(s, r)
  BY <1>3, <1>4 DEF Seen, EX2, MEM3
<1>6. OperandsRight'
  <2> SUFFICES ASSUME NEW s \in {EX1, EX2, MEM3}, IsLive(s)'
               PROVE  /\ InstrOf(s)'.op # "illegal"
                      /\ InstrOf(s)'.rs1 \notin stage'[s].stale =>
                           stage'[s].a = Seen(s, InstrOf(s).rs1)'
                      /\ InstrOf(s)'.rs2 \notin stage'[s].stale =>
                           stage'[s].b = Seen(s, InstrOf(s).rs2)'
                      /\ \A t \in {EX2, MEM3}, r \in Reads(InstrOf(s))' :
                           t > s /\ WritesReg(t, r)' => InstrOf(t)'.op # "load"
    BY DEF OperandsRight, EX1, EX2, MEM3
  <2> QED BY <1>1, <1>3, <1>5 DEF OperandsRight, Reads
<1> QED BY <1>2, <1>6

LEMMA OrderStep == OrderInv /\ [Next]_vars => OrderInv'
<1> SUFFICES ASSUME OrderInv, [Next]_vars PROVE OrderInv'
  OBVIOUS
<1>1. TypeOK'
  BY NextType DEF OrderInv
<1>2. CASE UNCHANGED vars
  BY <1>1, <1>2, OrderStutter DEF OrderInv
<1>3. ASSUME NEW push, Rollback(push) PROVE PcsFollow' /\ OperandsRight'
  BY <1>3, EmptiedPipe
<1>4. ASSUME NEW m, NEW v, Moves(m, v) PROVE PcsFollow' /\ OperandsRight'
  BY <1>4, PcsStep, OperandsStep DEF OrderInv
<1>5. CASE Next
  BY <1>1, <1>3, <1>4, <1>5, NotMissMoves DEF Next, OrderInv
<1> QED BY <1>2, <1>5

LEMMA OrderInit == Init => OrderInv
<1> SUFFICES ASSUME Init PROVE OrderInv
  OBVIOUS
<1>1. \A s \in {EX1, EX2, MEM3} : ~IsLive(s)
  BY StageNames DEF Init, IsLive, Bubble
<1> QED BY <1>1, InitType, NoneLive DEF OrderInv

\* The next instruction to take effect is the oldest of the pipe.
OldestPc ==
  IF IsLive(MEM3) THEN stage[MEM3].pc
  ELSE IF IsLive(EX2) THEN stage[EX2].pc
  ELSE IF IsLive(EX1) THEN stage[EX1].pc ELSE npc

LEMMA ArchPcIs == ArchPc = OldestPc
<1> SUFFICES ArchPc = IF IsLive(MEM3) THEN stage[MEM3].pc
                      ELSE IF IsLive(EX2) THEN stage[EX2].pc
                      ELSE IF IsLive(EX1) THEN stage[EX1].pc ELSE npc
  BY DEF OldestPc
<1> DEFINE y == CHOOSE s \in Uncommitted : \A t \in Uncommitted : t <= s
<1>1. /\ Uncommitted \subseteq {0, 1, 2}
      /\ 0 \in Uncommitted <=> IsLive(EX1)
      /\ 1 \in Uncommitted <=> IsLive(EX2)
      /\ 2 \in Uncommitted <=> IsLive(MEM3)
  BY DEF Uncommitted, EX1, EX2, MEM3
<1>2. ArchPc = IF Uncommitted = {} THEN npc ELSE stage[y].pc
  BY DEF ArchPc
<1>3. ASSUME NEW s \in Uncommitted, \A t \in Uncommitted : t <= s PROVE y = s
  <2>1. \A t \in Uncommitted : t \in {0, 1, 2}
    BY <1>1
  <2>2. y \in Uncommitted /\ \A t \in Uncommitted : t <= y
    BY <1>3
  <2>3. y <= s /\ s <= y
    BY <1>3, <2>2
  <2> HIDE DEF y
  <2> QED BY <2>1, <2>2, <2>3
<1> HIDE DEF y
<1>4. CASE 2 \in Uncommitted
  <2>1. y = 2
    BY <1>1, <1>3, <1>4
  <2> QED BY <1>1, <1>2, <1>4, <2>1 DEF MEM3
<1>5. CASE 2 \notin Uncommitted /\ 1 \in Uncommitted
  <2>1. y = 1
    BY <1>1, <1>3, <1>5
  <2> QED BY <1>1, <1>2, <1>5, <2>1 DEF EX2
<1>6. CASE 2 \notin Uncommitted /\ 1 \notin Uncommitted /\ 0 \in Uncommitted
  <2>1. y = 0
    BY <1>1, <1>3, <1>6
  <2> QED BY <1>1, <1>2, <1>6, <2>1 DEF EX1
<1>7. CASE Uncommitted = {}
  BY <1>1, <1>2, <1>7
<1> QED BY <1>1, <1>4, <1>5, <1>6, <1>7

LEMMA ArchPcThen == ArchPc' = OldestPc'
<1>1. (ArchPc = OldestPc)'
  BY ArchPcIs, PTL
<1> QED BY <1>1

\* The machine's instructions are the pipe's.
LEMMA SameIsa ==
  /\ Machine!Word = Word /\ Machine!Reg = Reg
  /\ \A x, y : Machine!Add(x, y) = Add(x, y)
  /\ \A i, r : Machine!Writes(i, r) <=> Writes(i, r)
  /\ \A i, p, a, b : Machine!IntResult(i, p, a, b) = IntResult(i, p, a, b)
  /\ \A i, a, b : Machine!Taken(i, a, b) <=> Taken(i, a, b)
  /\ \A i, p, a : Machine!Target(i, p, a) = Target(i, p, a)
BY DEF Machine!Word, Word, Machine!Reg, Reg, Machine!Add, Add,
       Machine!Writes, Writes, Machine!IntResult, IntResult,
       Machine!Taken, Taken, Machine!Target, Target

\* The registers of the program are a function, in every state.
LEMMA ArchRegsIs ==
  ArchRegs = [r \in Reg |-> ArchRegs[r]]
BY DEF ArchRegs

LEMMA ArchRegsThen == ArchRegs' = [r \in Reg |-> ArchRegs'[r]]
BY DEF ArchRegs

\* The pc after a cycle is that of the instruction after what leaves MEM3.
LEMMA PcMoves ==
  ASSUME TypeOK, PcsFollow, NEW m, NEW v, Moves(m, v)
  PROVE  ArchPc' = IF IsLive(MEM3) THEN NextPc(stage[MEM3]) ELSE ArchPc
<1>1. npc' = IF IsLive(EX1) THEN NextPc(stage[EX1]) ELSE npc
  BY ExpectedIs DEF Moves
<1>2. /\ IsLive(EX2)' <=> IsLive(EX1)
      /\ IsLive(MEM3)' <=> IsLive(EX2)
      /\ stage'[EX2] = stage[EX1] /\ stage'[MEM3] = stage[EX2]
  BY CycleMoves DEF Moves
<1>3. IsLive(EX1)' => npc' = stage'[EX1].pc
  BY PcsStep DEF PcsFollow, EX1
<1>4. ArchPc' = IF IsLive(MEM3)' THEN stage'[MEM3].pc
                ELSE IF IsLive(EX2)' THEN stage'[EX2].pc ELSE npc'
  BY <1>3, ArchPcThen DEF OldestPc, EX1, EX2, MEM3
<1>5. ArchPc' = IF IsLive(EX2) THEN stage[EX2].pc
                ELSE IF IsLive(EX1) THEN stage[EX1].pc ELSE npc
  BY <1>1, <1>2, <1>4
<1>6. ArchPc' = IF IsLive(EX2) THEN stage[EX2].pc ELSE npc
  BY <1>5 DEF PcsFollow
<1>7. IsLive(MEM3) => NextPc(stage[MEM3]) = IF IsLive(EX2) THEN stage[EX2].pc ELSE npc
  BY DEF PcsFollow
<1> QED BY <1>5, <1>6, <1>7, ArchPcIs DEF OldestPc

\* A cycle in which an instruction leaves MEM3 executes it on what it has read.
LEMMA ExecStep ==
  ASSUME TypeOK, PcsFollow, OperandsRight,
         NEW m, NEW v \in Answers, Moves(m, v), IsLive(MEM3)
  PROVE  ExecutesAsRead
<1> DEFINE w == stage[MEM3]
           i == prog[w.pc]
<1>1. /\ w \in LiveWords /\ i \in Instr /\ i = InstrOf(MEM3)
      /\ i.rs1 \in Reg /\ i.rs2 \in Reg /\ v \in Word
  BY StageType, StageNames, Sources, AnswersType DEF InstrOf
<1>2. ArchPc = w.pc
  BY ArchPcIs DEF OldestPc
<1>3. /\ i.op # "illegal"
      /\ i.rs1 \notin w.stale => w.a = Machine!Operand(i.rs1)
      /\ i.rs2 \notin w.stale => w.b = Machine!Operand(i.rs2)
  BY <1>1 DEF OperandsRight, Seen, EX2, MEM3, Machine!Operand
<1>4. ArchPc' = IF Taken(i, w.a, w.b) THEN Target(i, w.pc, w.a) ELSE Add(w.pc, 1)
  BY PcMoves DEF NextPc
<1>5. ArchRegs' = [r \in Reg |->
                     IF Writes(i, r)
                     THEN IF i.op = "load" THEN v ELSE IntResult(i, w.pc, w.a, w.b)
                     ELSE ArchRegs[r]]
  <2>1. \A r \in Reg : ArchRegs'[r] = IF WritesReg(MEM3, r) THEN Result(MEM3, v)
                                      ELSE ArchRegs[r]
    BY ArchStep DEF Moves
  <2>2. \A r \in Reg : WritesReg(MEM3, r) <=> Writes(i, r)
    BY DEF WritesReg, InstrOf
  <2>3. Result(MEM3, v) = IF i.op = "load" THEN v ELSE IntResult(i, w.pc, w.a, w.b)
    BY DEF Result, InstrOf
  <2> QED BY <2>1, <2>2, <2>3, ArchRegsThen
<1>6. Retiring' = CASE i.op = "load"  -> Machine!Access("load", Add(w.a, i.imm), v)
                    [] i.op = "store" -> Machine!Access("store", Add(w.a, i.imm), w.b)
                    [] OTHER -> Machine!NoAccess
  <2>1. stage'[IWB] = [w EXCEPT !.loaded = v] /\ prog' = prog
    BY CycleMoves DEF Moves, Completed
  <2>2. /\ stage'[IWB].kind = "live" /\ stage'[IWB].pc = w.pc
        /\ stage'[IWB].a = w.a /\ stage'[IWB].b = w.b /\ stage'[IWB].loaded = v
    BY <1>1, <2>1 DEF LiveWords, IsLive
  <2>3. prog'[stage'[IWB].pc] = i
    BY <2>1, <2>2
  <2> HIDE DEF i, w
  <2>4. Retiring' = IF i.op \in {"load", "store"}
                    THEN [op |-> i.op, addr |-> Add(w.a, i.imm),
                          data |-> IF i.op = "load" THEN v ELSE w.b]
                    ELSE [op |-> "none"]
    BY <2>2, <2>3 DEF Retiring, IsLive, InstrOf, IsMemOp, Add, IWB
  <2> QED BY <2>4 DEF Machine!Access, Machine!NoAccess
<1>7. prog' = prog
  BY DEF Moves
<1>8. prog[ArchPc] = i /\ w.a \in Word /\ w.b \in Word
  BY <1>1, <1>2 DEF LiveWords
<1>9. Machine!ExecuteOn(v, w.a, w.b)
  <2> HIDE DEF i, w
  <2> QED BY <1>2, <1>3, <1>4, <1>5, <1>6, <1>7, <1>8, SameIsa DEF Machine!ExecuteOn
<1> QED BY <1>1, <1>3, <1>8, <1>9 DEF ExecutesAsRead

\* In any other cycle nothing takes effect.
LEMMA IdleStep ==
  ASSUME TypeOK, PcsFollow, NEW m, NEW v, Moves(m, v), ~IsLive(MEM3)
  PROVE  Machine!Idle
<1>1. ArchPc' = ArchPc
  BY PcMoves
<1>2. ArchRegs' = ArchRegs
  <2>1. \A r \in Reg : ArchRegs'[r] = ArchRegs[r]
    BY ArchStep DEF Moves, WritesReg
  <2> QED BY <2>1, ArchRegsIs, ArchRegsThen
<1>3. Retiring' = Machine!NoAccess
  <2>1. ~IsLive(IWB)'
    BY CycleMoves DEF Moves
  <2> QED BY <2>1 DEF Retiring, IsLive, InstrOf, IWB, Machine!NoAccess
<1> QED BY <1>1, <1>2, <1>3 DEF Moves, Machine!Idle

\* A miss takes nothing back, and nothing takes effect with it.
LEMMA MissStep ==
  ASSUME NEW push, Rollback(push)
  PROVE  Machine!Idle
<1>1. \A s \in {EX1, EX2, MEM3, IWB} : stage'[s].kind # "live"
  BY StageNames DEF Rollback, Bubble
<1>2. ~IsLive(EX1)' /\ ~IsLive(EX2)' /\ ~IsLive(MEM3)' /\ ~IsLive(IWB)'
  BY <1>1 DEF IsLive, EX1, EX2, MEM3, IWB
<1>3. ArchPc' = ArchPc
  BY <1>2, ArchPcIs, ArchPcThen DEF OldestPc, Rollback
<1>4. ArchRegs' = ArchRegs
  <2>1. \A r \in Reg : ArchRegs'[r] = rf'[r]
    BY <1>2 DEF ArchRegs, WritesReg, IWB
  <2>2. \A r \in Reg : rf'[r] = ArchRegs[r]
    BY DEF Rollback, Writeback, ArchRegs
  <2> QED BY <2>1, <2>2, ArchRegsIs, ArchRegsThen
<1>5. Retiring' = Machine!NoAccess
  BY <1>2 DEF Retiring, IWB, Machine!NoAccess
<1> QED BY <1>3, <1>4, <1>5 DEF Rollback, Machine!Idle

\* Nor does anything in a step that changes nothing.
LEMMA StutterStep ==
  ASSUME UNCHANGED vars
  PROVE  UNCHANGED Machine!seqVars
<1>1. stage' = stage /\ prog' = prog /\ npc' = npc /\ rf' = rf
  BY DEF vars
<1>2. ArchPc' = ArchPc
  BY <1>1, ArchPcIs, ArchPcThen DEF OldestPc, IsLive, EX1, EX2, MEM3
<1>3. ArchRegs' = ArchRegs
  BY <1>1 DEF ArchRegs, IsLive, InstrOf, WritesReg, Writes, Result, IntResult,
              Add, MEM3, IWB
<1>4. Retiring' = Retiring
  BY <1>1 DEF Retiring, IsLive, InstrOf, IsMemOp, Add, IWB
<1> QED BY <1>1, <1>2, <1>3, <1>4 DEF Machine!seqVars

LEMMA OrderMaps ==
  OrderInv /\ [Next]_vars => [Machine!Idle \/ ExecutesAsRead]_(Machine!seqVars)
<1> SUFFICES ASSUME OrderInv, [Next]_vars
             PROVE  [Machine!Idle \/ ExecutesAsRead]_(Machine!seqVars)
  OBVIOUS
<1>1. CASE UNCHANGED vars
  BY <1>1, StutterStep
<1>2. ASSUME NEW push, Rollback(push) PROVE Machine!Idle
  BY <1>2, MissStep
<1>3. ASSUME NEW m, NEW v \in Answers, Moves(m, v)
      PROVE  Machine!Idle \/ ExecutesAsRead
  <2>1. CASE IsLive(MEM3)
    BY <1>3, <2>1, ExecStep DEF OrderInv
  <2>2. CASE ~IsLive(MEM3)
    BY <1>3, <2>2, IdleStep DEF OrderInv
  <2> QED BY <2>1, <2>2
<1>4. CASE Next
  BY <1>2, <1>3, <1>4, NotMissMoves DEF Next
<1> QED BY <1>1, <1>4

LEMMA MachineInit == Init => Machine!Init
<1> SUFFICES ASSUME Init PROVE Machine!Init
  OBVIOUS
<1>1. ~IsLive(EX1) /\ ~IsLive(EX2) /\ ~IsLive(MEM3) /\ ~IsLive(IWB)
  BY StageNames DEF Init, IsLive, Bubble
<1>2. ArchPc = 0
  BY <1>1, ArchPcIs DEF OldestPc, Init
<1>3. ArchRegs = rf
  <2>1. rf = [r \in Reg |-> rf[r]]
    BY BeIsaAssumption DEF Init
  <2> QED BY <1>1, <2>1 DEF ArchRegs, WritesReg
<1>4. Retiring = Machine!NoAccess
  BY <1>1 DEF Retiring, Machine!NoAccess
<1> QED BY <1>2, <1>3, <1>4 DEF Init, Machine!Init

\* Whatever is fetched, mispredicted, forwarded, stalled, missed and replayed,
\* the registers and the accesses to memory are those of the program executed
\* one instruction at a time, each operand right that was not read in the cycle
\* of its last write: an instruction takes effect when it leaves MEM3 without a
\* miss (bp_be_checker_top.v:7-9, bp_be_calculator_top.v's comp_stage and
\* exc_stage).
THEOREM PipeImplementsMachine == Spec => InOrderButStale
<1>1. Init => OrderInv /\ Machine!Init
  BY OrderInit, MachineInit
<1>2. OrderInv /\ [Next]_vars =>
        OrderInv' /\ [Machine!Idle \/ ExecutesAsRead]_(Machine!seqVars)
  BY OrderStep, OrderMaps
<1> QED BY <1>1, <1>2, PTL DEF Spec, InOrderButStale

-----------------------------------------------------------------------------
(* The register file that returns the new value.                           *)

LEMMA StaleStep ==
  NothingStale /\ irf = rf /\ OrderInv /\ [Next]_vars => NothingStale'
<1> SUFFICES ASSUME NothingStale, irf = rf, OrderInv, [Next]_vars
             PROVE  NothingStale'
  OBVIOUS
<1>1. CASE UNCHANGED vars
  BY <1>1 DEF vars, NothingStale, IsLive
<1>2. ASSUME NEW push, Rollback(push) PROVE NothingStale'
  BY <1>2 DEF Rollback, NothingStale, IsLive, Bubble
<1>3. ASSUME NEW m, NEW v, Moves(m, v) PROVE NothingStale'
  <2>1. IsLive(EX1)' => stage'[EX1].stale = {}
    BY <1>3, EntersLive DEF Stale, OrderInv
  <2>2. /\ stage'[EX2] = stage[EX1] /\ stage'[MEM3] = stage[EX2]
        /\ stage'[IWB] = Completed(v)
    BY <1>3, CycleMoves DEF Moves, OrderInv
  <2>3. stage[MEM3].kind = "live" => stage[MEM3] \in LiveWords
    BY StageType, StageNames DEF OrderInv, IsLive
  <2>4. Completed(v).kind = "live" =>
          stage[MEM3].kind = "live" /\ Completed(v).stale = stage[MEM3].stale
    BY <2>3 DEF Completed, IsLive, LiveWords
  <2>5. \A s \in Stage : s = EX1 \/ s = EX2 \/ s = MEM3 \/ s = IWB
    BY DEF Stage, EX1, EX2, MEM3, IWB
  <2>6. \A s \in Stage : stage[s].kind = "live" => stage[s].stale = {}
    BY DEF NothingStale, IsLive
  <2>7. \A s \in Stage : stage'[s].kind = "live" => stage'[s].stale = {}
    BY <2>1, <2>2, <2>4, <2>5, <2>6, StageNames DEF IsLive
  <2> QED BY <2>7 DEF NothingStale, IsLive
<1>4. CASE Next
  BY <1>2, <1>3, <1>4, NotMissMoves DEF Next
<1> QED BY <1>1, <1>4

LEMMA FreshExecutes ==
  NothingStale /\ [Machine!Idle \/ ExecutesAsRead]_(Machine!seqVars)
    => [Machine!Next]_(Machine!seqVars)
<1> SUFFICES ASSUME NothingStale, ExecutesAsRead PROVE Machine!Next
  BY DEF Machine!Next
<1>1. PICK v \in Word, a \in Word, b \in Word :
        /\ IsLive(MEM3)
        /\ prog[ArchPc].rs1 \notin stage[MEM3].stale =>
             a = Machine!Operand(prog[ArchPc].rs1)
        /\ prog[ArchPc].rs2 \notin stage[MEM3].stale =>
             b = Machine!Operand(prog[ArchPc].rs2)
        /\ Machine!ExecuteOn(v, a, b)
  BY DEF ExecutesAsRead
<1>2. stage[MEM3].stale = {}
  BY <1>1, StageNames DEF NothingStale
<1>3. Machine!Execute(v)
  BY <1>1, <1>2 DEF Machine!Execute
<1> QED BY <1>3, SameIsa DEF Machine!Next

\* With a register file whose reads return what the same cycle writes, the pipe
\* keeps the checker's promise in full: nothing else in it depends on the order
\* of the two (bp_be_checker_top.v:7-9, bp_be_regfile.v:86-113).
THEOREM FreshReadsInOrder == Spec /\ [](irf = rf) => ExecutesInOrder
<1>1. Init => OrderInv /\ Machine!Init /\ NothingStale
  BY OrderInit, MachineInit, StageNames DEF Init, NothingStale, IsLive, Bubble
<1>2. /\ OrderInv /\ [Next]_vars => OrderInv'
      /\ NothingStale /\ irf = rf /\ OrderInv /\ [Next]_vars => NothingStale'
      /\ OrderInv /\ NothingStale /\ [Next]_vars => [Machine!Next]_(Machine!seqVars)
  BY OrderStep, StaleStep, OrderMaps, FreshExecutes
<1> QED BY <1>1, <1>2, PTL DEF Spec, ExecutesInOrder, Machine!Spec
=============================================================================
