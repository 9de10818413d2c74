------------------------------- MODULE BePipe -------------------------------
(***************************************************************************)
(* The back end of one core: scheduler, detector, director and calculator  *)
(* around the queue with replay that the front end fills.  A step is one   *)
(* clock cycle.  An instruction is fetched, waits in ISD for its operands, *)
(* and goes through EX1, EX2 and MEM3, where it is committed, to the       *)
(* register file write.  A data cache miss in MEM3 removes everything from *)
(* the pipe and rolls the queue back to the missing instruction.           *)
(***************************************************************************)
EXTENDS BeIsa, Sequences, FiniteSets

CONSTANTS
  QueueEls,   \* fe_queue_fifo's els_p, 16 in bp_multi_top
  FetchAhead, \* a bound of the check: words the front end may be ahead
  Predict,    \* the pcs that the front end may predict to follow each pc
  Prompt      \* it follows a redirect before it delivers another word

ASSUME BePipeAssumption ==
  /\ QueueEls \in Nat \ {0}
  /\ FetchAhead \in 1 .. QueueEls
  /\ Predict \in [Word -> SUBSET Word \ {{}}]
  /\ Prompt \in BOOLEAN

VARIABLES
  prog,             \* the instruction memory (coherent: fetched as it is)
  pending, unread,  \* the FE queue: read since the checkpoint, not yet read
  fetchPc,          \* the pc of the word that the front end delivers next
  target,           \* a redirect the front end has not yet followed, or None
  isd,              \* issue_pkt_r: the pc waiting for dispatch, or None
  stage,            \* calc_stage_r[0..3] with exc_stage_r and comp_stage_r
  rf,               \* the register file
  irf,              \* what its read in the last cycle saw in each register
  npc,              \* npc_r: the pc after the last instruction in EX1
  redirectPending

feVars == <<fetchPc, target>>
vars == <<prog, pending, unread, fetchPc, target, isd, stage, rf, irf, npc,
          redirectPending>>

None == NumWord

\* A word of the pipe.  A rolled back instruction, an illegal one and a nop
\* have no further effect and are bubbles; a poisoned instruction still counts
\* when it passes MEM3; a live one holds its operands and, past MEM3, what it
\* loaded.  "stale" is history: the registers whose values it was given as they
\* were before the last write.
Bubble == [kind |-> "bubble"]
Poisoned == [kind |-> "poisoned"]
Live(p, a, b, stale) ==
  [kind |-> "live", pc |-> p, a |-> a, b |-> b, loaded |-> 0, stale |-> stale]
LiveWords == [kind : {"live"}, pc : Word, a : Word, b : Word, loaded : Word,
              stale : SUBSET Reg]

EX1 == 0
EX2 == 1
MEM3 == 2
IWB == 3
Stage == 0 .. 3

TypeOK ==
  /\ prog \in Programs
  /\ pending \in Seq(Word) /\ unread \in Seq(Word)
  /\ fetchPc \in Word
  /\ {target, isd} \subseteq Word \cup {None}
  /\ stage \in [Stage -> {Bubble, Poisoned} \cup LiveWords]
  /\ {rf, irf} \subseteq [Reg -> Word]
  /\ npc \in Word
  /\ redirectPending \in BOOLEAN

Init ==
  /\ prog \in Programs
  /\ pending = <<>> /\ unread = <<>>
  /\ fetchPc = 0 /\ target = None
  /\ isd = None
  /\ stage = [s \in Stage |-> Bubble]
  /\ rf \in Contents /\ irf = rf
  /\ npc = 0
  /\ redirectPending = FALSE

Queue == INSTANCE ReplayQueue WITH Item <- Word, Els <- QueueEls
-----------------------------------------------------------------------------
IsLive(s) == stage[s].kind = "live"
InstrOf(s) == prog[stage[s].pc]

WritesReg(s, r) == IsLive(s) /\ Writes(InstrOf(s), r)

\* What stage s forwards: comp_stage_n, with v the data cache's answer in MEM3.
Result(s, v) ==
  IF InstrOf(s).op = "load"
  THEN IF s = MEM3 THEN v ELSE stage[s].loaded
  ELSE IntResult(InstrOf(s), stage[s].pc, stage[s].a, stage[s].b)

Forwarded(r) == \E s \in Stage : WritesReg(s, r)

\* bp_be_bypass: the youngest write of r in the pipe, or else what the register
\* file's read in the last cycle has delivered.
Bypass(r, v) ==
  LET writers == {s \in Stage : WritesReg(s, r)}
  IN  CASE r = 0 -> 0
        [] r # 0 /\ writers = {} -> irf[r]
        [] OTHER -> Result(CHOOSE s \in writers : \A t \in writers : s <= t, v)

\* The pc after EX1 in this cycle, a miss aside (br_mux; npc_plus4 adds to the
\* register npc, not to the pc of the instruction in EX1).
Expected ==
  IF ~IsLive(EX1) THEN npc
  ELSE LET w == stage[EX1]
       IN  IF Taken(prog[w.pc], w.a, w.b)
           THEN Target(prog[w.pc], w.pc, w.a) ELSE Add(npc, 1)

\* Mutation: the register npc is compared, not the pc after EX1 in this cycle.
MispredictLate == isd # None /\ isd # npc

Mispredict == isd # None /\ isd # Expected

\* Mutation: the dependence on a load in EX2 is forgotten.
DataHazardEx1 ==
  \E r \in Reads(prog[isd]) : WritesReg(EX1, r) /\ InstrOf(EX1).op = "load"

\* bp_be_detector: a load's value cannot be forwarded from EX1 or EX2.
DataHazard ==
  \E s \in {EX1, EX2}, r \in Reads(prog[isd]) :
    WritesReg(s, r) /\ InstrOf(s).op = "load"

\* Mutation: a mispredicted word is held back instead of being poisoned.
DispatchExpected(mmuReady) ==
  isd # None /\ mmuReady /\ ~DataHazard /\ ~Mispredict

\* chk_dispatch_v_o; mmuReady is mmu_cmd_ready_i.
Dispatch(mmuReady) == isd # None /\ mmuReady /\ ~DataHazard

\* The registers that the word in ISD was read an old value of, and that nothing
\* forwards.
Stale == {r \in Reads(prog[isd]) : irf[r] # rf[r] /\ ~Forwarded(r)}

\* What enters EX1: be_nop, a mispredicted word, or the instruction.
Dispatched(mmuReady, v) ==
  IF ~Dispatch(mmuReady) \/ prog[isd].op = "illegal" THEN Bubble
  ELSE IF Mispredict THEN Poisoned
  ELSE Live(isd, Bypass(prog[isd].rs1, v), Bypass(prog[isd].rs2, v), Stale)

\* Mutation: the word of the stage before is checkpointed.
CommittingEarly == stage[EX2].kind # "bubble"

\* Mutation: poisoned words are not checkpointed.
CommittingLive == IsLive(MEM3)

\* instr_cmt_v, a miss aside: what passes MEM3 is checkpointed.
Committing == stage[MEM3].kind # "bubble"

\* The register file is written from the stage after MEM3.
Writeback ==
  rf' = [r \in Reg |-> IF WritesReg(IWB, r) THEN Result(IWB, 0) ELSE rf[r]]

\* It is read for the word that is issued or waits in ISD: here register r, in
\* the cycle that writes it.
Collision(r) == isd' # None /\ r \in Reads(prog[isd']) /\ WritesReg(IWB, r)

\* Such a read returns the value before or after the write: bp_be_regfile.v:11-12
\* says before, the memory under it is not here.
ReadRegs ==
  \/ irf' = rf'
  \/ irf' = rf /\ \E r \in Reg : Collision(r)

\* What MEM3 hands to IWB when the cache has answered v.
Completed(v) ==
  IF IsLive(MEM3) THEN [stage[MEM3] EXCEPT !.loaded = v] ELSE stage[MEM3]

Advance(entering, v) ==
  stage' = [s \in Stage |-> CASE s = EX1 -> entering
                              [] s = IWB -> Completed(v)
                              [] OTHER -> stage[s - 1]]

\* What a load in MEM3 may be answered; no other instruction is told apart.
Answers == IF IsLive(MEM3) /\ InstrOf(MEM3).op = "load" THEN Word ELSE {0}
-----------------------------------------------------------------------------
(* The front end, as loosely as the back end may see it: it delivers the   *)
(* word at fetchPc, predicts one of some pcs to follow, and turns to a     *)
(* redirect target some time after the command.                            *)

Follow(push) ==
  /\ target # None
  /\ push = <<>>
  /\ fetchPc' = target
  /\ target' = None

Deliver(push) ==
  /\ Queue!Room /\ Len(unread) < FetchAhead
  /\ Prompt => target = None
  /\ push = <<fetchPc>>
  /\ fetchPc' \in Predict[fetchPc]
  /\ UNCHANGED target

Wait(push) == push = <<>> /\ UNCHANGED feVars

Fetch(push) == Follow(push) \/ Deliver(push) \/ Wait(push)

Pushes == {<<>>, <<fetchPc>>}
-----------------------------------------------------------------------------
\* The memory instruction in MEM3 misses: it and all younger ones leave the
\* pipe, the queue rolls back and the pc of the missing one is expected next.
Rollback(push) ==
  /\ IsLive(MEM3) /\ IsMemOp(InstrOf(MEM3))
  /\ Fetch(push)
  /\ Queue!Rollback(push)
  /\ isd' = None
  /\ stage' = [s \in Stage |-> Bubble]
  /\ Writeback /\ ReadRegs
  /\ npc' = stage[MEM3].pc
  /\ redirectPending' = IF isd # None THEN isd # stage[MEM3].pc
                                      ELSE redirectPending
  /\ UNCHANGED prog

\* Mutation: the command to the front end is lost.
RedirectLost(mmuReady, v) ==
  /\ Mispredict /\ ~redirectPending
  /\ Queue!Clear(Committing)
  /\ isd' = IF Dispatch(mmuReady) THEN None ELSE isd
  /\ Advance(Dispatched(mmuReady, v), v)
  /\ Writeback /\ ReadRegs
  /\ npc' = Expected
  /\ redirectPending' = TRUE
  /\ UNCHANGED <<prog, fetchPc, target>>

\* The first mispredicted word reaches ISD: the queue is cleared and the front
\* end is told the expected pc.  The FE command queue is never full, because
\* the front end takes a command in the cycle it sees it.
Redirect(mmuReady, v) ==
  /\ Mispredict /\ ~redirectPending
  /\ Queue!Clear(Committing)
  /\ target' = Expected
  /\ isd' = IF Dispatch(mmuReady) THEN None ELSE isd
  /\ Advance(Dispatched(mmuReady, v), v)
  /\ Writeback /\ ReadRegs
  /\ npc' = Expected
  /\ redirectPending' = TRUE
  /\ UNCHANGED <<prog, fetchPc>>

\* Every other cycle: a word is issued to ISD when there is one, ISD is free
\* and no mispredicted word is in it.
Flow(push, mmuReady, v) ==
  LET issue == /\ unread # <<>>
               /\ isd = None \/ Dispatch(mmuReady)
               /\ ~Mispredict
  IN  /\ ~(Mispredict /\ ~redirectPending)
      /\ Fetch(push)
      /\ Queue!Step(push, issue, Committing)
      /\ isd' = IF issue THEN Head(unread)
                ELSE IF Dispatch(mmuReady) THEN None ELSE isd
      /\ Advance(Dispatched(mmuReady, v), v)
      /\ Writeback /\ ReadRegs
      /\ npc' = Expected
      /\ redirectPending' = IF isd # None THEN Mispredict ELSE redirectPending
      /\ UNCHANGED prog

Next ==
  \/ \E push \in Pushes : Rollback(push)
  \/ \E mmuReady \in BOOLEAN, v \in Answers : Redirect(mmuReady, v)
  \/ \E push \in Pushes, mmuReady \in BOOLEAN, v \in Answers :
       Flow(push, mmuReady, v)

Spec == Init /\ [][Next]_vars

\* What the back end may rely on.  The front end in time follows a redirect and
\* delivers its next word, as long as the queue has room; the data cache in
\* time accepts an instruction that waits for it, and answers one that returns
\* to it again and again (Me's MissesEnd).
Fairness ==
  /\ WF_vars(Next)
  /\ SF_vars(Next /\ target # None /\ target' = None)
  /\ SF_vars(\/ Rollback(<<fetchPc>>)
             \/ \E mmuReady \in BOOLEAN, v \in Answers :
                  Flow(<<fetchPc>>, mmuReady, v))
  /\ SF_vars(/\ Dispatch(TRUE)
             /\ \/ \E v \in Answers : Redirect(TRUE, v)
                \/ \E push \in Pushes, v \in Answers : Flow(push, TRUE, v))
  /\ SF_vars(/\ IsLive(MEM3) /\ IsMemOp(InstrOf(MEM3))
             /\ \E mmuReady \in BOOLEAN, v \in Answers :
                  \/ Redirect(mmuReady, v)
                  \/ \E push \in Pushes : Flow(push, mmuReady, v))

FairSpec == Spec /\ Fairness
-----------------------------------------------------------------------------
\* The oldest instruction of the pipe that has not been committed is the next
\* one of the program; with none, the register npc holds its pc.
Uncommitted == {s \in {EX1, EX2, MEM3} : IsLive(s)}

ArchPc == IF Uncommitted = {} THEN npc
          ELSE stage[CHOOSE s \in Uncommitted : \A t \in Uncommitted : t <= s].pc

ArchRegs == [r \in Reg |-> IF WritesReg(IWB, r) THEN Result(IWB, 0) ELSE rf[r]]

Retiring ==
  LET w == stage[IWB]
      addr == Add(w.a, InstrOf(IWB).imm)
  IN  IF ~IsLive(IWB) \/ ~IsMemOp(InstrOf(IWB)) THEN [op |-> "none"]
      ELSE [op |-> InstrOf(IWB).op, addr |-> addr,
            data |-> IF InstrOf(IWB).op = "load" THEN w.loaded ELSE w.b]

Machine == INSTANCE SeqMachine
             WITH pc <- ArchPc, regs <- ArchRegs, bus <- Retiring

\* What the checker is there for (bp_be_checker_top.v:7-9: "protecting
\* architectural state from the effects of speculation"): the program executed
\* one instruction at a time.  It holds when no operand is stale.
ExecutesInOrder == Machine!Spec

NothingStale == \A s \in Stage : IsLive(s) => stage[s].stale = {}

\* The instruction in MEM3 takes effect, in its turn, on the registers its
\* predecessors left, but for those operands of which the register file has
\* delivered the value before the last write.
ExecutesAsRead ==
  \E v, a, b \in Word :
    LET i == prog[ArchPc]
        stale == stage[MEM3].stale
    IN  /\ IsLive(MEM3)
        /\ i.rs1 \notin stale => a = Machine!Operand(i.rs1)
        /\ i.rs2 \notin stale => b = Machine!Operand(i.rs2)
        /\ Machine!ExecuteOn(v, a, b)

\* Whatever is fetched, mispredicted, forwarded, stalled, missed and replayed,
\* the registers and the accesses to memory are those of the program executed
\* one instruction at a time (bp_be_checker_top.v:7-9), each operand right that
\* was not read in the cycle of its last write.
InOrderButStale ==
  Machine!Init /\ [][Machine!Idle \/ ExecutesAsRead]_(Machine!seqVars)

\* The director's adder takes the register npc for the pc of the instruction in
\* EX1; whatever was poisoned or replayed before, it is (bp_be_director.v:157).
NpcIsEx1 == IsLive(EX1) => npc = stage[EX1].pc

Legal == \A p \in Word : prog[p].op # "illegal"

\* The words that were read from the queue and have not passed MEM3.
InPipe == {s \in {EX1, EX2, MEM3} : stage[s] # Bubble}
NumInPipe == Cardinality(InPipe) + (IF isd = None THEN 0 ELSE 1)

\* The checkpoint is never ahead of the oldest word of the pipe, so that a
\* rollback gives out again every word that a miss removes.
CheckpointNotAhead ==
  /\ NumInPipe <= Len(pending)
  /\ \A s \in InPipe : IsLive(s) =>
       \E k \in 1 .. Len(pending) : pending[k] = stage[s].pc

\* In a program without illegal words it is not behind either: a rollback
\* starts exactly with the instruction that missed.
CheckpointExact ==
  Legal => /\ NumInPipe = Len(pending)
           /\ IsLive(MEM3) => Head(pending) = stage[MEM3].pc

\* "A redirect is pending until the correct instruction has been fetched"
\* (bp_be_director.v:190-191): it is not pending for ever.
RedirectAnswered == redirectPending ~> ~redirectPending

\* A program without illegal words and without jumps to themselves moves on.
MovesOn == \A p \in Word : ArchPc = p ~> ArchPc # p
=============================================================================
