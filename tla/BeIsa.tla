-------------------------------- MODULE BeIsa --------------------------------
(***************************************************************************)
(* The instructions as the back end decodes and executes them, reduced to  *)
(* what the pipeline tells apart: which registers an instruction reads and *)
(* writes, whether its result is known in EX1 or comes from the data       *)
(* cache, and whether it can change the flow of control.  A word stands    *)
(* for a pc (in instructions), an address and a value alike.               *)
(***************************************************************************)
EXTENDS Naturals

CONSTANTS
  NumWord,   \* words are 0 .. NumWord - 1 and wrap around
  NumReg,    \* registers are 0 .. NumReg - 1; register 0 reads as zero
  Programs,  \* the instruction memories considered
  Contents   \* the contents the register file may have after reset

Word == 0 .. NumWord - 1
Reg == 0 .. NumReg - 1

\* rs1 and rs2 are 0 in an instruction that does not read them, rd is 0 in one
\* that does not write.  "illegal" is any word that the decoder rejects.
Op == {"alu", "branch", "jump", "load", "store", "illegal"}
Instr == [op : Op, rd : Reg, rs1 : Reg, rs2 : Reg, imm : Word]

ASSUME BeIsaAssumption ==
  /\ NumWord \in Nat \ {0}
  /\ NumReg \in Nat \ {0}
  /\ Programs \subseteq [Word -> Instr]
  /\ Contents \subseteq [Reg -> Word]

\* Mutation: the sum keeps its carry.
AddCarry(x, y) == x + y

Add(x, y) == (x + y) % NumWord

IsMemOp(i) == i.op \in {"load", "store"}

\* The registers whose values the scheduler asks the register file for.
Reads(i) == {i.rs1, i.rs2} \ {0}

\* Register r is written by the instruction (irf_w_v; a write of x0 is lost).
Writes(i, r) == i.op \in {"alu", "jump", "load"} /\ i.rd = r /\ r # 0

\* The result of an instruction that needs no memory; operands a and b.
IntResult(i, p, a, b) ==
  IF i.op = "jump" THEN Add(p, 1) ELSE Add(Add(a, b), i.imm)

\* int1_btaken: branches are bne's; jal and jalr are jumps.
Taken(i, a, b) == i.op = "jump" \/ (i.op = "branch" /\ a # b)

\* br_tgt_o: relative to the pc, or to the register of a jalr.
Target(i, p, a) ==
  Add(IF i.op = "jump" /\ i.rs1 # 0 THEN a ELSE p, i.imm)
==============================================================================
