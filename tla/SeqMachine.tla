------------------------------ MODULE SeqMachine ------------------------------
(***************************************************************************)
(* What the back end promises to a program: instructions take effect one   *)
(* at a time, in program order, each on the registers its predecessors     *)
(* left.  Loads may return any value: the memory is the concern of Me.     *)
(***************************************************************************)
EXTENDS BeIsa

VARIABLES
  prog,  \* the instruction memory
  pc,    \* the next instruction to take effect
  regs,
  bus    \* the access made by the last step to memory, or NoAccess

seqVars == <<prog, pc, regs, bus>>

NoAccess == [op |-> "none"]

Init ==
  /\ prog \in Programs
  /\ pc = 0
  /\ regs \in Contents
  /\ bus = NoAccess

Access(op, addr, data) == [op |-> op, addr |-> addr, data |-> data]

Operand(r) == IF r = 0 THEN 0 ELSE regs[r]

\* The instruction at pc takes effect on the operands a and b; v is what a load
\* reads.
ExecuteOn(v, a, b) ==
  LET i == prog[pc]
      result == IF i.op = "load" THEN v ELSE IntResult(i, pc, a, b)
  IN  /\ i.op # "illegal"
      /\ pc' = IF Taken(i, a, b) THEN Target(i, pc, a) ELSE Add(pc, 1)
      /\ regs' = [r \in Reg |-> IF Writes(i, r) THEN result ELSE regs[r]]
      /\ bus' = CASE i.op = "load"  -> Access("load", Add(a, i.imm), v)
                  [] i.op = "store" -> Access("store", Add(a, i.imm), b)
                  [] OTHER -> NoAccess
      /\ UNCHANGED prog

Execute(v) == ExecuteOn(v, Operand(prog[pc].rs1), Operand(prog[pc].rs2))

\* A cycle in which nothing takes effect.
Idle == bus' = NoAccess /\ UNCHANGED <<prog, pc, regs>>

Next == Idle \/ \E v \in Word : Execute(v)

Spec == Init /\ [][Next]_seqVars
===============================================================================
