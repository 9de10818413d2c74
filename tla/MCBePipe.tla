------------------------------ MODULE MCBePipe ------------------------------
(* TLC instances of BePipe: three-word programs over x0, x1 and x2.          *)
EXTENDS BePipe, TLC

I(op, rd, rs1, rs2, imm) ==
  [op |-> op, rd |-> rd, rs1 |-> rs1, rs2 |-> rs2, imm |-> imm]

Code(i0, i1, i2) == 0 :> i0 @@ 1 :> i1 @@ 2 :> i2

\* A load, its use, and a loop on the result.
LoadUse == Code(I("load", 1, 2, 0, 1), I("alu", 2, 1, 1, 1),
                I("branch", 0, 1, 2, 2))

\* Two writes of one register, by a load and by the integer pipe.
Rewrite == Code(I("load", 1, 0, 0, 0), I("alu", 1, 1, 0, 1),
                I("store", 0, 1, 1, 1))

\* A computed jump.
Computed == Code(I("jump", 2, 1, 0, 0), I("load", 1, 2, 0, 0),
                 I("alu", 1, 1, 2, 1))

\* A jump over a word that is not an instruction.
OverData == Code(I("jump", 0, 0, 0, 2), I("illegal", 0, 0, 0, 0),
                 I("load", 1, 1, 0, 0))

\* A call past a store, a loop of three.
Loop == Code(I("jump", 2, 0, 0, 2), I("store", 0, 2, 1, 0),
             I("branch", 0, 2, 0, 2))

\* A loop closed by a computed jump, with data behind it.
LoopBeforeData == Code(I("alu", 0, 1, 0, 0), I("jump", 0, 1, 0, 0),
                       I("illegal", 0, 0, 0, 0))

\* A loop that waits for a word of memory to change.
Poll == Code(I("load", 1, 0, 0, 0), I("branch", 0, 1, 0, 2),
             I("jump", 0, 0, 0, 1))

AllPrograms == {LoadUse, Rewrite, Computed, OverData}
MovingPrograms == {Rewrite, Loop, Poll}
DataPrograms == {LoopBeforeData}

Reset == {[r \in 0 .. 2 |-> 0]}

AnyWord == [p \in Word |-> Word]
NextWord == [p \in Word |-> {Add(p, 1)}]
=============================================================================
