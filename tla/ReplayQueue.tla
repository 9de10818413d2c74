----------------------------- MODULE ReplayQueue -----------------------------
(***************************************************************************)
(* What the queue between the front end and the back end promises: a FIFO  *)
(* that keeps what was read until it is checkpointed, and can give it out  *)
(* again from the last checkpoint.  RollyFifo implements it with three     *)
(* pointers; BePipe is its client.                                         *)
(***************************************************************************)
EXTENDS Naturals, Sequences

CONSTANTS
  Item,  \* the words
  Els    \* how many are kept at most

VARIABLES
  pending,  \* read, not yet checkpointed: what a rollback gives out again
  unread    \* written, not yet read

qVars == <<pending, unread>>

TypeOK ==
  /\ pending \in Seq(Item)
  /\ unread \in Seq(Item)

Init == pending = <<>> /\ unread = <<>>

Room == Len(pending) + Len(unread) < Els

\* A word, or none, written in this cycle; one slot must be free beforehand.
Written(push) == push = <<>> \/ (Room /\ \E x \in Item : push = <<x>>)

Dropped(s, drop) == IF drop THEN Tail(s) ELSE s

\* A cycle without clr_v_i or roll_v_i: any of a write, a read and a checkpoint.
Step(push, pop, ckpt) ==
  /\ Written(push)
  /\ pop => unread # <<>>
  /\ ckpt => pending # <<>>
  /\ pending' = Dropped(pending, ckpt) \o (IF pop THEN <<Head(unread)>> ELSE <<>>)
  /\ unread' = Dropped(unread, pop) \o push

\* clr_v_i: the words not yet read are dropped.
Clear(ckpt) ==
  /\ ckpt => pending # <<>>
  /\ pending' = Dropped(pending, ckpt)
  /\ unread' = <<>>

\* roll_v_i: the words since the checkpoint are to be read again.
Rollback(push) ==
  /\ Written(push)
  /\ pending' = <<>>
  /\ unread' = pending \o unread \o push

Pushes == {<<>>} \cup {<<x>> : x \in Item}

Next ==
  \/ \E push \in Pushes, pop, ckpt \in BOOLEAN : Step(push, pop, ckpt)
  \/ \E ckpt \in BOOLEAN : Clear(ckpt)
  \/ \E push \in Pushes : Rollback(push)

Spec == Init /\ [][Next]_qVars
==============================================================================
