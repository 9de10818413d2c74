---------------------------- MODULE AtomicMemory ----------------------------
(***************************************************************************)
(* What the coherence system promises the processors: one memory, every    *)
(* load through a permitted cache returns its current contents, and a      *)
(* block is permitted to one cache at a time (demo-v2 grants only E).      *)
(***************************************************************************)
CONSTANTS Cache, ReadOnly, Block, Content

VARIABLES
  memory,  \* the current contents of every block
  view     \* what each cache would return: a function on the blocks it may use

vars == <<memory, view>>

Init ==
  /\ memory \in [Block -> Content]
  /\ view = [c \in Cache |-> [b \in {} |-> CHOOSE x \in Content : TRUE]]

Others(c) == UNION {DOMAIN view[d] : d \in Cache \ {c}}

\* Cache c's permissions change: it may use exactly the blocks in B, which no
\* other cache may use, and it sees their current contents.
Permit(c, B) ==
  /\ B \cap Others(c) = {}
  /\ view' = [view EXCEPT ![c] = [b \in B |-> memory[b]]]
  /\ UNCHANGED memory

\* A store needs the permission and is visible at once.
Write(c, b, x) ==
  /\ c \notin ReadOnly
  /\ b \in DOMAIN view[c]
  /\ memory' = [memory EXCEPT ![b] = x]
  /\ view' = [view EXCEPT ![c][b] = x]

Next ==
  \E c \in Cache :
    \/ \E B \in SUBSET Block : Permit(c, B)
    \/ \E b \in Block, x \in Content : Write(c, b, x)

Spec == Init /\ [][Next]_vars
=============================================================================
