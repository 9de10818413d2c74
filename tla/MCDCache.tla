------------------------------ MODULE MCDCache ------------------------------
(* Instances of the data cache for TLC.                                    *)
EXTENDS DcInvariant, TLC

CONSTANTS t1, t2, t3

Symmetry == Permutations(Tag)

OneByte == {0}
TwoBytes == {0, 1}
WordMask == {{0}}
HalfMasks == {{0}, {1}, {0, 1}}

(* Two states that differ in the truth about a block that the cache does   *)
(* not hold, is not asked for and cannot hit in the pipe any more behave   *)
(* alike: the next fill of the block sets it.  No guard reads lost.        *)
Known ==
  {tagMem[w].tag : w \in Way} \cup {tagOut[w].tag : w \in Way}
  \cup (IF tv = None THEN {} ELSE {tv.tags[w].tag : w \in Way})
  \cup (IF cmd = None THEN {} ELSE {cmd.tag})
  \cup {todo[i].tag : i \in DOMAIN todo}

StateView ==
  <<cacheVars, cmdFsm, reqFsm, timer, envVars, unsaved, offered,
    [t \in Tag \cap Known |-> truth[t]]>>
=============================================================================
