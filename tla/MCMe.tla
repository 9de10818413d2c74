-------------------------------- MODULE MCMe --------------------------------
(* TLC instances of Me: the numbers of caches and ways come from the cfg.  *)
EXTENDS MeInvariant, TLC

Symmetry == Permutations(Tag)

(* Two states that differ in a register that is written before it is next  *)
(* read behave alike.  LiveView hides such registers from TLC's state      *)
(* comparison: the CCE's request registers while it is ready, the          *)
(* invalidation counters outside their loop, the miss registers of an LCE  *)
(* that has no miss and the writeback buffer outside a writeback.          *)
LiveView ==
  <<netVars, lceSt, cmdSt, invd, arrays, pc, dir, pending, memQVars, mem,
    [l \in LCE |-> IF lceSt[l] = "ready" THEN <<>>
                   ELSE <<miss[l], dataRcv[l], tagSet[l]>>],
    [l \in LCE |-> IF cmdSt[l] \in {"wb_read", "wb_cleared"}
                   THEN buf[l] ELSE Zero],
    IF pc = "ready" THEN <<>> ELSE <<req, gad, nextCoh, rwbf>>,
    IF pc \in {"inv_top", "inv_ack_top"} THEN <<r0, r2>> ELSE <<>>>>
=============================================================================
