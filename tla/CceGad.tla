------------------------------- MODULE CceGad -------------------------------
(***************************************************************************)
(* bp_cce_gad.v: the unit that turns the way group read from the directory *)
(* and the request registers into the sharer list and the control flags    *)
(* the microcode branches on.  d is the way group, a request is a record   *)
(* [lce, tag, wr, way, dirty].                                             *)
(***************************************************************************)
EXTENDS MeIf

TagSetHit(d, l, w, t) == d[l][w].tag = t /\ d[l][w].st # "I"

SharersHits(d, t) == {l \in LCE : \E w \in Way : TagSetHit(d, l, w, t)}

SharersWays(d, t) ==
  [l \in LCE |-> IF l \in SharersHits(d, t)
                 THEN CHOOSE w \in Way : TagSetHit(d, l, w, t)
                 ELSE 0]

SharerState(d, l, t) == d[l][SharersWays(d, t)[l]].st

OtherSharers(d, q) == SharersHits(d, q.tag) \ {q.lce}

ExclusiveFlag(d, q) ==
  \E l \in OtherSharers(d, q) : SharerState(d, l, q.tag) \in {"E", "M"}

UpgradeFlag(d, q) ==
  q.lce \in SharersHits(d, q.tag) /\ q.wr /\ SharerState(d, q.lce, q.tag) = "S"

TransferFlag(d, q) == ExclusiveFlag(d, q)

\* Mutation: a read leaves the owner's copy alone.
InvalidateFlagWriteOnly(d, q) == q.wr /\ OtherSharers(d, q) # {}

InvalidateFlag(d, q) ==
  (q.wr /\ OtherSharers(d, q) # {}) \/ TransferFlag(d, q)

\* Mutation: the request's dirty bit is ignored.
ReplacementFlagAnyOwner(d, q) == d[q.lce][q.way].st \in {"E", "M"}

ReplacementFlag(d, q) == d[q.lce][q.way].st \in {"E", "M"} /\ q.dirty

\* bsg_encode_one_hot of the other sharers: meaningful for a singleton.
TransferLce(d, q) ==
  IF TransferFlag(d, q) THEN CHOOSE l \in OtherSharers(d, q) : TRUE ELSE 0

\* Everything one gad instruction latches.
Gad(d, q) ==
  LET tr == TransferLce(d, q)
  IN  [hits   |-> SharersHits(d, q.tag),
       ways   |-> SharersWays(d, q.tag),
       tf     |-> TransferFlag(d, q),
       rf     |-> ReplacementFlag(d, q),
       uf     |-> UpgradeFlag(d, q),
       inv    |-> InvalidateFlag(d, q),
       trLce  |-> tr,
       trWay  |-> IF TransferFlag(d, q) THEN SharersWays(d, q.tag)[tr] ELSE 0,
       lruTag |-> d[q.lce][q.way].tag]
=============================================================================
