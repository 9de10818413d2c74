-------------------------------- MODULE MeIf --------------------------------
(***************************************************************************)
(* The interface between the local cache engines (LCEs, one per L1 cache)  *)
(* and the cache coherence engine (CCE): the messages of                   *)
(* bp_common_me_if.vh and the five channels of the coherence network that  *)
(* carry them.                                                             *)
(*                                                                         *)
(* One CCE and one way group (one cache set) are modelled.  The CCE runs   *)
(* one request at a time and a request touches one set, so sets meet only  *)
(* in an LCE's single miss slot; several tags of one set compete for that  *)
(* slot and for the ways, which is the harder case.                        *)
(***************************************************************************)
EXTENDS Integers, Sequences, FiniteSets

CONSTANTS
  NumLce,   \* num_lce_p: L1 caches that take part in coherence
  NumWay,   \* lce_assoc_p: ways of the set
  ICache,   \* the LCEs that belong to instruction caches (bp_fe_lce)
  Tag,      \* address tags that fall in the set
  Value,    \* what a block can hold
  Zero      \* the all-zero block a null writeback carries

LCE == 0 .. NumLce - 1
Way == 0 .. NumWay - 1

ASSUME MeAssumption ==
  /\ NumLce \in Nat \ {0}
  /\ NumWay \in Nat \ {0}
  /\ ICache \subseteq LCE
  /\ Tag # {}
  /\ Zero \in Value

CohState == {"I", "S", "E", "M"}

Entry == [tag : Tag, st : CohState]

ReqMsg == [wr : BOOLEAN, tag : Tag, way : Way, dirty : BOOLEAN]

AckType == {"inv_ack", "coh_ack"}

RespMsg == [type : AckType, tag : Tag]

DataRespMsg == [type : {"wb", "null_wb"}, tag : Tag, data : Value]

CmdMsg == [type : {"WB", "ST", "INV"}, tag : Tag, way : Way, st : CohState]

DataCmdMsg == [tag : Tag, way : Way, data : Value]

VARIABLES
  lceReq,       \* LCE -> CCE requests, one FIFO per source
  lceResp,      \* LCE -> CCE acknowledgements
  lceDataResp,  \* LCE -> CCE writebacks
  lceCmd,       \* CCE -> LCE commands
  lceDataCmd    \* CCE -> LCE block fills

netVars == <<lceReq, lceResp, lceDataResp, lceCmd, lceDataCmd>>

NetTypeOK ==
  /\ lceReq \in [LCE -> Seq(ReqMsg)]
  /\ lceResp \in [LCE -> Seq(RespMsg)]
  /\ lceDataResp \in [LCE -> Seq(DataRespMsg)]
  /\ lceCmd \in [LCE -> Seq(CmdMsg)]
  /\ lceDataCmd \in [LCE -> Seq(DataCmdMsg)]

NetInit ==
  /\ lceReq = [l \in LCE |-> <<>>]
  /\ lceResp = [l \in LCE |-> <<>>]
  /\ lceDataResp = [l \in LCE |-> <<>>]
  /\ lceCmd = [l \in LCE |-> <<>>]
  /\ lceDataCmd = [l \in LCE |-> <<>>]

\* The mesh routes each channel in order between one source and one
\* destination and promises nothing across sources or channels.
Send(ch, l, m) == [ch EXCEPT ![l] = Append(@, m)]

Drop(ch, l) == [ch EXCEPT ![l] = Tail(@)]
=============================================================================
