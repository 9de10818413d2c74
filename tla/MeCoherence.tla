---------------------------- MODULE MeCoherence ----------------------------
(***************************************************************************)
(* Theorems about Me for every number of caches and ways and every set of  *)
(* tags and values: type correctness, and that CoherenceInv is an          *)
(* invariant, with it SingleCopy, OneSharer, DirectoryAccurate and         *)
(* NeverStalls.  One lemma per action of the engine, of an LCE and of the  *)
(* memory.                                                                 *)
(***************************************************************************)
EXTENDS MeInvariant, FiniteSetTheorems, TLAPS

-----------------------------------------------------------------------------
(* Channels.                                                               *)

LEMMA SendType ==
  ASSUME NEW S, NEW ch \in [LCE -> Seq(S)], NEW l \in LCE, NEW m \in S
  PROVE  Send(ch, l, m) \in [LCE -> Seq(S)]
BY DEF Send

LEMMA HeadType ==
  ASSUME NEW S, NEW q \in Seq(S), q # <<>>
  PROVE  Head(q) \in S /\ Tail(q) \in Seq(S)
OBVIOUS

LEMMA DropType ==
  ASSUME NEW S, NEW ch \in [LCE -> Seq(S)], NEW l \in LCE, ch[l] # <<>>
  PROVE  Drop(ch, l) \in [LCE -> Seq(S)] /\ Head(ch[l]) \in S
BY HeadType DEF Drop

LEMMA EmptySeqType == ASSUME NEW S PROVE <<>> \in Seq(S)
OBVIOUS

LEMMA PushType ==
  ASSUME NEW S, NEW q \in Seq(S), NEW m \in S
  PROVE  Append(q, m) \in Seq(S)
OBVIOUS

-----------------------------------------------------------------------------
(* Type correctness.                                                       *)

\* The invalidation loop's counters stay in range where they index.
LoopRange ==
  /\ pc = "inv_top" => r0 < NumLce
  /\ pc = "inv_ack_top" => r2 > 0

\* A command stays at the head of its FIFO while a writeback handles it.
CmdHeld == \A l \in LCE : cmdSt[l] # "ready" => lceCmd[l] # <<>>

TypeInv == TypeOK /\ LoopRange /\ CmdHeld

LEMMA TypeInvInit == Init => TypeInv
<1> SUFFICES ASSUME Init PROVE TypeInv
  OBVIOUS
<1>0. NumLce \in Nat /\ NumLce > 0 /\ 0 \in LCE /\ 0 \in Way /\ Zero \in Value
  BY MeAssumption DEF LCE, Way
<1>1. NetTypeOK
  BY DEF Init, NetInit, NetTypeOK
<1>2. CceTypeOK
  <2> PICK t \in Tag : CceInit!(t)
    BY DEF Init, CceInit
  <2>1. dir \in [LCE -> [Way -> Entry]] /\ nextCoh \in CohState
    BY DEF Entry, CohState
  <2>2. req \in Request
    BY <1>0 DEF Request
  <2>3. gad \in GadRegs
    BY <1>0 DEF GadRegs
  <2>4. r0 \in 0 .. NumLce /\ r2 \in Nat
    BY <1>0
  <2> QED
    BY <2>1, <2>2, <2>3, <2>4, EmptySeqType DEF CceTypeOK, Labels
<1>3. LceTypeOK
  BY <1>0 DEF Init, LceInit, LceTypeOK, ReqState, CmdState, ReqMsg, Entry, CohState
<1>4. LoopRange /\ CmdHeld
  BY DEF Init, CceInit, LceInit, LoopRange, CmdHeld
<1> QED
  BY <1>1, <1>2, <1>3, <1>4 DEF TypeInv, TypeOK, Init

LEMMA GadType ==
  ASSUME NEW d \in [LCE -> [Way -> Entry]], NEW q \in Request
  PROVE  Gad(d, q) \in GadRegs
<1>1. SharersHits(d, q.tag) \in SUBSET LCE
  BY DEF SharersHits
<1>0. 0 \in LCE /\ 0 \in Way
  BY MeAssumption DEF LCE, Way
<1>2. SharersWays(d, q.tag) \in [LCE -> Way]
  BY <1>0 DEF SharersWays, SharersHits
<1>3. TransferFlag(d, q) \in BOOLEAN /\ ReplacementFlag(d, q) \in BOOLEAN
      /\ UpgradeFlag(d, q) \in BOOLEAN /\ InvalidateFlag(d, q) \in BOOLEAN
  BY DEF TransferFlag, ReplacementFlag, UpgradeFlag, InvalidateFlag,
         ExclusiveFlag
<1>4. TransferLce(d, q) \in LCE
  <2>1. TransferFlag(d, q) => OtherSharers(d, q) # {}
    BY DEF TransferFlag, ExclusiveFlag
  <2>2. OtherSharers(d, q) \subseteq LCE
    BY <1>1 DEF OtherSharers
  <2> QED
    BY <1>0, <2>1, <2>2 DEF TransferLce
<1>5. d[q.lce][q.way].tag \in Tag
  BY DEF Request, Entry
<1> QED
  BY <1>0, <1>1, <1>2, <1>3, <1>4, <1>5 DEF Gad, GadRegs

\* Where the branches between queue instructions lead.
LEMMA JumpType ==
  ASSUME NEW i, NEW n, NEW g
  PROVE  /\ TransferCheck(g) \in Labels \ {"inv_top", "inv_ack_top"}
         /\ UpgradeCheck(g) \in Labels \ {"inv_top", "inv_ack_top"}
         /\ InvAckTop(n) \in Labels \ {"inv_top"}
         /\ InvAckTop(n) = "inv_ack_top" => n # 0
         /\ InvTop(i, n) \in Labels
         /\ InvTop(i, n) = "inv_top" => i < NumLce
         /\ InvTop(i, n) = "inv_ack_top" => n # 0
<1>1. TransferCheck(g) \in {"transfer", "read_l2"}
  BY DEF TransferCheck
<1>2. \A h : UpgradeCheck(h) \in {"error", "replace", "transfer", "read_l2"}
  BY DEF UpgradeCheck, ReplaceCheck, TransferCheck
<1>3. \/ n = 0 /\ InvAckTop(n) = UpgradeCheck(gad)
      \/ n # 0 /\ InvAckTop(n) = "inv_ack_top"
  BY DEF InvAckTop
<1>4. \/ i < NumLce /\ InvTop(i, n) = "inv_top"
      \/ ~(i < NumLce) /\ InvTop(i, n) = InvAckTop(n)
  BY DEF InvTop
<1>5. UpgradeCheck(gad) \in {"error", "replace", "transfer", "read_l2"}
      /\ UpgradeCheck(g) \in {"error", "replace", "transfer", "read_l2"}
  BY <1>2
<1> QED
  BY <1>1, <1>3, <1>4, <1>5 DEF Labels

LEMMA InvSendType ==
  ASSUME TypeInv, InvSend
  PROVE  CceTypeOK'
<1> USE DEF TypeInv, TypeOK, Wds, Wde, Wdp
<1>0. r0 \in LCE /\ gad.ways[r0] \in Way
  BY DEF InvSend, CceTypeOK, LoopRange, LCE, GadRegs
<1>1. dir' \in [LCE -> [Way -> Entry]]
  <2>1. dir[r0][gad.ways[r0]].tag \in Tag
    BY <1>0 DEF CceTypeOK, Entry
  <2> QED
    BY <1>0, <2>1 DEF InvSend, CceTypeOK, Entry, CohState
<1>2. r0' \in 0 .. NumLce /\ r2' \in Nat
  BY MeAssumption DEF InvSend, CceTypeOK, LoopRange
<1>3. pc' \in Labels
  BY JumpType DEF InvSend
<1> QED
  BY <1>1, <1>2, <1>3 DEF InvSend, CceTypeOK, memQVars

LEMMA InvSkipType ==
  ASSUME TypeInv, InvSkip
  PROVE  CceTypeOK'
<1> USE DEF TypeInv, TypeOK, Wds, Wde, Wdp
<1>2. r0' \in 0 .. NumLce
  BY MeAssumption DEF InvSkip, CceTypeOK, LoopRange
<1>3. pc' \in Labels
  BY JumpType DEF InvSkip
<1> QED
  BY <1>2, <1>3 DEF InvSkip, CceTypeOK, memQVars

LEMMA PopMemRespType ==
  ASSUME TypeInv, PopMemResp, pc' \in Labels
  PROVE  CceTypeOK'
<1> USE DEF TypeInv, TypeOK, Wds, Wde, Wdp
<1>1. Head(memResp) \in Payload /\ memResp' \in Seq(Payload)
  BY HeadType DEF PopMemResp, CceTypeOK
<1>2. req' \in Request
  BY <1>1 DEF PopMemResp, CceTypeOK, Request, Payload
<1>3. gad' \in GadRegs
  BY <1>1 DEF PopMemResp, CceTypeOK, GadRegs, Payload
<1>4. rwbf' \in BOOLEAN /\ pending' \in BOOLEAN
  BY <1>1 DEF PopMemResp, Payload
<1> QED
  BY <1>1, <1>2, <1>3, <1>4 DEF PopMemResp, CceTypeOK

LEMMA MemDataRespType ==
  ASSUME TypeInv, MemDataResp
  PROVE  NetTypeOK' /\ CceTypeOK'
<1> USE DEF TypeInv, TypeOK, Wds, Wde, Wdp
<1> DEFINE m == Head(memDataResp)
<1>1. m \in MemDataRespMsg /\ memDataResp' \in Seq(MemDataRespMsg)
  BY HeadType DEF MemDataResp, CceTypeOK
<1>2. m.cmd \in MemCmdMsg /\ m.data \in Value
  BY <1>1 DEF MemDataRespMsg
<1>3. req' \in Request
  BY <1>2 DEF MemDataResp, CceTypeOK, Request, MemCmdMsg
<1>4. CceTypeOK'
  BY <1>1, <1>3 DEF MemDataResp, CceTypeOK, Labels
<1>5. [tag |-> m.cmd.tag, way |-> m.cmd.way, data |-> m.data] \in DataCmdMsg
      /\ m.cmd.lce \in LCE
  BY <1>2 DEF MemCmdMsg, DataCmdMsg
<1>6. lceDataCmd' \in [LCE -> Seq(DataCmdMsg)]
  BY <1>5, SendType DEF MemDataResp, NetTypeOK
<1>7. NetTypeOK'
  BY <1>6 DEF MemDataResp, NetTypeOK
<1> QED
  BY <1>4, <1>7

LEMMA LceReqType ==
  ASSUME TypeInv, NEW l \in LCE, LceReq(l)
  PROVE  CceTypeOK' /\ LoopRange'
<1> USE DEF TypeInv, TypeOK, Wds, Wde, Wdp
<1>1. Head(lceReq[l]) \in ReqMsg
  BY DropType DEF LceReq, NetTypeOK
<1>2. req' \in Request
  BY <1>1 DEF LceReq, Request, ReqMsg
<1>3. Gad(dir, req') \in GadRegs
  BY <1>2, GadType DEF CceTypeOK
<1>4. /\ gad' \in GadRegs
      /\ nextCoh' \in CohState
  BY <1>3 DEF LceReq, CceTypeOK, CohState
<1>5. /\ r0' \in 0 .. NumLce /\ r2' \in Nat
      /\ pc' \in Labels
      /\ pc' = "inv_top" => r0' = 0
      /\ pc' # "inv_ack_top"
  <2>1. 0 \in 0 .. NumLce /\ 0 \in Nat
    BY MeAssumption
  <2>2. CASE pending
    BY <2>2 DEF LceReq, CceTypeOK, Labels
  <2>3. CASE ~pending /\ Gad(dir, req').inv
    BY <2>1, <2>3 DEF LceReq, Labels
  <2>4. CASE ~pending /\ ~Gad(dir, req').inv
    <3>1. pc' = UpgradeCheck(Gad(dir, req')) /\ UNCHANGED <<r0, r2>>
      BY <2>4 DEF LceReq
    <3> QED
      BY <3>1, JumpType DEF CceTypeOK
  <2> QED
    BY <2>2, <2>3, <2>4
<1>6. LoopRange'
  BY <1>5, MeAssumption DEF LoopRange
<1> QED
  BY <1>2, <1>4, <1>5, <1>6 DEF LceReq, CceTypeOK, memQVars

LEMMA WriteBackType ==
  ASSUME CceTypeOK, NEW t \in Tag, NEW d \in Value
  PROVE  WriteBack(t, d) \in MemDataCmdMsg
BY DEF CceTypeOK, WriteBack, MemDataCmdMsg, Payload, Request, GadRegs

LEMMA WbType ==
  ASSUME TypeInv, NEW l \in LCE, ReplaceWb(l) \/ TransferWb(l)
  PROVE  CceTypeOK'
<1> USE DEF TypeInv, TypeOK, Wds, Wde, Wdp
<1>1. Head(lceDataResp[l]) \in DataRespMsg
  BY DropType DEF ReplaceWb, TransferWb, NetTypeOK
<1>2. Head(lceDataResp[l]).data \in Value
  BY <1>1 DEF DataRespMsg
<1>3. gad.lruTag \in Tag /\ req.tag \in Tag
  BY DEF CceTypeOK, GadRegs, Request
<1>4. memDataCmd' \in Seq(MemDataCmdMsg)
  BY <1>2, <1>3, WriteBackType, PushType DEF ReplaceWb, TransferWb, CceTypeOK
<1>5. rwbf' \in BOOLEAN /\ pending' \in BOOLEAN /\ pc' \in Labels
  BY DEF ReplaceWb, TransferWb, CceTypeOK, Labels
<1> QED
  BY <1>4, <1>5 DEF ReplaceWb, TransferWb, CceTypeOK

\* No microcode step empties a command FIFO.
LEMMA CceKeepsCmds ==
  ASSUME TypeInv, CceNext, NEW k \in LCE, lceCmd[k] # <<>>
  PROVE  lceCmd'[k] # <<>>
<1>1. lceCmd' = lceCmd \/ \E l, m : lceCmd' = Send(lceCmd, l, m)
  BY DEF CceNext, LceReq, InvSend, InvSkip, InvAck, Replace, ReplaceWb, MemResp,
         PopMemResp, Transfer, TransferWb, TransferMem, ReadL2Tr, ReadL2,
         MemDataResp, SendSetTag, CohAck, netVars
<1>2. ASSUME NEW l, NEW m PROVE Send(lceCmd, l, m)[k] # <<>>
  <2>1. lceCmd \in [LCE -> Seq(CmdMsg)]
    BY DEF TypeInv, TypeOK, NetTypeOK
  <2>2. Send(lceCmd, l, m)[k] = IF k = l THEN Append(lceCmd[k], m) ELSE lceCmd[k]
    BY <2>1 DEF Send
  <2>3. Append(lceCmd[k], m) # <<>>
    BY <2>1
  <2> QED
    BY <2>2, <2>3
<1> QED
  BY <1>1, <1>2

\* Every microcode step keeps the types.
LEMMA CceStepType ==
  ASSUME TypeInv, CceNext
  PROVE  NetTypeOK' /\ CceTypeOK' /\ LoopRange'
<1> USE DEF TypeInv, TypeOK, Wds, Wde, Wdp
<1> DEFINE Net == NetTypeOK'
           Goal == Net /\ CceTypeOK' /\ LoopRange'
<1>1. CASE InvSend
  <2>1. r0 \in LCE /\ gad.ways[r0] \in Way /\ req.tag \in Tag
    BY <1>1 DEF InvSend, CceTypeOK, LoopRange, LCE, GadRegs, Request
  <2>2. Net
    BY <1>1, <2>1, SendType DEF InvSend, NetTypeOK, CmdMsg, CohState
  <2>3. LoopRange'
    <3>1. pc' = InvTop(r0', r2') /\ r2' \in Nat
      BY <1>1 DEF InvSend, CceTypeOK
    <3> QED
      BY <3>1, JumpType DEF LoopRange
  <2> QED
    BY <1>1, <2>2, <2>3, InvSendType
<1>2. CASE InvSkip
  <2>1. Net
    BY <1>2 DEF InvSkip, NetTypeOK, netVars
  <2>2. LoopRange'
    <3>1. pc' = InvTop(r0', r2') /\ r2' \in Nat
      BY <1>2 DEF InvSkip, CceTypeOK
    <3> QED
      BY <3>1, JumpType DEF LoopRange
  <2> QED
    BY <1>2, <2>1, <2>2, InvSkipType
<1>3. CASE Replace
  <2>1. Net
    BY <1>3, SendType
    DEF Replace, NetTypeOK, CceTypeOK, Request, GadRegs, CmdMsg, CohState
  <2>2. CceTypeOK' /\ LoopRange'
    BY <1>3 DEF Replace, CceTypeOK, ctlVars, memQVars, Labels, LoopRange
  <2> QED
    BY <2>1, <2>2
<1>4. CASE MemResp
  <2>1. pc' \in Labels \ {"inv_top", "inv_ack_top"}
    BY <1>4, JumpType DEF MemResp, Labels
  <2>2. CceTypeOK'
    BY <1>4, <2>1, PopMemRespType DEF MemResp
  <2>3. Net /\ LoopRange'
    BY <1>4, <2>1 DEF MemResp, PopMemResp, NetTypeOK, netVars, LoopRange
  <2> QED
    BY <2>2, <2>3
<1>5. CASE Transfer
  <2>1. Net
    BY <1>5, SendType
    DEF Transfer, NetTypeOK, CceTypeOK, Request, GadRegs, CmdMsg, CohState
  <2>2. CceTypeOK' /\ LoopRange'
    BY <1>5 DEF Transfer, CceTypeOK, ctlVars, memQVars, Labels, LoopRange, Request, Entry
  <2> QED
    BY <2>1, <2>2
<1>6. CASE TransferMem
  <2>1. pc' \in Labels \ {"inv_top", "inv_ack_top"}
    BY <1>6, JumpType DEF TransferMem, Labels
  <2>2. CceTypeOK'
    BY <1>6, <2>1, PopMemRespType DEF TransferMem
  <2>3. Net /\ LoopRange'
    BY <1>6, <2>1 DEF TransferMem, PopMemResp, NetTypeOK, netVars, LoopRange
  <2> QED
    BY <2>2, <2>3
<1>7. CASE ReadL2Tr
  <2>1. Net /\ LoopRange'
    BY <1>7 DEF ReadL2Tr, NetTypeOK, netVars, LoopRange
  <2>2. MemCmd \in MemCmdMsg
    BY DEF CceTypeOK, Request, MemCmd, MemCmdMsg
  <2>3. CceTypeOK'
    BY <1>7, <2>2, PushType DEF ReadL2Tr, CceTypeOK, Labels, Request, Entry
  <2> QED
    BY <2>1, <2>3
<1>8. CASE ReadL2
  <2>1. Net /\ LoopRange'
    BY <1>8 DEF ReadL2, NetTypeOK, netVars, LoopRange
  <2>2. MemCmd \in MemCmdMsg
    BY DEF CceTypeOK, Request, MemCmd, MemCmdMsg
  <2>3. CceTypeOK'
    BY <1>8, <2>2, PushType DEF ReadL2, CceTypeOK, Labels, Request, Entry
  <2> QED
    BY <2>1, <2>3
<1>9. CASE MemDataResp
  <2>1. Net /\ LoopRange'
    BY <1>9, MemDataRespType DEF MemDataResp, LoopRange
  <2> QED
    BY <1>9, <2>1, MemDataRespType
<1>10. CASE SendSetTag
  <2>1. Net
    BY <1>10, SendType
    DEF SendSetTag, NetTypeOK, CceTypeOK, Request, GadRegs, CmdMsg, CohState
  <2>2. CceTypeOK' /\ LoopRange'
    BY <1>10 DEF SendSetTag, CceTypeOK, ctlVars, memQVars, Labels, LoopRange
  <2> QED
    BY <2>1, <2>2
<1>11. ASSUME NEW l \in LCE, LceReq(l) PROVE Goal
  <2>1. Net
    BY <1>11, DropType DEF LceReq, NetTypeOK
  <2> QED
    BY <1>11, <2>1, LceReqType
<1>12. ASSUME NEW l \in LCE, InvAck(l) PROVE Goal
  <2>1. Net
    BY <1>12, DropType DEF InvAck, NetTypeOK
  <2>2. r2' \in Nat /\ (r2' # 0 => r2' > 0) /\ pc' = InvAckTop(r2')
    BY <1>12 DEF InvAck, CceTypeOK, LoopRange
  <2>3. pc' \in Labels /\ LoopRange'
    BY <2>2, JumpType DEF LoopRange
  <2> QED
    BY <1>12, <2>1, <2>2, <2>3 DEF InvAck, CceTypeOK, memQVars
<1>13. ASSUME NEW l \in LCE, ReplaceWb(l) PROVE Goal
  <2>1. Net /\ LoopRange'
    BY <1>13, DropType DEF ReplaceWb, NetTypeOK, LoopRange
  <2> QED
    BY <1>13, <2>1, WbType
<1>14. ASSUME NEW l \in LCE, TransferWb(l) PROVE Goal
  <2>1. Net /\ LoopRange'
    BY <1>14, DropType DEF TransferWb, NetTypeOK, LoopRange
  <2> QED
    BY <1>14, <2>1, WbType
<1>15. ASSUME NEW l \in LCE, CohAck(l) PROVE Goal
  <2>1. Net
    BY <1>15, DropType DEF CohAck, NetTypeOK
  <2>2. CceTypeOK' /\ LoopRange'
    BY <1>15 DEF CohAck, CceTypeOK, ctlVars, memQVars, Labels, LoopRange
  <2> QED
    BY <2>1, <2>2
<1> QED
  BY <1>1, <1>2, <1>3, <1>4, <1>5, <1>6, <1>7, <1>8, <1>9, <1>10, <1>11, <1>12, <1>13, <1>14, <1>15 DEF CceNext

\* An LCE's step keeps the types, and a writeback's command stays where it is
\* until it is answered.
LEMMA LceStepType ==
  ASSUME TypeInv, NEW l \in LCE, LceStep(l)
  PROVE  NetTypeOK' /\ LceTypeOK' /\ CmdHeld'
<1> USE DEF TypeInv, TypeOK, reqFsm, cmdFsm, arrays, netVars, Wakeup
<1> DEFINE Goal == NetTypeOK' /\ LceTypeOK' /\ CmdHeld'
<1>0. ASSUME lceCmd[l] # <<>>
      PROVE  Head(lceCmd[l]) \in CmdMsg /\ Drop(lceCmd, l) \in [LCE -> Seq(CmdMsg)]
  BY <1>0, DropType DEF NetTypeOK
<1>1. CASE SendReq(l)
  <2>1. NetTypeOK'
    BY <1>1, SendType DEF SendReq, NetTypeOK, LceTypeOK
  <2>2. LceTypeOK'
    BY <1>1 DEF SendReq, LceTypeOK, ReqState
  <2>3. CmdHeld'
    BY <1>1 DEF SendReq, CmdHeld, LceTypeOK, NetTypeOK
  <2> QED
    BY <2>1, <2>2, <2>3
<1>2. CASE RecvData(l)
  <2>1. Head(lceDataCmd[l]) \in DataCmdMsg /\ lceDataCmd' \in [LCE -> Seq(DataCmdMsg)]
    BY <1>2, DropType DEF RecvData, NetTypeOK, DataCmdMsg
  <2>2. NetTypeOK'
    BY <1>2, <2>1 DEF RecvData, NetTypeOK
  <2>3. LceTypeOK'
    BY <1>2, <2>1 DEF RecvData, LceTypeOK, ReqState, DataCmdMsg
  <2>4. CmdHeld'
    BY <1>2, <2>1 DEF RecvData, CmdHeld, LceTypeOK, NetTypeOK
  <2> QED
    BY <2>2, <2>3, <2>4
<1>3. CASE SendCohAck(l)
  <2>1. NetTypeOK'
    BY <1>3, SendType DEF SendCohAck, NetTypeOK, LceTypeOK, RespMsg, AckType, ReqMsg
  <2>2. LceTypeOK'
    BY <1>3 DEF SendCohAck, LceTypeOK, ReqState
  <2>3. CmdHeld'
    BY <1>3 DEF SendCohAck, CmdHeld, LceTypeOK, NetTypeOK
  <2> QED
    BY <2>1, <2>2, <2>3
<1>4. CASE SetTag(l)
  <2>1. lceCmd[l] # <<>> /\ Head(lceCmd[l]) \in CmdMsg
    BY <1>4, <1>0 DEF SetTag, Commanded, CmdHeld, LceTypeOK
  <2>2. NetTypeOK'
    BY <1>4, <2>1, <1>0 DEF SetTag, NetTypeOK
  <2>3. LceTypeOK'
    BY <1>4, <2>1 DEF SetTag, LceTypeOK, ReqState, CmdMsg, Entry
  <2>4. CmdHeld'
    BY <1>4, <2>1 DEF SetTag, Commanded, CmdHeld, LceTypeOK, NetTypeOK, Drop
  <2> QED
    BY <2>2, <2>3, <2>4
<1>5. CASE InvTag(l)
  <2>1. lceCmd[l] # <<>> /\ Head(lceCmd[l]) \in CmdMsg
    BY <1>5, <1>0 DEF InvTag, Commanded, CmdHeld, LceTypeOK
  <2>2. NetTypeOK'
    BY <1>5, <2>1 DEF InvTag, NetTypeOK
  <2>3. LceTypeOK'
    BY <1>5, <2>1 DEF InvTag, LceTypeOK, CmdMsg, Entry, CohState
  <2>4. CmdHeld'
    BY <1>5, <2>1 DEF InvTag, CmdHeld, LceTypeOK, NetTypeOK
  <2> QED
    BY <2>2, <2>3, <2>4
<1>6. CASE SendInvAck(l)
  <2>1. lceCmd[l] # <<>> /\ Head(lceCmd[l]) \in CmdMsg
    BY <1>6, <1>0 DEF SendInvAck, Commanded, CmdHeld, LceTypeOK
  <2>2. NetTypeOK'
    BY <1>6, <2>1, <1>0, SendType DEF SendInvAck, NetTypeOK, RespMsg, AckType, CmdMsg
  <2>3. LceTypeOK'
    BY <1>6, <2>1 DEF SendInvAck, LceTypeOK
  <2>4. CmdHeld'
    BY <1>6, <2>1 DEF SendInvAck, Commanded, CmdHeld, LceTypeOK, NetTypeOK, Drop
  <2> QED
    BY <2>2, <2>3, <2>4
<1>7. CASE WbCheck(l)
  <2>1. lceCmd[l] # <<>> /\ Head(lceCmd[l]) \in CmdMsg
    BY <1>7, <1>0 DEF WbCheck, Commanded, CmdHeld, LceTypeOK
  <2>2. NetTypeOK'
    BY <1>7, <2>1 DEF WbCheck, NetTypeOK
  <2>3. LceTypeOK'
    BY <1>7, <2>1 DEF WbCheck, LceTypeOK, CmdState
  <2>4. CmdHeld'
    BY <1>7, <2>1 DEF WbCheck, CmdHeld, LceTypeOK, NetTypeOK
  <2> QED
    BY <2>2, <2>3, <2>4
<1>8. CASE WbRead(l)
  <2>1. lceCmd[l] # <<>> /\ Head(lceCmd[l]) \in CmdMsg
    BY <1>8, <1>0 DEF WbRead, Commanded, CmdHeld, LceTypeOK
  <2>2. NetTypeOK'
    BY <1>8, <2>1 DEF WbRead, NetTypeOK
  <2>3. LceTypeOK'
    BY <1>8, <2>1 DEF WbRead, LceTypeOK, CmdState, CmdMsg
  <2>4. CmdHeld'
    BY <1>8, <2>1 DEF WbRead, CmdHeld, LceTypeOK, NetTypeOK
  <2> QED
    BY <2>2, <2>3, <2>4
<1>9. CASE WbClear(l)
  <2>1. lceCmd[l] # <<>> /\ Head(lceCmd[l]) \in CmdMsg
    BY <1>9, <1>0 DEF WbClear, Commanded, CmdHeld, LceTypeOK
  <2>2. NetTypeOK'
    BY <1>9, <2>1 DEF WbClear, NetTypeOK
  <2>3. LceTypeOK'
    BY <1>9, <2>1 DEF WbClear, LceTypeOK, CmdState
  <2>4. CmdHeld'
    BY <1>9, <2>1 DEF WbClear, CmdHeld, LceTypeOK, NetTypeOK
  <2> QED
    BY <2>2, <2>3, <2>4
<1>10. CASE SendWb(l)
  <2>1. lceCmd[l] # <<>> /\ Head(lceCmd[l]) \in CmdMsg
    BY <1>10, <1>0 DEF SendWb, Commanded, CmdHeld, LceTypeOK
  <2>2. NetTypeOK'
    BY <1>10, <2>1, <1>0, SendType DEF SendWb, NetTypeOK, LceTypeOK, DataRespMsg, CmdMsg
  <2>3. LceTypeOK'
    BY <1>10, <2>1 DEF SendWb, LceTypeOK, CmdState
  <2>4. CmdHeld'
    BY <1>10, <2>1 DEF SendWb, CmdHeld, LceTypeOK, NetTypeOK, Drop
  <2> QED
    BY <2>2, <2>3, <2>4
<1>11. CASE SendNullWb(l)
  <2>1. lceCmd[l] # <<>> /\ Head(lceCmd[l]) \in CmdMsg
    BY <1>11, <1>0 DEF SendNullWb, Commanded, CmdHeld, LceTypeOK
  <2>2. NetTypeOK'
    BY <1>11, <2>1, <1>0, SendType, MeAssumption DEF SendNullWb, NetTypeOK, DataRespMsg, CmdMsg
  <2>3. LceTypeOK'
    BY <1>11, <2>1 DEF SendNullWb, LceTypeOK, CmdState
  <2>4. CmdHeld'
    BY <1>11, <2>1 DEF SendNullWb, CmdHeld, LceTypeOK, NetTypeOK, Drop
  <2> QED
    BY <2>2, <2>3, <2>4
<1> QED
  BY <1>1, <1>2, <1>3, <1>4, <1>5, <1>6, <1>7, <1>8, <1>9, <1>10, <1>11 DEF LceStep

\* The processor's side: stores and misses.
LEMMA ProcessorType ==
  ASSUME TypeInv, NEW l \in LCE, NEW t \in Tag, NEW v \in Value,
         NEW wr \in BOOLEAN, Store(l, t, v) \/ Miss(l, t, wr)
  PROVE  NetTypeOK' /\ LceTypeOK' /\ CmdHeld'
<1> USE DEF TypeInv, TypeOK, reqFsm, cmdFsm, arrays, netVars
<1>1. NetTypeOK' /\ CmdHeld'
  BY DEF Store, Miss, NetTypeOK, CmdHeld
<1>2. CASE Store(l, t, v)
  <2>1. PICK w \in Way : /\ dirty' = [dirty EXCEPT ![l][w] = TRUE]
                         /\ data' = [data EXCEPT ![l][w] = v]
    BY <1>2 DEF Store
  <2>2. dirty' \in [LCE -> [Way -> BOOLEAN]] /\ data' \in [LCE -> [Way -> Value]]
    BY <2>1 DEF LceTypeOK
  <2>3. /\ lceSt' = lceSt /\ miss' = miss /\ dataRcv' = dataRcv
        /\ tagSet' = tagSet /\ cmdSt' = cmdSt /\ invd' = invd /\ buf' = buf
        /\ tags' = tags
    BY <1>2 DEF Store
  <2> QED
    BY <1>1, <2>2, <2>3 DEF LceTypeOK
<1>3. CASE Miss(l, t, wr)
  <2>1. PICK w \in Victims(l) :
          miss' = [miss EXCEPT ![l] = [wr |-> wr, tag |-> t, way |-> w,
                                       dirty |-> dirty[l][w]]]
    BY <1>3 DEF Miss
  <2>2. w \in Way
    BY DEF Victims
  <2>3. miss' \in [LCE -> ReqMsg]
    BY <2>1, <2>2 DEF LceTypeOK, ReqMsg
  <2>4. /\ lceSt' \in [LCE -> ReqState]
        /\ dataRcv' \in [LCE -> BOOLEAN] /\ tagSet' \in [LCE -> BOOLEAN]
    BY <1>3 DEF Miss, LceTypeOK, ReqState
  <2>5. /\ cmdSt' = cmdSt /\ invd' = invd /\ buf' = buf
        /\ tags' = tags /\ dirty' = dirty /\ data' = data
    BY <1>3 DEF Miss
  <2> QED
    BY <1>1, <2>3, <2>4, <2>5 DEF LceTypeOK
<1> QED
  BY <1>1, <1>2, <1>3

LEMMA MemoryType ==
  ASSUME TypeInv, MemWrite \/ MemRead
  PROVE  TypeInv'
<1> USE DEF TypeInv, TypeOK
<1>1. NetTypeOK' /\ LceTypeOK' /\ LoopRange' /\ CmdHeld'
  BY DEF MemWrite, MemRead, netVars, lceVars, reqFsm, cmdFsm, arrays, ctlVars,
         NetTypeOK, LceTypeOK, LoopRange, CmdHeld
<1>2. CASE MemWrite
  <2>1. Head(memDataCmd) \in MemDataCmdMsg /\ memDataCmd' \in Seq(MemDataCmdMsg)
    BY <1>2, HeadType DEF MemWrite, CceTypeOK
  <2>2. memResp' \in Seq(Payload) /\ mem' \in [Tag -> Value]
    BY <1>2, <2>1, PushType DEF MemWrite, CceTypeOK, MemDataCmdMsg
  <2> QED
    BY <1>1, <1>2, <2>1, <2>2 DEF MemWrite, CceTypeOK, ctlVars
<1>3. CASE MemRead
  <2>1. Head(memCmd) \in MemCmdMsg /\ memCmd' \in Seq(MemCmdMsg)
    BY <1>3, HeadType DEF MemRead, CceTypeOK
  <2>2. [data |-> mem[Head(memCmd).tag], cmd |-> Head(memCmd)] \in MemDataRespMsg
    BY <2>1 DEF MemCmdMsg, MemDataRespMsg
  <2>3. memDataResp' \in Seq(MemDataRespMsg)
    BY <1>3, <2>2, PushType DEF MemRead, CceTypeOK
  <2> QED
    BY <1>1, <1>3, <2>1, <2>3 DEF MemRead, CceTypeOK, ctlVars
<1> QED
  BY <1>2, <1>3

LEMMA TypeInvStep == TypeInv /\ [Next]_vars => TypeInv'
<1> SUFFICES ASSUME TypeInv, [Next]_vars PROVE TypeInv'
  OBVIOUS
<1> USE DEF TypeInv, TypeOK
<1>1. CASE CceNext /\ UNCHANGED <<lceVars, mem>>
  <2>1. NetTypeOK' /\ CceTypeOK' /\ LoopRange'
    BY <1>1, CceStepType
  <2>2. LceTypeOK' /\ mem' \in [Tag -> Value]
    BY <1>1 DEF lceVars, reqFsm, cmdFsm, arrays, LceTypeOK
  <2>3. CmdHeld'
    BY <1>1, CceKeepsCmds DEF lceVars, cmdFsm, CmdHeld
  <2> QED
    BY <2>1, <2>2, <2>3
<1>2. CASE LceNext /\ UNCHANGED <<cceVars, mem>>
  <2>1. NetTypeOK' /\ LceTypeOK' /\ CmdHeld'
    <3>1. PICK l \in LCE : \/ LceStep(l)
                           \/ \E t \in Tag, v \in Value, wr \in BOOLEAN :
                                Store(l, t, v) \/ Miss(l, t, wr)
      BY <1>2, MeAssumption DEF LceNext
    <3> QED
      BY <3>1, LceStepType, ProcessorType
  <2>2. CceTypeOK' /\ LoopRange' /\ mem' \in [Tag -> Value]
    BY <1>2 DEF cceVars, ctlVars, memQVars, CceTypeOK, LoopRange
  <2> QED
    BY <2>1, <2>2
<1>3. CASE MemWrite \/ MemRead
  BY <1>3, MemoryType
<1>4. CASE UNCHANGED vars
  BY <1>4 DEF vars, netVars, lceVars, reqFsm, cmdFsm, arrays, cceVars, ctlVars,
              memQVars, NetTypeOK, CceTypeOK, LceTypeOK, LoopRange, CmdHeld
<1> QED
  BY <1>1, <1>2, <1>3, <1>4 DEF Next

\* Every reachable state has the types the RTL declares; in particular the
\* invalidation loop never indexes past the last LCE and no decrement of the
\* acknowledgement count passes zero.
THEOREM TypeCorrect == Spec => []TypeOK
<1>1. TypeInv => TypeOK
  BY DEF TypeInv
<1> QED
  BY TypeInvInit, TypeInvStep, <1>1, PTL DEF Spec

-----------------------------------------------------------------------------
(* Coherence.                                                              *)

\* Everything the part of the invariant about LCEs and directory looks at but
\* the engine's own registers.
lceView == <<lceReq, lceResp, lceDataResp, lceCmd, lceSt, miss, tagSet, cmdSt,
             invd, tags>>

-----------------------------------------------------------------------------
(* The memory.                                                             *)

\* A step of the memory that keeps its half of the invariant keeps the rest.
LEMMA MemoryFrame ==
  ASSUME CoherenceInv, UNCHANGED <<pc, ctlVars, lceView>>,
         MemWriteInv', MemReadInv'
  PROVE  CoherenceInv'
<1> USE DEF CoherenceInv, ctlVars, lceView
<1>1. EngineInv'
  BY DEF EngineInv, PendingInv, ExclusiveOnly, RoutineInv, InvPhase
<1>2. LceInv'
  BY DEF LceInv, CommandInv, AnswerInv, RequestInv, AbsentInv, MayHold, InvMsg,
         SetTagMsg, InvPhase, Targets, Unserved, Served, Finishing, TagWritten
<1>3. CountInv'
  BY DEF CountInv, Outstanding, InvPhase
<1>4. DirInv' /\ SingleCopy'
  BY DEF DirInv, DirUnique, OwnersInv, ForgottenInv, FillInv, TagStates,
         DirectoryAccurate, SingleCopy, InvPhase, FillPhase, Targets, FillUnderWay,
         InvUnderWay
<1> QED
  BY <1>1, <1>2, <1>3, <1>4

LEMMA MemWriteInd ==
  ASSUME TypeInv, CoherenceInv, MemWrite
  PROVE  CoherenceInv'
<1>1. UNCHANGED <<pc, ctlVars, lceView>>
  BY DEF MemWrite, ctlVars, netVars, lceVars, reqFsm, cmdFsm, arrays, lceView
<1>2. MemReadInv'
  BY DEF MemWrite, CoherenceInv, EngineInv, MemReadInv, MemCmd, ctlVars
<1>3. MemWriteInv'
  <2>1. MemWriteInv
    BY DEF CoherenceInv, EngineInv
  <2> DEFINE pl == WriteBack(req.tag, Zero).pl
  <2>2. pl' = pl
    BY <1>1 DEF ctlVars, WriteBack
  <2>3. PICK t \in Tag, d \in Value :
          /\ pc \in {"mem_resp", "transfer_mem"} /\ memResp = <<>>
          /\ memDataCmd = <<[tag |-> t, data |-> d, pl |-> pl]>>
    BY <2>1 DEF MemWriteInv, MemWrite
  <2>4. memResp' = <<pl>> /\ memDataCmd' = <<>>
    BY <2>3 DEF MemWrite
  <2> QED
    BY <1>1, <2>2, <2>3, <2>4 DEF MemWriteInv
<1> QED
  BY <1>1, <1>2, <1>3, MemoryFrame

LEMMA MemReadInd ==
  ASSUME TypeInv, CoherenceInv, MemRead
  PROVE  CoherenceInv'
<1>1. UNCHANGED <<pc, ctlVars, lceView>>
  BY DEF MemRead, ctlVars, netVars, lceVars, reqFsm, cmdFsm, arrays, lceView
<1>2. MemWriteInv'
  BY DEF MemRead, CoherenceInv, EngineInv, MemWriteInv, WriteBack, ctlVars
<1>3. MemReadInv'
  <2>1. MemReadInv
    BY DEF CoherenceInv, EngineInv
  <2>2. MemCmd' = MemCmd
    BY <1>1 DEF ctlVars, MemCmd
  <2>3. pc = "mem_data_resp" /\ memDataResp = <<>> /\ memCmd = <<MemCmd>>
    BY <2>1 DEF MemReadInv, MemRead
  <2>4. memDataResp' = <<[data |-> mem[MemCmd.tag], cmd |-> MemCmd]>>
        /\ memCmd' = <<>>
    BY <2>3 DEF MemRead
  <2>5. mem[MemCmd.tag] \in Value
    BY DEF TypeInv, TypeOK, CceTypeOK, MemCmd, Request
  <2> QED
    BY <1>1, <2>2, <2>3, <2>4, <2>5 DEF MemReadInv
<1> QED
  BY <1>1, <1>2, <1>3, MemoryFrame
-----------------------------------------------------------------------------
(* The invalidation routine.                                               *)

LEMMA OutstandingFinite == IsFiniteSet(Outstanding)
<1>1. IsFiniteSet(LCE)
  BY FS_Interval, MeAssumption DEF LCE
<1>2. Outstanding \in SUBSET LCE
  BY DEF Outstanding
<1> QED
  BY <1>1, <1>2, FS_Subset

\* When the count is zero every acknowledgement has been taken.
LEMMA Settled ==
  ASSUME CoherenceInv, InvPhase, r2 = 0
  PROVE  \A l \in LCE : lceCmd[l] = <<>> /\ lceResp[l] = <<>>
<1>1. Outstanding = {}
  BY OutstandingFinite, FS_EmptySet DEF CoherenceInv, CountInv
<1> QED
  BY <1>1 DEF Outstanding

\* Where the routine's branches lead when nothing is an upgrade.
LEMMA LoopJump ==
  ASSUME ~gad.uf, NEW i, NEW n
  PROVE  /\ \/ InvTop(i, n) = "inv_top" /\ i < NumLce
            \/ InvTop(i, n) = InvAckTop(n) /\ ~(i < NumLce)
         /\ \/ InvAckTop(n) = "inv_ack_top" /\ n # 0
            \/ n = 0 /\ InvAckTop(n) = "replace" /\ gad.rf
            \/ n = 0 /\ InvAckTop(n) \in {"transfer", "read_l2"}
BY DEF InvTop, InvAckTop, UpgradeCheck, ReplaceCheck, TransferCheck

LEMMA InvSkipInd ==
  ASSUME TypeInv, TypeInv', CoherenceInv, InvSkip, UNCHANGED lceVars
  PROVE  CoherenceInv'
<1>0. /\ pc = "inv_top" /\ r0 \notin Targets /\ r0' = r0 + 1 /\ r2' = r2
      /\ pc' = InvTop(r0 + 1, r2)
      /\ UNCHANGED <<dir, pending, req, gad, nextCoh, memQVars, lceView>>
  BY DEF InvSkip, Targets, netVars, lceVars, reqFsm, cmdFsm, arrays, lceView
<1>1. InvPhase /\ ~gad.uf /\ ~pending
  BY <1>0 DEF CoherenceInv, EngineInv, RoutineInv, PendingInv, InvPhase
<1>2. \/ pc' = "inv_top" /\ r0 + 1 < NumLce
      \/ pc' = "inv_ack_top" /\ ~(r0 + 1 < NumLce)
      \/ pc' = "replace" /\ gad.rf /\ r2 = 0 /\ ~(r0 + 1 < NumLce)
      \/ pc' \in {"transfer", "read_l2"} /\ r2 = 0 /\ ~(r0 + 1 < NumLce)
  BY <1>0, <1>1, LoopJump
<1>3. EngineInv'
  BY <1>0, <1>1, <1>2 DEF CoherenceInv, EngineInv, PendingInv, ExclusiveOnly, RoutineInv,
    InvPhase, MemWriteInv, MemReadInv, memQVars, WriteBack, MemCmd
<1>4. ASSUME NEW l \in LCE
      PROVE  CommandInv(l)' /\ AnswerInv(l)' /\ RequestInv(l)' /\ AbsentInv(l)'
  <2>1. CommandInv(l) /\ AnswerInv(l) /\ RequestInv(l) /\ AbsentInv(l)
    BY DEF CoherenceInv, LceInv
  <2>2. r0 \in Int /\ l \in Int
    BY DEF TypeInv, TypeOK, CceTypeOK, LCE
  <2>3. \/ pc' \in {"inv_top", "inv_ack_top"}
        \/ /\ pc' \in {"replace", "transfer", "read_l2"}
           /\ lceCmd[l] = <<>> /\ lceResp[l] = <<>>
    BY <1>1, <1>2, Settled
  <2>4. CommandInv(l)'
    BY <1>0, <2>1, <2>2, <2>3 DEF CommandInv, MayHold, InvPhase, InvMsg, Targets, lceView
  <2>5. AnswerInv(l)'
    BY <1>0, <2>1, <2>2, <2>3 DEF AnswerInv, InvPhase, Targets, lceView
  <2>6. RequestInv(l)' /\ AbsentInv(l)'
    BY <1>0, <2>1, <2>3 DEF RequestInv, AbsentInv, Unserved, Served, lceView
  <2> QED
    BY <2>4, <2>5, <2>6
<1>5. CountInv'
  BY <1>0, <1>1 DEF CoherenceInv, CountInv, Outstanding, lceView
<1>6. OwnersInv'
  <2>1. OwnersInv /\ r0 \in Int /\ NumLce \in Nat
    BY MeAssumption DEF CoherenceInv, DirInv, TypeInv, TypeOK, CceTypeOK
  <2> SUFFICES ASSUME NEW l \in LCE, NEW w \in Way,
                      dir[l][w].st # "I", dir[l][w].tag = req.tag
               PROVE  pc' = "inv_top" /\ l \in Targets /\ l >= r0 + 1 /\ w = gad.ways[l]
    BY <1>0 DEF OwnersInv, Targets
  <2>2. l \in Targets /\ l >= r0 /\ w = gad.ways[l]
    BY <2>1, <1>0 DEF OwnersInv, FillPhase
  <2>3. l >= r0 + 1 /\ r0 + 1 < NumLce
    BY <2>1, <2>2, <1>0 DEF LCE
  <2> QED
    BY <1>2, <2>2, <2>3
<1>8. ForgottenInv'
  <2> SUFFICES ASSUME NEW l \in Targets, l < r0 + 1
               PROVE  dir[l][gad.ways[l]].st = "I"
    BY <1>0 DEF ForgottenInv, Targets
  <2>1. l \in Int /\ r0 \in Int /\ l # r0
    BY <1>0 DEF TypeInv, TypeOK, CceTypeOK, Targets, GadRegs, LCE
  <2> QED
    BY <1>1, <2>1 DEF CoherenceInv, DirInv, ForgottenInv
<1>7. DirInv' /\ SingleCopy'
  BY <1>0, <1>2, <1>6, <1>8 DEF CoherenceInv, DirInv, DirUnique, FillInv, TagStates, DirectoryAccurate,
         SingleCopy, FillPhase, FillUnderWay, InvUnderWay, lceView
<1> QED
  BY <1>3, <1>4, <1>5, <1>7 DEF CoherenceInv, LceInv

LEMMA InvSendInd ==
  ASSUME TypeInv, TypeInv', CoherenceInv, InvSend, UNCHANGED lceVars
  PROVE  CoherenceInv'
<1> DEFINE wy == gad.ways[r0]
<1>0. /\ pc = "inv_top" /\ r0 \in Targets /\ r0' = r0 + 1 /\ r2' = r2 + 1
      /\ pc' = InvTop(r0 + 1, r2 + 1)
      /\ lceCmd' = Send(lceCmd, r0, InvMsg(r0))
      /\ dir' = [dir EXCEPT ![r0][wy] = [tag |-> @.tag, st |-> "I"]]
      /\ UNCHANGED <<pending, req, gad, nextCoh, memQVars, lceReq, lceResp,
                     lceDataResp, lceSt, miss, tagSet, cmdSt, invd, tags>>
  BY DEF InvSend, Targets, InvMsg, Wds, lceVars, reqFsm, cmdFsm, arrays
<1>1. InvPhase /\ ~gad.uf /\ ~pending
  BY <1>0 DEF CoherenceInv, EngineInv, RoutineInv, PendingInv, InvPhase
<1>2. /\ r2 \in Nat /\ NumLce \in Nat /\ r0 \in Nat /\ r0 \in LCE /\ wy \in Way
      /\ dir \in [LCE -> [Way -> Entry]] /\ lceCmd \in [LCE -> Seq(CmdMsg)]
      /\ InvMsg(r0) \in CmdMsg
  <2>1. r0 \in LCE /\ wy \in Way /\ req.tag \in Tag
    BY <1>0 DEF TypeInv, TypeOK, CceTypeOK, Targets, GadRegs, Request
  <2>2. InvMsg(r0) \in CmdMsg
    BY <2>1 DEF InvMsg, CmdMsg, CohState
  <2>3. r0 \in 0 .. NumLce /\ r2 \in Nat /\ dir \in [LCE -> [Way -> Entry]]
    BY DEF TypeInv, TypeOK, CceTypeOK
  <2>4. NumLce \in Nat
    BY MeAssumption
  <2>5. r0 \in Nat
    BY <2>3, <2>4
  <2>6. lceCmd \in [LCE -> Seq(CmdMsg)]
    BY DEF TypeInv, TypeOK, NetTypeOK
  <2> QED
    BY <2>1, <2>2, <2>3, <2>4, <2>5, <2>6
<1>3. \/ pc' = "inv_top" /\ r0 + 1 < NumLce
      \/ pc' = "inv_ack_top" /\ ~(r0 + 1 < NumLce)
  BY <1>0, <1>1, <1>2, LoopJump
<1>4. EngineInv'
  <2>1. ExclusiveOnly'
    BY <1>0, <1>2 DEF CoherenceInv, EngineInv, ExclusiveOnly, Entry
  <2> QED
    BY <1>0, <1>1, <1>3, <2>1 DEF CoherenceInv, EngineInv, PendingInv, RoutineInv,
      MemWriteInv, MemReadInv, memQVars, WriteBack, MemCmd
<1>5. /\ lceCmd[r0] = <<>> /\ lceResp[r0] = <<>> /\ lceDataResp[r0] = <<>>
      /\ cmdSt[r0] = "ready" /\ ~invd[r0]
  <2>1. CommandInv(r0) /\ AnswerInv(r0)
    BY <1>2 DEF CoherenceInv, LceInv
  <2> QED
    BY <2>1, <1>0, <1>2 DEF CommandInv, AnswerInv, MayHold
<1>6. /\ lceCmd'[r0] = <<InvMsg(r0)>>
      /\ \A l \in LCE : l # r0 => lceCmd'[l] = lceCmd[l]
  BY <1>0, <1>2, <1>5 DEF Send
<1>7. ASSUME NEW l \in LCE
      PROVE  CommandInv(l)' /\ AnswerInv(l)' /\ RequestInv(l)' /\ AbsentInv(l)'
  <2>1. CommandInv(l) /\ AnswerInv(l) /\ RequestInv(l) /\ AbsentInv(l)
    BY DEF CoherenceInv, LceInv
  <2>2. l \in Int
    BY DEF LCE
  <2>3. CASE l = r0
    <3>1. MayHold(l, InvMsg(l))'
      BY <1>0, <1>2, <1>3, <2>3 DEF MayHold, InvPhase, InvMsg, Targets
    <3>2. CommandInv(l)'
      BY <1>0, <1>2, <1>5, <1>6, <2>3, <3>1 DEF CommandInv, InvMsg
    <3> QED
      BY <1>0, <1>3, <1>5, <2>1, <2>3, <3>2
      DEF AnswerInv, RequestInv, AbsentInv, Unserved, Served
  <2>4. CASE l # r0
    <3>1. CommandInv(l)'
      BY <1>0, <1>2, <1>3, <1>6, <2>1, <2>2, <2>4
      DEF CommandInv, MayHold, InvPhase, InvMsg, Targets
    <3>2. AnswerInv(l)'
      BY <1>0, <1>2, <1>3, <2>1, <2>2 DEF AnswerInv, InvPhase, Targets
    <3> QED
      BY <1>0, <1>3, <2>1, <3>1, <3>2 DEF RequestInv, AbsentInv, Unserved, Served
  <2> QED
    BY <2>3, <2>4
<1>8. CountInv'
  <2>1. Outstanding' = Outstanding \cup {r0} /\ r0 \notin Outstanding
    <3>1. lceCmd'[r0] # <<>> /\ lceResp' = lceResp
      BY <1>0, <1>6
    <3>2. \A l \in LCE : l \in Outstanding' <=> l \in Outstanding \/ l = r0
      BY <1>6, <3>1 DEF Outstanding
    <3> QED
      BY <1>2, <1>5, <3>2 DEF Outstanding
  <2>2. Cardinality(Outstanding') = r2 + 1
    BY <2>1, <1>1, OutstandingFinite, FS_AddElement DEF CoherenceInv, CountInv
  <2> QED
    BY <1>0, <2>2 DEF CountInv
<1>9. /\ dir'[r0][wy].st = "I"
      /\ \A l \in LCE, w \in Way : ~(l = r0 /\ w = wy) => dir'[l][w] = dir[l][w]
  BY <1>0, <1>2
<1>10. OwnersInv'
  <2>1. OwnersInv
    BY DEF CoherenceInv, DirInv
  <2> SUFFICES ASSUME NEW l \in LCE, NEW w \in Way,
                      dir'[l][w].st # "I", dir'[l][w].tag = req.tag
               PROVE  pc' = "inv_top" /\ l \in Targets /\ l >= r0 + 1 /\ w = gad.ways[l]
    BY <1>0 DEF OwnersInv, Targets
  <2>2. dir[l][w] = dir'[l][w] /\ ~(l = r0 /\ w = wy)
    BY <1>9
  <2>3. l \in Targets /\ l >= r0 /\ w = gad.ways[l]
    BY <2>1, <2>2, <1>0 DEF OwnersInv, FillPhase
  <2>4. l >= r0 + 1 /\ r0 + 1 < NumLce
    BY <1>2, <2>2, <2>3 DEF LCE
  <2> QED
    BY <1>3, <1>2, <2>3, <2>4
<1>11. DirectoryAccurate'
  <2> SUFFICES ASSUME NEW l \in LCE, NEW w \in Way
               PROVE  \/ InvUnderWay(l, w)' /\ dir'[l][w].st = "I"
                      \/ /\ dir'[l][w].st = tags'[l][w].st
                         /\ dir'[l][w].st # "I" => dir'[l][w].tag = tags'[l][w].tag
    BY DEF DirectoryAccurate
  <2>1. ~FillUnderWay(l, w)
    BY <1>0 DEF FillUnderWay
  <2>2. CASE l = r0 /\ w = wy
    BY <1>0, <1>5, <1>6, <1>9, <2>2 DEF InvUnderWay, InvMsg
  <2>3. CASE l = r0 /\ w # wy
    BY <1>0, <1>5, <1>9, <2>1, <2>3 DEF CoherenceInv, DirInv, DirectoryAccurate, InvUnderWay
  <2>4. CASE l # r0
    BY <1>0, <1>6, <1>9, <2>1, <2>4 DEF CoherenceInv, DirInv, DirectoryAccurate, InvUnderWay
  <2> QED
    BY <2>2, <2>3, <2>4
<1>12. DirUnique'
  BY <1>9 DEF CoherenceInv, DirInv, DirUnique
<1>13. FillInv' /\ TagStates' /\ SingleCopy'
  BY <1>0, <1>3 DEF CoherenceInv, DirInv, FillInv, TagStates, SingleCopy, FillPhase
<1>14. ForgottenInv'
  <2> SUFFICES ASSUME NEW l \in Targets, l < r0 + 1
               PROVE  dir'[l][gad.ways[l]].st = "I"
    BY <1>0 DEF ForgottenInv, Targets
  <2>0. gad \in GadRegs
    BY DEF TypeInv, TypeOK, CceTypeOK
  <2>3. gad.hits \in SUBSET LCE /\ gad.ways \in [LCE -> Way]
    BY <2>0 DEF GadRegs
  <2>4. l \in LCE
    BY <2>3 DEF Targets
  <2>5. l \in Int
    BY <2>4 DEF LCE
  <2>1. l \in LCE /\ gad.ways[l] \in Way /\ l \in Int
    BY <2>3, <2>4, <2>5
  <2>2. l # r0 => dir[l][gad.ways[l]].st = "I"
    BY <1>1, <1>2, <2>1 DEF CoherenceInv, DirInv, ForgottenInv
  <2> QED
    BY <1>9, <2>1, <2>2
<1> QED
  BY <1>4, <1>7, <1>8, <1>10, <1>11, <1>12, <1>13, <1>14 DEF CoherenceInv, LceInv, DirInv

LEMMA InvAckInd ==
  ASSUME TypeInv, TypeInv', CoherenceInv, NEW l \in LCE, InvAck(l), UNCHANGED lceVars
  PROVE  CoherenceInv'
<1>0. /\ pc = "inv_ack_top" /\ lceResp[l] # <<>> /\ r0' = r0 /\ r2' = r2 - 1
      /\ pc' = InvAckTop(r2 - 1)
      /\ lceResp' = Drop(lceResp, l)
      /\ UNCHANGED <<dir, pending, req, gad, nextCoh, memQVars, lceReq, lceCmd,
                     lceDataResp, lceSt, miss, tagSet, cmdSt, invd, tags>>
  BY DEF InvAck, lceVars, reqFsm, cmdFsm, arrays
<1>1. InvPhase /\ ~gad.uf /\ ~pending
  BY <1>0 DEF CoherenceInv, EngineInv, RoutineInv, PendingInv, InvPhase
<1>2. r2 \in Nat /\ lceResp \in [LCE -> Seq(RespMsg)]
  BY DEF TypeInv, TypeOK, CceTypeOK, NetTypeOK
<1>3. \/ pc' = "inv_ack_top"
      \/ pc' = "replace" /\ gad.rf /\ r2' = 0
      \/ pc' \in {"transfer", "read_l2"} /\ r2' = 0
  BY <1>0, <1>1, LoopJump
<1>4. EngineInv'
  BY <1>0, <1>1, <1>3 DEF CoherenceInv, EngineInv, PendingInv, ExclusiveOnly,
    RoutineInv, InvPhase, MemWriteInv, MemReadInv, memQVars, WriteBack, MemCmd
<1>5. lceResp'[l] = <<>> /\ lceCmd[l] = <<>>
      /\ \A k \in LCE : k # l => lceResp'[k] = lceResp[k]
  <2>1. CommandInv(l) /\ AnswerInv(l)
    BY DEF CoherenceInv, LceInv
  <2>2. PICK m \in RespMsg : lceResp[l] = <<m>>
    BY <2>1, <1>0 DEF AnswerInv
  <2>3. Tail(lceResp[l]) = <<>>
    BY <2>2
  <2> QED
    BY <1>0, <1>2, <2>1, <2>3 DEF CommandInv, Drop
<1>6. Outstanding' = Outstanding \ {l} /\ l \in Outstanding
  <2>1. \A k \in LCE : k \in Outstanding' <=> k \in Outstanding /\ k # l
    BY <1>0, <1>5 DEF Outstanding
  <2> QED
    BY <1>0, <2>1 DEF Outstanding
<1>7. r2' = Cardinality(Outstanding') /\ IsFiniteSet(Outstanding')
  BY <1>0, <1>1, <1>6, OutstandingFinite, FS_RemoveElement DEF CoherenceInv, CountInv
<1>8. \/ pc' = "inv_ack_top"
      \/ /\ pc' \in {"replace", "transfer", "read_l2"}
         /\ \A k \in LCE : lceCmd'[k] = <<>> /\ lceResp'[k] = <<>>
  <2>1. r2' = 0 => Outstanding' = {}
    BY <1>7, FS_EmptySet
  <2> QED
    BY <1>3, <2>1 DEF Outstanding
<1>9. ASSUME NEW k \in LCE
      PROVE  CommandInv(k)' /\ AnswerInv(k)' /\ RequestInv(k)' /\ AbsentInv(k)'
  <2>1. CommandInv(k) /\ AnswerInv(k) /\ RequestInv(k) /\ AbsentInv(k)
    BY DEF CoherenceInv, LceInv
  <2>2. CommandInv(k)'
    BY <1>0, <1>5, <1>8, <2>1 DEF CommandInv, MayHold, InvPhase, InvMsg, Targets
  <2>3. AnswerInv(k)'
    BY <1>0, <1>5, <1>8, <2>1 DEF AnswerInv, InvPhase, Targets
  <2>4. RequestInv(k)' /\ AbsentInv(k)'
    BY <1>0, <1>8, <2>1 DEF RequestInv, AbsentInv, Unserved, Served
  <2> QED
    BY <2>2, <2>3, <2>4
<1>10. CountInv'
  BY <1>7 DEF CountInv
<1>11. DirInv' /\ SingleCopy'
  BY <1>0, <1>1, <1>8 DEF CoherenceInv, DirInv, DirUnique, OwnersInv, ForgottenInv,
    FillInv, TagStates, DirectoryAccurate, SingleCopy, InvPhase, FillPhase,
    FillUnderWay, InvUnderWay, Targets
<1> QED
  BY <1>4, <1>9, <1>10, <1>11 DEF CoherenceInv, LceInv

-----------------------------------------------------------------------------
(* Between the invalidations and the end of the request.                   *)

\* Labels at which no command is under way.
Quiet == {"replace", "mem_resp", "transfer", "transfer_mem", "read_l2_tr",
          "read_l2", "mem_data_resp", "send_st"}

LEMMA QuietQueues ==
  ASSUME CoherenceInv, pc \in Quiet \cup {"ready"}, NEW l \in LCE
  PROVE  /\ lceCmd[l] = <<>> /\ lceResp[l] = <<>> /\ lceDataResp[l] = <<>>
         /\ cmdSt[l] = "ready" /\ ~invd[l]
<1>1. CommandInv(l) /\ AnswerInv(l)
  BY DEF CoherenceInv, LceInv
<1> QED
  BY <1>1 DEF Quiet, CommandInv, AnswerInv, MayHold, InvPhase

\* The engine moves on without a message to or from an LCE.
LEMMA QuietStep ==
  ASSUME CoherenceInv, pc \in Quiet, pc' \in Quiet, FillPhase' = FillPhase,
         UNCHANGED <<dir, req, gad, lceView>>
  PROVE  LceInv' /\ CountInv' /\ DirInv' /\ SingleCopy'
<1>1. ASSUME NEW l \in LCE
      PROVE  CommandInv(l)' /\ AnswerInv(l)' /\ RequestInv(l)' /\ AbsentInv(l)'
  <2>1. RequestInv(l) /\ AbsentInv(l)
    BY DEF CoherenceInv, LceInv
  <2>2. CommandInv(l)' /\ AnswerInv(l)'
    BY QuietQueues DEF lceView, CommandInv, AnswerInv
  <2> QED
    BY <2>1, <2>2 DEF RequestInv, AbsentInv, Unserved, Served, lceView, Quiet
<1>2. CountInv'
  BY DEF CountInv, InvPhase, Quiet
<1>3. OwnersInv' /\ FillInv' /\ ForgottenInv'
  BY DEF CoherenceInv, DirInv, OwnersInv, FillInv, ForgottenInv, InvPhase, Quiet, Targets
<1>4. DirectoryAccurate'
  BY DEF CoherenceInv, DirInv, DirectoryAccurate, FillUnderWay, InvUnderWay, lceView,
         FillPhase
<1>5. DirUnique' /\ TagStates' /\ SingleCopy'
  BY DEF CoherenceInv, DirInv, DirUnique, TagStates, SingleCopy, lceView
<1> QED
  BY <1>1, <1>2, <1>3, <1>4, <1>5 DEF LceInv, DirInv

\* The engine sends a command and waits for its answer.
LEMMA CommandSent ==
  ASSUME TypeInv, CoherenceInv, pc \in Quiet,
         pc' \in {"replace_wb", "transfer_wb", "coh_ack"},
         NEW d \in LCE, NEW m \in CmdMsg, lceCmd' = Send(lceCmd, d, m),
         MayHold(d, m)', UNCHANGED <<req, gad, lceReq, lceResp, lceDataResp,
                                     lceSt, miss, tagSet, cmdSt, invd, tags>>
  PROVE  /\ LceInv' /\ CountInv'
         /\ lceCmd'[d] = <<m>>
         /\ \A l \in LCE : l # d => lceCmd'[l] = <<>>
<1>1. lceCmd'[d] = <<m>> /\ \A l \in LCE : l # d => lceCmd'[l] = <<>>
  <2>1. lceCmd \in [LCE -> Seq(CmdMsg)]
    BY DEF TypeInv, TypeOK, NetTypeOK
  <2>2. \A l \in LCE : lceCmd[l] = <<>>
    BY QuietQueues
  <2>3. Append(<<>>, m) = <<m>>
    OBVIOUS
  <2> QED
    BY <2>1, <2>2, <2>3 DEF Send
<1>2. ASSUME NEW l \in LCE
      PROVE  CommandInv(l)' /\ AnswerInv(l)' /\ RequestInv(l)' /\ AbsentInv(l)'
  <2>1. RequestInv(l) /\ AbsentInv(l)
    BY DEF CoherenceInv, LceInv
  <2>2. AnswerInv(l)' /\ AbsentInv(l)'
    BY QuietQueues, <2>1 DEF AnswerInv, AbsentInv
  <2>3. CommandInv(l)'
    BY QuietQueues, <1>1 DEF CommandInv
  <2>4. RequestInv(l)'
    <3>1. pc' = "coh_ack" => d = req.lce /\ m = SetTagMsg'
      BY DEF MayHold, InvPhase
    <3> QED
      BY <1>1, <2>1, <3>1, QuietQueues
      DEF RequestInv, Unserved, Served, Finishing, Quiet
  <2> QED
    BY <2>2, <2>3, <2>4
<1>3. CountInv'
  BY DEF CountInv, InvPhase
<1> QED
  BY <1>1, <1>2, <1>3 DEF LceInv

\* The directory keeps telling the truth when only the label moves.
LEMMA DirKept ==
  ASSUME CoherenceInv, pc \in Quiet \cup {"replace_wb", "transfer_wb"},
         pc' \in Quiet \cup {"replace_wb", "transfer_wb", "coh_ack"},
         FillPhase' = FillPhase, UNCHANGED <<dir, req, gad, tags, invd>>,
         \A l \in LCE : lceCmd[l] # <<>> => Head(lceCmd[l]).type # "INV"
  PROVE  DirInv' /\ SingleCopy'
<1>1. OwnersInv' /\ FillInv' /\ ForgottenInv'
  BY DEF CoherenceInv, DirInv, OwnersInv, FillInv, ForgottenInv, InvPhase, Quiet, Targets
<1>2. DirectoryAccurate'
  BY DEF CoherenceInv, DirInv, DirectoryAccurate, FillUnderWay, InvUnderWay, FillPhase
<1>3. DirUnique' /\ TagStates' /\ SingleCopy'
  BY DEF CoherenceInv, DirInv, DirUnique, TagStates, SingleCopy
<1> QED
  BY <1>1, <1>2, <1>3 DEF DirInv

\* wde: the requestor becomes the one owner.
LEMMA Granted ==
  ASSUME TypeInv, CoherenceInv, pc \in {"transfer", "read_l2"},
         pc' \in {"transfer_wb", "mem_data_resp"},
         Wde(req.lce, req.way, req.tag, nextCoh), UNCHANGED <<req, gad, tags>>
  PROVE  DirInv' /\ SingleCopy' /\ \A l \in LCE, w \in Way : dir'[l][w].st \in {"I", "E"}
<1>1. /\ req.lce \in LCE /\ req.way \in Way /\ nextCoh = "E"
      /\ dir \in [LCE -> [Way -> Entry]]
  BY DEF TypeInv, TypeOK, CceTypeOK, Request, CoherenceInv, EngineInv, ExclusiveOnly
<1>2. /\ dir'[req.lce][req.way] = [tag |-> req.tag, st |-> "E"]
      /\ \A l \in LCE, w \in Way : ~(l = req.lce /\ w = req.way) => dir'[l][w] = dir[l][w]
  BY <1>1 DEF Wde
<1>3. \A l \in LCE, w \in Way : dir[l][w].st # "I" => dir[l][w].tag # req.tag
  BY DEF CoherenceInv, DirInv, OwnersInv, FillPhase
<1>4. OwnersInv' /\ FillInv' /\ ForgottenInv'
  BY <1>2, <1>3 DEF OwnersInv, FillInv, ForgottenInv, InvPhase, FillPhase
<1>5. DirUnique'
  BY <1>1, <1>2, <1>3 DEF CoherenceInv, DirInv, DirUnique
<1>6. DirectoryAccurate'
  <2> SUFFICES ASSUME NEW l \in LCE, NEW w \in Way, ~(l = req.lce /\ w = req.way)
               PROVE  /\ dir'[l][w].st = tags'[l][w].st
                      /\ dir'[l][w].st # "I" => dir'[l][w].tag = tags'[l][w].tag
    BY DEF DirectoryAccurate, FillUnderWay
  <2>1. ~FillUnderWay(l, w) /\ ~InvUnderWay(l, w)
    BY QuietQueues DEF FillUnderWay, InvUnderWay, Quiet
  <2> QED
    BY <1>2, <2>1 DEF CoherenceInv, DirInv, DirectoryAccurate
<1>7. TagStates' /\ SingleCopy'
  BY DEF CoherenceInv, DirInv, TagStates, SingleCopy
<1>8. \A l \in LCE, w \in Way : dir'[l][w].st \in {"I", "E"}
  BY <1>2 DEF CoherenceInv, EngineInv, ExclusiveOnly
<1> QED
  BY <1>4, <1>5, <1>6, <1>7, <1>8 DEF DirInv

LEMMA ReplaceInd ==
  ASSUME TypeInv, TypeInv', CoherenceInv, Replace, UNCHANGED lceVars
  PROVE  CoherenceInv'
<1> DEFINE m == [type |-> "WB", tag |-> gad.lruTag, way |-> req.way, st |-> "I"]
<1>0. /\ pc = "replace" /\ pc' = "replace_wb" /\ lceCmd' = Send(lceCmd, req.lce, m)
      /\ UNCHANGED <<dir, pending, req, gad, nextCoh, memQVars, lceReq, lceResp,
                     lceDataResp, lceSt, miss, tagSet, cmdSt, invd, tags>>
  BY DEF Replace, ctlVars, lceVars, reqFsm, cmdFsm, arrays
<1>1. req.lce \in LCE /\ m \in CmdMsg
  BY DEF TypeInv, TypeOK, CceTypeOK, Request, GadRegs, CmdMsg, CohState
<1>2. LceInv' /\ CountInv'
  BY <1>0, <1>1, CommandSent DEF Quiet, MayHold
<1>3. EngineInv'
  BY <1>0 DEF CoherenceInv, EngineInv, PendingInv, ExclusiveOnly, RoutineInv, InvPhase,
    MemWriteInv, MemReadInv, memQVars, WriteBack, MemCmd
<1>4. DirInv' /\ SingleCopy'
  BY <1>0, QuietQueues, DirKept DEF Quiet, FillPhase
<1> QED
  BY <1>2, <1>3, <1>4 DEF CoherenceInv

LEMMA TransferInd ==
  ASSUME TypeInv, TypeInv', CoherenceInv, Transfer, UNCHANGED lceVars
  PROVE  CoherenceInv'
<1> DEFINE m == [type |-> "WB", tag |-> req.tag, way |-> gad.trWay, st |-> "I"]
<1>0. /\ pc = "transfer" /\ pc' = "transfer_wb" /\ lceCmd' = Send(lceCmd, gad.trLce, m)
      /\ Wde(req.lce, req.way, req.tag, nextCoh)
      /\ UNCHANGED <<pending, req, gad, nextCoh, memQVars, lceReq, lceResp,
                     lceDataResp, lceSt, miss, tagSet, cmdSt, invd, tags>>
  BY DEF Transfer, lceVars, reqFsm, cmdFsm, arrays
<1>1. gad.trLce \in LCE /\ m \in CmdMsg
  BY DEF TypeInv, TypeOK, CceTypeOK, Request, GadRegs, CmdMsg, CohState
<1>2. LceInv' /\ CountInv'
  BY <1>0, <1>1, CommandSent DEF Quiet, MayHold
<1>4. /\ DirInv' /\ SingleCopy'
      /\ \A l \in LCE, w \in Way : dir'[l][w].st \in {"I", "E"}
  BY <1>0, Granted
<1>3. EngineInv'
  BY <1>0, <1>4 DEF CoherenceInv, EngineInv, PendingInv, ExclusiveOnly, RoutineInv,
    InvPhase, MemWriteInv, MemReadInv, memQVars, WriteBack, MemCmd
<1> QED
  BY <1>2, <1>3, <1>4 DEF CoherenceInv

LEMMA SendSetTagInd ==
  ASSUME TypeInv, TypeInv', CoherenceInv, SendSetTag, UNCHANGED lceVars
  PROVE  CoherenceInv'
<1>0. /\ pc = "send_st" /\ pc' = "coh_ack"
      /\ UNCHANGED <<dir, pending, req, gad, nextCoh, memQVars, lceReq, lceResp,
                     lceDataResp, lceSt, miss, tagSet, cmdSt, invd, tags>>
  BY DEF SendSetTag, ctlVars, lceVars, reqFsm, cmdFsm, arrays
<1>1. lceCmd' = Send(lceCmd, req.lce, SetTagMsg)
  BY DEF SendSetTag, SetTagMsg, CoherenceInv, EngineInv, ExclusiveOnly
<1>2. req.lce \in LCE /\ SetTagMsg \in CmdMsg
  BY DEF TypeInv, TypeOK, CceTypeOK, Request, SetTagMsg, CmdMsg, CohState
<1>3. LceInv' /\ CountInv'
  <2>1. MayHold(req.lce, SetTagMsg)'
    BY <1>0 DEF MayHold, SetTagMsg
  <2>2. SetTagMsg' = SetTagMsg /\ req' = req
    BY <1>0 DEF SetTagMsg
  <2> QED
    BY <1>0, <1>1, <1>2, <2>1, <2>2, CommandSent DEF Quiet
<1>4. EngineInv'
  BY <1>0 DEF CoherenceInv, EngineInv, PendingInv, ExclusiveOnly, RoutineInv, InvPhase,
    MemWriteInv, MemReadInv, memQVars, WriteBack, MemCmd
<1>5. DirInv' /\ SingleCopy'
  BY <1>0, QuietQueues, DirKept DEF Quiet, FillPhase
<1> QED
  BY <1>3, <1>4, <1>5 DEF CoherenceInv

\* The engine takes the answer to a writeback command.
LEMMA AnswerTaken ==
  ASSUME TypeInv, CoherenceInv, NEW l \in LCE, lceDataResp[l] # <<>>,
         pc \in {"replace_wb", "transfer_wb"}, pc' \in Quiet,
         lceDataResp' = Drop(lceDataResp, l),
         UNCHANGED <<req, gad, lceReq, lceResp, lceCmd, lceSt, miss, tagSet,
                     cmdSt, invd, tags>>
  PROVE  /\ LceInv' /\ CountInv'
         /\ \A k \in LCE : lceCmd[k] = <<>>
<1>1. CommandInv(l) /\ AnswerInv(l)
  BY DEF CoherenceInv, LceInv
<1>2. /\ lceCmd[l] = <<>>
      /\ \/ pc = "replace_wb" /\ l = req.lce
         \/ pc = "transfer_wb" /\ l = gad.trLce
  BY <1>1 DEF CommandInv, AnswerInv
<1>3. ASSUME NEW k \in LCE, k # l
      PROVE  lceCmd[k] = <<>> /\ lceDataResp[k] = <<>>
  <2>1. CommandInv(k) /\ AnswerInv(k)
    BY DEF CoherenceInv, LceInv
  <2> QED
    BY <1>2, <1>3, <2>1 DEF CommandInv, AnswerInv, MayHold, InvPhase
<1>4. \A k \in LCE : lceDataResp'[k] = <<>>
  <2>1. PICK m \in DataRespMsg : lceDataResp[l] = <<m>>
    BY <1>1 DEF AnswerInv
  <2>2. Tail(lceDataResp[l]) = <<>>
    BY <2>1
  <2>3. lceDataResp \in [LCE -> Seq(DataRespMsg)]
    BY DEF TypeInv, TypeOK, NetTypeOK
  <2> QED
    BY <1>3, <2>2, <2>3 DEF Drop
<1>5. ASSUME NEW k \in LCE
      PROVE  CommandInv(k)' /\ AnswerInv(k)' /\ RequestInv(k)' /\ AbsentInv(k)'
  <2>1. CommandInv(k) /\ AnswerInv(k) /\ RequestInv(k) /\ AbsentInv(k)
    BY DEF CoherenceInv, LceInv
  <2>2. lceResp[k] = <<>>
    BY <2>1 DEF AnswerInv, InvPhase
  <2> QED
    BY <1>2, <1>3, <1>4, <2>1, <2>2
    DEF CommandInv, AnswerInv, RequestInv, AbsentInv, Unserved, Served, Quiet
<1>6. CountInv'
  BY DEF CountInv, InvPhase, Quiet
<1> QED
  BY <1>2, <1>3, <1>5, <1>6 DEF LceInv

\* A memory data command carries the current registers.
LEMMA WriteBackInv ==
  ASSUME TypeInv, CoherenceInv, pc \notin {"mem_resp", "transfer_mem"},
         pc' \in {"mem_resp", "transfer_mem"}, NEW t \in Tag, NEW d \in Value,
         memDataCmd' = Append(memDataCmd, WriteBack(t, d)),
         UNCHANGED <<req, gad, memCmd, memResp, memDataResp>>,
         pc # "mem_data_resp"
  PROVE  MemWriteInv' /\ MemReadInv'
<1> DEFINE pl == WriteBack(req.tag, Zero).pl
           c == [tag |-> t, data |-> d, pl |-> pl]
<1>1. pl' = pl /\ WriteBack(t, d) = c
  BY DEF WriteBack
<1>2. memDataCmd = <<>> /\ memResp = <<>> /\ memCmd = <<>> /\ memDataResp = <<>>
  BY DEF CoherenceInv, EngineInv, MemWriteInv, MemReadInv
<1>3. memDataCmd' = <<c>>
  BY <1>1, <1>2
<1> QED
  BY <1>1, <1>2, <1>3 DEF MemWriteInv, MemReadInv

LEMMA ReplaceWbInd ==
  ASSUME TypeInv, TypeInv', CoherenceInv, NEW l \in LCE, ReplaceWb(l), UNCHANGED lceVars
  PROVE  CoherenceInv'
<1>0. /\ pc = "replace_wb" /\ pc' = "mem_resp" /\ lceDataResp[l] # <<>> /\ pending' = TRUE
      /\ lceDataResp' = Drop(lceDataResp, l)
      /\ memDataCmd' = Append(memDataCmd, WriteBack(gad.lruTag, Head(lceDataResp[l]).data))
      /\ UNCHANGED <<dir, req, gad, nextCoh, memCmd, memResp, memDataResp, lceReq,
                     lceResp, lceCmd, lceSt, miss, tagSet, cmdSt, invd, tags>>
  BY DEF ReplaceWb, Wdp, lceVars, reqFsm, cmdFsm, arrays
<1>1. LceInv' /\ CountInv' /\ \A k \in LCE : lceCmd[k] = <<>>
  BY <1>0, AnswerTaken DEF Quiet
<1>2. gad.lruTag \in Tag /\ Head(lceDataResp[l]).data \in Value
  <2>1. Head(lceDataResp[l]) \in DataRespMsg
    BY <1>0, DropType DEF TypeInv, TypeOK, NetTypeOK
  <2>2. gad.lruTag \in Tag
    BY DEF TypeInv, TypeOK, CceTypeOK, GadRegs
  <2> QED
    BY <2>1, <2>2 DEF DataRespMsg
<1>3. MemWriteInv' /\ MemReadInv'
  BY <1>0, <1>2, WriteBackInv
<1>4. EngineInv'
  BY <1>0, <1>3 DEF CoherenceInv, EngineInv, PendingInv, ExclusiveOnly, RoutineInv, InvPhase
<1>5. DirInv' /\ SingleCopy'
  BY <1>0, <1>1, DirKept DEF Quiet, FillPhase
<1> QED
  BY <1>1, <1>4, <1>5 DEF CoherenceInv

LEMMA TransferWbInd ==
  ASSUME TypeInv, TypeInv', CoherenceInv, NEW l \in LCE, TransferWb(l), UNCHANGED lceVars
  PROVE  CoherenceInv'
<1>0. /\ pc = "transfer_wb" /\ pc' \in {"transfer_mem", "read_l2_tr"}
      /\ lceDataResp[l] # <<>>
      /\ lceDataResp' = Drop(lceDataResp, l)
      /\ UNCHANGED <<dir, req, gad, nextCoh, memCmd, memResp, memDataResp, lceReq,
                     lceResp, lceCmd, lceSt, miss, tagSet, cmdSt, invd, tags>>
  BY DEF TransferWb, Wdp, lceVars, reqFsm, cmdFsm, arrays
<1>1. LceInv' /\ CountInv' /\ \A k \in LCE : lceCmd[k] = <<>>
  BY <1>0, AnswerTaken DEF Quiet
<1>2. req.tag \in Tag /\ Head(lceDataResp[l]).data \in Value
  <2>1. Head(lceDataResp[l]) \in DataRespMsg
    BY <1>0, DropType DEF TypeInv, TypeOK, NetTypeOK
  <2>2. req.tag \in Tag
    BY DEF TypeInv, TypeOK, CceTypeOK, Request
  <2> QED
    BY <2>1, <2>2 DEF DataRespMsg
<1>3. EngineInv'
  <2>1. CASE pc' = "read_l2_tr"
    <3>1. pending' = pending /\ memDataCmd' = memDataCmd
      BY <2>1 DEF TransferWb
    <3> QED
      BY <1>0, <2>1, <3>1 DEF CoherenceInv, EngineInv, PendingInv, ExclusiveOnly,
        RoutineInv, InvPhase, MemWriteInv, MemReadInv
  <2>2. CASE pc' = "transfer_mem"
    <3>1. /\ pending' = TRUE
          /\ memDataCmd' = Append(memDataCmd, WriteBack(req.tag, Head(lceDataResp[l]).data))
      BY <2>2 DEF TransferWb, Wdp
    <3>2. MemWriteInv' /\ MemReadInv'
      BY <1>0, <1>2, <2>2, <3>1, WriteBackInv
    <3> QED
      BY <1>0, <2>2, <3>1, <3>2 DEF CoherenceInv, EngineInv, PendingInv,
        ExclusiveOnly, RoutineInv, InvPhase
  <2> QED
    BY <1>0, <2>1, <2>2
<1>5. DirInv' /\ SingleCopy'
  BY <1>0, <1>1, DirKept DEF Quiet, FillPhase
<1> QED
  BY <1>1, <1>3, <1>5 DEF CoherenceInv

\* popq memResp restores the registers to what they were.
LEMMA Restored ==
  ASSUME TypeInv, CoherenceInv, pc \in {"mem_resp", "transfer_mem"}, PopMemResp,
         UNCHANGED lceVars
  PROVE  /\ req' = req /\ gad' = gad /\ rwbf' = gad.rf /\ pending' = FALSE
         /\ memDataCmd' = <<>> /\ memResp' = <<>>
         /\ memCmd' = <<>> /\ memDataResp' = <<>>
         /\ UNCHANGED <<dir, nextCoh, lceView>>
<1>1. MemWriteInv /\ MemReadInv
  BY DEF CoherenceInv, EngineInv
<1> DEFINE pl == WriteBack(req.tag, Zero).pl
<1>2. memDataCmd = <<>> /\ memResp = <<pl>> /\ memCmd = <<>> /\ memDataResp = <<>>
  BY <1>1 DEF MemWriteInv, MemReadInv, PopMemResp
<1>3. Head(memResp) = pl /\ Tail(memResp) = <<>>
  BY <1>2
<1>4. req \in Request /\ gad \in GadRegs
  BY DEF TypeInv, TypeOK, CceTypeOK
<1>5. /\ pl.lce = req.lce /\ pl.tag = req.tag /\ pl.wr = req.wr /\ pl.way = req.way
      /\ pl.trLce = gad.trLce /\ pl.trWay = gad.trWay /\ pl.tf = gad.tf /\ pl.rf = gad.rf
  BY DEF WriteBack
<1>6. req' = req
  BY <1>3, <1>4, <1>5 DEF PopMemResp, Request
<1>7. gad' = gad
  BY <1>3, <1>4, <1>5 DEF PopMemResp, GadRegs
<1> QED
  BY <1>2, <1>3, <1>5, <1>6, <1>7
  DEF PopMemResp, Wdp, netVars, lceVars, reqFsm, cmdFsm, arrays, lceView

LEMMA MemRespInd ==
  ASSUME TypeInv, TypeInv', CoherenceInv, MemResp, UNCHANGED lceVars
  PROVE  CoherenceInv'
<1>0. pc = "mem_resp" /\ gad.rf
  BY DEF MemResp, CoherenceInv, EngineInv, RoutineInv
<1>1. /\ req' = req /\ gad' = gad /\ rwbf' = gad.rf /\ pending' = FALSE
      /\ memDataCmd' = <<>> /\ memResp' = <<>>
      /\ memCmd' = <<>> /\ memDataResp' = <<>>
      /\ UNCHANGED <<dir, nextCoh, lceView>>
  BY <1>0, Restored DEF MemResp
<1>2. pc' \in {"transfer", "read_l2"}
  BY <1>0, <1>1 DEF MemResp, TransferCheck
<1>3. EngineInv'
  <2>1. MemWriteInv' /\ MemReadInv'
    BY <1>1, <1>2 DEF MemWriteInv, MemReadInv
  <2>2. PendingInv'
    BY <1>0, <1>1, <1>2 DEF PendingInv
  <2>3. ExclusiveOnly'
    BY <1>0, <1>1, <1>2 DEF CoherenceInv, EngineInv, ExclusiveOnly
  <2>4. RoutineInv'
    BY <1>0, <1>1, <1>2 DEF RoutineInv, InvPhase
  <2> QED
    BY <2>1, <2>2, <2>3, <2>4 DEF EngineInv
<1>4. LceInv' /\ CountInv' /\ DirInv' /\ SingleCopy'
  BY <1>0, <1>1, <1>2, QuietStep DEF Quiet, FillPhase
<1> QED
  BY <1>3, <1>4 DEF CoherenceInv

LEMMA TransferMemInd ==
  ASSUME TypeInv, TypeInv', CoherenceInv, TransferMem, UNCHANGED lceVars
  PROVE  CoherenceInv'
<1>0. pc = "transfer_mem" /\ pc' = "read_l2_tr"
  BY DEF TransferMem
<1>1. /\ req' = req /\ gad' = gad /\ pending' = FALSE
      /\ memDataCmd' = <<>> /\ memResp' = <<>>
      /\ memCmd' = <<>> /\ memDataResp' = <<>>
      /\ UNCHANGED <<dir, nextCoh, lceView>>
  BY <1>0, Restored DEF TransferMem
<1>3. EngineInv'
  <2>1. MemWriteInv' /\ MemReadInv'
    BY <1>0, <1>1 DEF MemWriteInv, MemReadInv
  <2>2. PendingInv'
    BY <1>0, <1>1 DEF PendingInv
  <2>3. ExclusiveOnly'
    BY <1>0, <1>1 DEF CoherenceInv, EngineInv, ExclusiveOnly
  <2>4. RoutineInv'
    BY <1>0, <1>1 DEF RoutineInv, InvPhase
  <2> QED
    BY <2>1, <2>2, <2>3, <2>4 DEF EngineInv
<1>4. LceInv' /\ CountInv' /\ DirInv' /\ SingleCopy'
  BY <1>0, <1>1, QuietStep DEF Quiet, FillPhase
<1> QED
  BY <1>3, <1>4 DEF CoherenceInv

LEMMA ReadSent ==
  ASSUME CoherenceInv, pc \in {"read_l2_tr", "read_l2"}, pc' = "mem_data_resp",
         memCmd' = Append(memCmd, MemCmd), pending' = TRUE,
         UNCHANGED <<req, gad, nextCoh, memDataCmd, memResp, memDataResp>>,
         \A l \in LCE, w \in Way : dir'[l][w].st \in {"I", "E"}
  PROVE  EngineInv'
<1>1. /\ memDataCmd = <<>> /\ memResp = <<>> /\ memCmd = <<>> /\ memDataResp = <<>>
  BY DEF CoherenceInv, EngineInv, MemWriteInv, MemReadInv
<1>2. memCmd' = <<MemCmd>> /\ MemCmd' = MemCmd
  BY <1>1 DEF MemCmd
<1>3. MemWriteInv' /\ MemReadInv'
  BY <1>1, <1>2 DEF MemWriteInv, MemReadInv
<1>4. PendingInv' /\ ExclusiveOnly' /\ RoutineInv'
  BY DEF CoherenceInv, EngineInv, PendingInv, ExclusiveOnly, RoutineInv, InvPhase
<1> QED
  BY <1>3, <1>4 DEF EngineInv

LEMMA ReadL2TrInd ==
  ASSUME TypeInv, TypeInv', CoherenceInv, ReadL2Tr, UNCHANGED lceVars
  PROVE  CoherenceInv'
<1>0. /\ pc = "read_l2_tr" /\ pc' = "mem_data_resp" /\ pending' = TRUE
      /\ memCmd' = Append(memCmd, MemCmd)
      /\ UNCHANGED <<dir, req, gad, nextCoh, memDataCmd, memResp, memDataResp, lceView>>
  BY DEF ReadL2Tr, Wdp, netVars, lceVars, reqFsm, cmdFsm, arrays, lceView
<1>1. \A l \in LCE, w \in Way : dir'[l][w].st \in {"I", "E"}
  BY <1>0 DEF CoherenceInv, EngineInv, ExclusiveOnly
<1>2. EngineInv'
  BY <1>0, <1>1, ReadSent
<1>3. LceInv' /\ CountInv' /\ DirInv' /\ SingleCopy'
  BY <1>0, QuietStep DEF Quiet, FillPhase
<1> QED
  BY <1>2, <1>3 DEF CoherenceInv

LEMMA ReadL2Ind ==
  ASSUME TypeInv, TypeInv', CoherenceInv, ReadL2, UNCHANGED lceVars
  PROVE  CoherenceInv'
<1>0. /\ pc = "read_l2" /\ pc' = "mem_data_resp" /\ pending' = TRUE
      /\ memCmd' = Append(memCmd, MemCmd)
      /\ Wde(req.lce, req.way, req.tag, nextCoh)
      /\ UNCHANGED <<req, gad, nextCoh, memDataCmd, memResp, memDataResp, lceView>>
  BY DEF ReadL2, Wdp, netVars, lceVars, reqFsm, cmdFsm, arrays, lceView
<1>1. /\ DirInv' /\ SingleCopy'
      /\ \A l \in LCE, w \in Way : dir'[l][w].st \in {"I", "E"}
  BY <1>0, Granted DEF lceView
<1>2. EngineInv'
  BY <1>0, <1>1, ReadSent
<1>3. ASSUME NEW l \in LCE
      PROVE  CommandInv(l)' /\ AnswerInv(l)' /\ RequestInv(l)' /\ AbsentInv(l)'
  <2>1. RequestInv(l) /\ AbsentInv(l)
    BY DEF CoherenceInv, LceInv
  <2>2. CommandInv(l)' /\ AnswerInv(l)'
    BY <1>0, QuietQueues DEF lceView, CommandInv, AnswerInv, Quiet
  <2> QED
    BY <1>0, <2>1, <2>2 DEF RequestInv, AbsentInv, Unserved, Served, lceView
<1>4. CountInv'
  BY <1>0 DEF CountInv, InvPhase
<1> QED
  BY <1>1, <1>2, <1>3, <1>4 DEF CoherenceInv, LceInv

LEMMA MemDataRespInd ==
  ASSUME TypeInv, TypeInv', CoherenceInv, MemDataResp, UNCHANGED lceVars
  PROVE  CoherenceInv'
<1>0. /\ pc = "mem_data_resp" /\ pc' = "send_st" /\ memDataResp # <<>>
      /\ memDataResp' = Tail(memDataResp) /\ pending' = FALSE
      /\ UNCHANGED <<dir, gad, nextCoh, memCmd, memDataCmd, memResp, lceView>>
  BY DEF MemDataResp, Wdp, lceVars, reqFsm, cmdFsm, arrays, lceView
<1>1. MemReadInv /\ MemWriteInv
  BY DEF CoherenceInv, EngineInv
<1>2. PICK d \in Value : memDataResp = <<[data |-> d, cmd |-> MemCmd]>>
  BY <1>0, <1>1 DEF MemReadInv
<1>3. /\ Head(memDataResp).cmd = MemCmd /\ Tail(memDataResp) = <<>>
      /\ memCmd = <<>> /\ memDataCmd = <<>> /\ memResp = <<>>
  BY <1>0, <1>1, <1>2 DEF MemReadInv, MemWriteInv
<1>4. req' = req
  <2>1. req \in Request
    BY DEF TypeInv, TypeOK, CceTypeOK
  <2> DEFINE c == Head(memDataResp).cmd
  <2>2. c.lce = req.lce /\ c.tag = req.tag /\ c.wr = req.wr /\ c.way = req.way
    BY <1>3 DEF MemCmd
  <2>3. req' = [req EXCEPT !.lce = c.lce, !.tag = c.tag, !.wr = c.wr, !.way = c.way]
    BY DEF MemDataResp
  <2> QED
    BY <2>1, <2>2, <2>3 DEF Request
<1>5. EngineInv'
  <2>1. MemWriteInv' /\ MemReadInv'
    BY <1>0, <1>3 DEF MemWriteInv, MemReadInv
  <2>2. PendingInv' /\ ExclusiveOnly' /\ RoutineInv'
    BY <1>0 DEF CoherenceInv, EngineInv, PendingInv, ExclusiveOnly, RoutineInv, InvPhase
  <2> QED
    BY <2>1, <2>2 DEF EngineInv
<1>6. LceInv' /\ CountInv' /\ DirInv' /\ SingleCopy'
  BY <1>0, <1>4, QuietStep DEF Quiet, FillPhase
<1> QED
  BY <1>5, <1>6 DEF CoherenceInv

-----------------------------------------------------------------------------
(* The end of a request and the start of the next.                         *)

LEMMA CohAckInd ==
  ASSUME TypeInv, TypeInv', CoherenceInv, NEW l \in LCE, CohAck(l), UNCHANGED lceVars
  PROVE  CoherenceInv'
<1>0. /\ pc = "coh_ack" /\ pc' = "ready" /\ lceResp[l] # <<>>
      /\ lceResp' = Drop(lceResp, l)
      /\ UNCHANGED <<dir, pending, req, gad, nextCoh, memQVars, lceReq, lceCmd,
                     lceDataResp, lceSt, miss, tagSet, cmdSt, invd, tags>>
  BY DEF CohAck, ctlVars, lceVars, reqFsm, cmdFsm, arrays
<1>1. CommandInv(l) /\ AnswerInv(l) /\ RequestInv(l)
  BY DEF CoherenceInv, LceInv
<1>2. l = req.lce
  BY <1>0, <1>1 DEF AnswerInv, InvPhase
<1>3. Unserved(l) /\ lceCmd[l] = <<>> /\ TagWritten(l)
  BY <1>0, <1>1, <1>2 DEF RequestInv, Finishing
<1>4. ASSUME NEW k \in LCE
      PROVE  lceCmd[k] = <<>> /\ lceResp'[k] = <<>> /\ lceDataResp[k] = <<>>
  <2>1. CommandInv(k) /\ AnswerInv(k)
    BY DEF CoherenceInv, LceInv
  <2>2. lceCmd[k] = <<>> /\ lceDataResp[k] = <<>> /\ (k # l => lceResp[k] = <<>>)
    BY <1>0, <1>2, <1>3, <2>1 DEF CommandInv, AnswerInv, MayHold, InvPhase
  <2>3. PICK m \in RespMsg : lceResp[l] = <<m>>
    BY <1>0, <1>1 DEF AnswerInv
  <2>4. Tail(lceResp[l]) = <<>>
    BY <2>3
  <2>5. lceResp \in [LCE -> Seq(RespMsg)]
    BY DEF TypeInv, TypeOK, NetTypeOK
  <2> QED
    BY <1>0, <2>2, <2>4, <2>5 DEF Drop
<1>5. ASSUME NEW k \in LCE
      PROVE  CommandInv(k)' /\ AnswerInv(k)' /\ RequestInv(k)' /\ AbsentInv(k)'
  <2>1. CommandInv(k) /\ RequestInv(k) /\ AbsentInv(k)
    BY DEF CoherenceInv, LceInv
  <2>2. Unserved(k)
    BY <1>2, <1>3, <2>1 DEF RequestInv
  <2> QED
    BY <1>0, <1>4, <2>1, <2>2 DEF CommandInv, AnswerInv, RequestInv, AbsentInv, Unserved
<1>6. EngineInv'
  BY <1>0 DEF CoherenceInv, EngineInv, PendingInv, ExclusiveOnly, RoutineInv, InvPhase,
    MemWriteInv, MemReadInv, memQVars
<1>7. DirectoryAccurate'
  <2> SUFFICES ASSUME NEW k \in LCE, NEW w \in Way
               PROVE  /\ dir[k][w].st = tags[k][w].st
                      /\ dir[k][w].st # "I" => dir[k][w].tag = tags[k][w].tag
    BY <1>0 DEF DirectoryAccurate
  <2>1. CASE k = l /\ w = req.way
    BY <1>0, <1>2, <1>3, <2>1 DEF CoherenceInv, DirInv, FillInv, FillPhase, TagWritten
  <2>2. CASE ~(k = l /\ w = req.way)
    <3>1. ~FillUnderWay(k, w) /\ ~InvUnderWay(k, w)
      BY <1>2, <1>4, <2>2 DEF FillUnderWay, InvUnderWay
    <3> QED
      BY <3>1 DEF CoherenceInv, DirInv, DirectoryAccurate
  <2> QED
    BY <2>1, <2>2
<1>8. DirInv' /\ SingleCopy'
  BY <1>0, <1>7 DEF CoherenceInv, DirInv, DirUnique, OwnersInv, ForgottenInv, FillInv,
    TagStates, SingleCopy, InvPhase, FillPhase
<1>9. CountInv'
  BY <1>0 DEF CountInv, InvPhase
<1> QED
  BY <1>5, <1>6, <1>8, <1>9 DEF CoherenceInv, LceInv

\* What gad finds for a requestor that does not hold the block itself.
LEMMA GadFacts ==
  ASSUME NEW q \in Request, ExclusiveOnly,
         \A w \in Way : dir[q.lce][w].st # "I" => dir[q.lce][w].tag # q.tag
  PROVE  LET g == Gad(dir, q)
         IN  /\ ~g.uf
             /\ g.hits = {k \in LCE : \E w \in Way : TagSetHit(dir, k, w, q.tag)}
             /\ q.lce \notin g.hits
             /\ \A k \in g.hits : g.ways[k] \in Way /\ TagSetHit(dir, k, g.ways[k], q.tag)
             /\ ~g.inv => g.hits = {}
<1> DEFINE g == Gad(dir, q)
           H == SharersHits(dir, q.tag)
<1>1. g.hits = H /\ g.ways = SharersWays(dir, q.tag)
      /\ g.uf = UpgradeFlag(dir, q) /\ g.inv = InvalidateFlag(dir, q)
  BY DEF Gad
<1>2. q.lce \in LCE /\ q.lce \notin H /\ H \subseteq LCE
  BY DEF SharersHits, TagSetHit, Request
<1>3. \A k \in H : /\ g.ways[k] \in Way
                   /\ TagSetHit(dir, k, g.ways[k], q.tag)
  BY <1>1 DEF SharersHits, SharersWays
<1>4. ~g.uf
  BY <1>1, <1>2 DEF UpgradeFlag
<1>5. ASSUME ~g.inv PROVE H = {}
  <2>1. OtherSharers(dir, q) = H
    BY <1>2 DEF OtherSharers
  <2>2. \A k \in H : SharerState(dir, k, q.tag) \notin {"E", "M"}
    BY <1>1, <1>5, <2>1 DEF InvalidateFlag, TransferFlag, ExclusiveFlag
  <2>3. \A k \in H : SharerState(dir, k, q.tag) = "E"
    BY <1>1, <1>2, <1>3 DEF SharerState, TagSetHit, ExclusiveOnly
  <2> QED
    BY <2>2, <2>3
<1> QED
  BY <1>1, <1>2, <1>3, <1>4, <1>5 DEF SharersHits
LEMMA LceReqInd ==
  ASSUME TypeInv, TypeInv', CoherenceInv, NEW l \in LCE, LceReq(l), UNCHANGED lceVars
  PROVE  CoherenceInv'
<1> DEFINE m == Head(lceReq[l])
           q == [lce |-> l, tag |-> m.tag, wr |-> m.wr, way |-> m.way, dirty |-> m.dirty]
           g == Gad(dir, q)
<1>1. pc = "ready" /\ ~pending /\ EngineInv
  BY DEF LceReq, CoherenceInv, EngineInv, PendingInv
<1>2. /\ lceReq' = Drop(lceReq, l) /\ req' = q /\ gad' = g /\ nextCoh' = "E"
      /\ UNCHANGED <<dir, pending, memQVars, lceResp, lceDataResp, lceCmd,
                     lceSt, miss, tagSet, cmdSt, invd, tags>>
  BY <1>1 DEF LceReq, lceVars, reqFsm, cmdFsm, arrays
<1>3. lceReq[l] = <<miss[l]>> /\ lceSt[l] = "sleep" /\ ~tagSet[l]
  <2>1. RequestInv(l) /\ lceReq[l] # <<>>
    BY DEF LceReq, CoherenceInv, LceInv
  <2> QED
    BY <1>1, <2>1 DEF RequestInv, Unserved
<1>4. m = miss[l] /\ lceReq'[l] = <<>> /\ \A k \in LCE : k # l => lceReq'[k] = lceReq[k]
  <2>1. lceReq \in [LCE -> Seq(ReqMsg)]
    BY DEF TypeInv, TypeOK, NetTypeOK
  <2>2. Head(<<miss[l]>>) = miss[l] /\ Tail(<<miss[l]>>) = <<>>
    OBVIOUS
  <2> QED
    BY <1>2, <1>3, <2>1, <2>2 DEF Drop
<1>5. q \in Request
  <2>1. m \in ReqMsg
    BY <1>4 DEF TypeInv, TypeOK, LceTypeOK
  <2> QED
    BY <2>1 DEF Request, ReqMsg
<1>6. \A k \in LCE : /\ lceCmd[k] = <<>> /\ lceResp[k] = <<>> /\ lceDataResp[k] = <<>>
                      /\ cmdSt[k] = "ready" /\ ~invd[k]
  BY <1>1, QuietQueues
<1>7. \A k \in LCE, w \in Way :
        dir[k][w].st = tags[k][w].st /\ (dir[k][w].st # "I" => dir[k][w].tag = tags[k][w].tag)
  <2>1. \A k \in LCE, w \in Way : ~FillUnderWay(k, w) /\ ~InvUnderWay(k, w)
    BY <1>1, <1>6 DEF FillUnderWay, InvUnderWay
  <2> QED
    BY <2>1 DEF CoherenceInv, DirInv, DirectoryAccurate
<1>8. \A w \in Way : dir[l][w].st # "I" => dir[l][w].tag # q.tag
  <2>1. AbsentInv(l)
    BY DEF CoherenceInv, LceInv
  <2> QED
    BY <1>3, <1>4, <1>7, <2>1 DEF AbsentInv
<1>9. /\ ~g.uf /\ l \notin g.hits
      /\ g.hits = {k \in LCE : \E w \in Way : TagSetHit(dir, k, w, q.tag)}
      /\ \A k \in g.hits : g.ways[k] \in Way /\ TagSetHit(dir, k, g.ways[k], q.tag)
      /\ ~g.inv => g.hits = {}
  <2>1. ExclusiveOnly /\ q.lce = l
    BY <1>1 DEF EngineInv
  <2> HIDE DEF q
  <2> QED
    BY <1>5, <1>8, <2>1, GadFacts
<1>10. \/ g.inv /\ pc' = "inv_top" /\ r0' = 0 /\ r2' = 0
       \/ ~g.inv /\ pc' \in {"replace", "transfer", "read_l2"} /\ (pc' = "replace" => g.rf)
  BY <1>1, <1>9 DEF LceReq, UpgradeCheck, ReplaceCheck, TransferCheck
<1> HIDE DEF q, m, g
<1>11. EngineInv'
  <2>1. MemWriteInv' /\ MemReadInv'
    BY <1>1, <1>2, <1>10 DEF EngineInv, MemWriteInv, MemReadInv, memQVars
  <2>2. PendingInv'
    BY <1>1, <1>2, <1>10 DEF PendingInv
  <2>3. ExclusiveOnly'
    BY <1>1, <1>2 DEF EngineInv, ExclusiveOnly
  <2>4. RoutineInv'
    BY <1>2, <1>9, <1>10 DEF RoutineInv, InvPhase
  <2> QED
    BY <2>1, <2>2, <2>3, <2>4 DEF EngineInv
<1>12. req'.lce = l /\ req'.tag = q.tag
  BY <1>2 DEF q
<1>13. ASSUME NEW k \in LCE
       PROVE  CommandInv(k)' /\ AnswerInv(k)' /\ RequestInv(k)' /\ AbsentInv(k)'
  <2>1. RequestInv(k) /\ AbsentInv(k)
    BY DEF CoherenceInv, LceInv
  <2>2. CommandInv(k)' /\ AnswerInv(k)'
    BY <1>2, <1>6 DEF CommandInv, AnswerInv
  <2>3. RequestInv(k)'
    BY <1>1, <1>2, <1>3, <1>4, <1>10, <1>12, <2>1 DEF RequestInv, Unserved, Served
  <2>4. AbsentInv(k)'
    BY <1>2, <1>4, <2>1 DEF AbsentInv
  <2> QED
    BY <2>2, <2>3, <2>4
<1>14. CountInv'
  <2>1. Outstanding' = {}
    BY <1>2, <1>6 DEF Outstanding
  <2> QED
    BY <1>10, <2>1, FS_EmptySet DEF CountInv, InvPhase
<1>15. OwnersInv'
  <2> SUFFICES ASSUME NEW k \in LCE, NEW w \in Way, dir[k][w].st # "I", dir[k][w].tag = q.tag
               PROVE  pc' = "inv_top" /\ k \in Targets' /\ k >= r0' /\ w = g.ways[k]
    BY <1>2, <1>12 DEF OwnersInv
  <2>1. k \in g.hits
    BY <1>9 DEF TagSetHit
  <2>2. k \in Targets' /\ pc' = "inv_top" /\ r0' = 0
    BY <1>2, <1>9, <1>10, <1>12, <2>1 DEF Targets
  <2>3. w = g.ways[k]
    BY <1>9, <2>1 DEF TagSetHit, CoherenceInv, DirInv, DirUnique
  <2> QED
    BY <2>2, <2>3 DEF LCE
<1>16. DirInv' /\ SingleCopy'
  <2>1. FillInv' /\ DirectoryAccurate'
    BY <1>2, <1>7, <1>10 DEF FillInv, FillPhase, DirectoryAccurate
  <2>2. DirUnique' /\ TagStates' /\ SingleCopy'
    BY <1>2 DEF CoherenceInv, DirInv, DirUnique, TagStates, SingleCopy
  <2>3. ForgottenInv'
    BY <1>10 DEF ForgottenInv, InvPhase, Targets, LCE, TypeInv, TypeOK, CceTypeOK, GadRegs
  <2> QED
    BY <1>15, <2>1, <2>2, <2>3 DEF DirInv
<1> QED
  BY <1>11, <1>13, <1>14, <1>16 DEF CoherenceInv, LceInv
-----------------------------------------------------------------------------
(* The LCEs.                                                               *)

LEMMA EngineKept ==
  ASSUME CoherenceInv, UNCHANGED cceVars
  PROVE  EngineInv'
BY DEF CoherenceInv, EngineInv, PendingInv, ExclusiveOnly, RoutineInv, InvPhase,
       MemWriteInv, MemReadInv, WriteBack, MemCmd, cceVars, ctlVars, memQVars

\* What the invariant says of an LCE that nothing happens to.
LEMMA LceKept ==
  ASSUME CoherenceInv, UNCHANGED cceVars, NEW k \in LCE,
         /\ lceReq'[k] = lceReq[k] /\ lceResp'[k] = lceResp[k]
         /\ lceDataResp'[k] = lceDataResp[k] /\ lceCmd'[k] = lceCmd[k]
         /\ lceSt'[k] = lceSt[k] /\ miss'[k] = miss[k] /\ tagSet'[k] = tagSet[k]
         /\ cmdSt'[k] = cmdSt[k] /\ invd'[k] = invd[k] /\ tags'[k] = tags[k]
  PROVE  CommandInv(k)' /\ AnswerInv(k)' /\ RequestInv(k)' /\ AbsentInv(k)'
<1>1. CommandInv(k) /\ AnswerInv(k) /\ RequestInv(k) /\ AbsentInv(k)
  BY DEF CoherenceInv, LceInv
<1> QED
  BY <1>1 DEF CommandInv, AnswerInv, RequestInv, AbsentInv, MayHold, InvMsg, SetTagMsg,
    InvPhase, Targets, Unserved, Served, Finishing, TagWritten, cceVars, ctlVars

\* The directory and the arrays when neither changes, nor an invalidation.
LEMMA DirSame ==
  ASSUME CoherenceInv, UNCHANGED <<cceVars, tags>>,
         \A k \in LCE, w \in Way : InvUnderWay(k, w)' <=> InvUnderWay(k, w)
  PROVE  DirInv' /\ SingleCopy'
<1>1. DirUnique' /\ OwnersInv' /\ ForgottenInv' /\ FillInv' /\ TagStates' /\ SingleCopy'
  BY DEF CoherenceInv, DirInv, DirUnique, OwnersInv, ForgottenInv, FillInv, TagStates,
    SingleCopy, InvPhase, FillPhase, Targets, cceVars, ctlVars
<1>2. \A k \in LCE, w \in Way : FillUnderWay(k, w)' <=> FillUnderWay(k, w)
  BY DEF FillUnderWay, cceVars, ctlVars
<1>3. DirectoryAccurate'
  BY <1>2 DEF CoherenceInv, DirInv, DirectoryAccurate, cceVars, ctlVars
<1> QED
  BY <1>1, <1>3 DEF DirInv

\* A step of one LCE: what has to be shown of it, once the rest is known.
LEMMA LceFrame ==
  ASSUME CoherenceInv, UNCHANGED cceVars, NEW l \in LCE,
         CommandInv(l)' /\ AnswerInv(l)' /\ RequestInv(l)' /\ AbsentInv(l)',
         \A k \in LCE : k # l =>
           /\ lceReq'[k] = lceReq[k] /\ lceResp'[k] = lceResp[k]
           /\ lceDataResp'[k] = lceDataResp[k] /\ lceCmd'[k] = lceCmd[k]
           /\ lceSt'[k] = lceSt[k] /\ miss'[k] = miss[k] /\ tagSet'[k] = tagSet[k]
           /\ cmdSt'[k] = cmdSt[k] /\ invd'[k] = invd[k] /\ tags'[k] = tags[k],
         InvPhase =>
           (lceCmd'[l] # <<>> \/ lceResp'[l] # <<>> <=> lceCmd[l] # <<>> \/ lceResp[l] # <<>>)
  PROVE  EngineInv' /\ LceInv' /\ CountInv'
<1>1. LceInv'
  <2>1. ASSUME NEW k \in LCE, k # l
        PROVE  CommandInv(k)' /\ AnswerInv(k)' /\ RequestInv(k)' /\ AbsentInv(k)'
    BY <2>1, LceKept
  <2> QED
    BY <2>1 DEF LceInv
<1>2. CountInv'
  <2> SUFFICES ASSUME InvPhase PROVE r2 = Cardinality(Outstanding')
    BY DEF CountInv, InvPhase, cceVars, ctlVars
  <2>1. \A k \in LCE : k \in Outstanding' <=> k \in Outstanding
    BY DEF Outstanding
  <2>2. Outstanding' = Outstanding
    BY <2>1 DEF Outstanding
  <2> QED
    BY <2>2 DEF CoherenceInv, CountInv
<1> QED
  BY <1>1, <1>2, EngineKept

\* Stores and the data array are not what the invariant is about.
LEMMA StoreInd ==
  ASSUME CoherenceInv, UNCHANGED <<cceVars, lceView>>
  PROVE  CoherenceInv'
<1>1. EngineInv'
  BY EngineKept
<1>2. \A k \in LCE : CommandInv(k)' /\ AnswerInv(k)' /\ RequestInv(k)' /\ AbsentInv(k)'
  BY LceKept DEF lceView
<1>3. CountInv'
  BY DEF CoherenceInv, CountInv, Outstanding, InvPhase, lceView, cceVars, ctlVars
<1>4. \A k \in LCE, w \in Way : InvUnderWay(k, w)' <=> InvUnderWay(k, w)
  BY DEF InvUnderWay, lceView
<1>5. DirInv' /\ SingleCopy'
  BY <1>4, DirSame DEF lceView
<1> QED
  BY <1>1, <1>2, <1>3, <1>5 DEF CoherenceInv, LceInv

LEMMA MissInd ==
  ASSUME TypeInv, TypeInv', CoherenceInv, NEW l \in LCE, NEW t \in Tag, NEW wr \in BOOLEAN,
         Miss(l, t, wr), UNCHANGED cceVars
  PROVE  CoherenceInv'
<1>0. /\ lceSt[l] = "ready" /\ lceSt' = [lceSt EXCEPT ![l] = "send"]
      /\ tagSet' = [tagSet EXCEPT ![l] = FALSE]
      /\ IF wr THEN l \notin ICache /\ ~StoreHit(l, t) ELSE ~LoadHit(l, t)
      /\ UNCHANGED <<lceReq, lceResp, lceDataResp, lceCmd, cmdSt, invd, tags>>
  BY DEF Miss, netVars, cmdFsm, arrays
<1>1. PICK w0 \in Victims(l) :
        miss' = [miss EXCEPT ![l] = [wr |-> wr, tag |-> t, way |-> w0, dirty |-> dirty[l][w0]]]
  BY DEF Miss
<1>2. /\ lceSt \in [LCE -> ReqState] /\ tagSet \in [LCE -> BOOLEAN]
      /\ miss \in [LCE -> ReqMsg] /\ tags \in [LCE -> [Way -> Entry]]
  BY DEF TypeInv, TypeOK, LceTypeOK
<1>3. /\ lceSt'[l] = "send" /\ ~tagSet'[l] /\ miss'[l].tag = t
      /\ \A k \in LCE : k # l => /\ lceSt'[k] = lceSt[k] /\ tagSet'[k] = tagSet[k]
                                  /\ miss'[k] = miss[k]
  BY <1>0, <1>1, <1>2
<1>4. \A w \in Way : tags[l][w].st # "I" => tags[l][w].tag # t
  <2>1. TagStates /\ tags[l] \in [Way -> Entry]
    BY <1>2 DEF CoherenceInv, DirInv
  <2> SUFFICES ASSUME NEW w \in Way, tags[l][w].st # "I", tags[l][w].tag = t PROVE FALSE
    OBVIOUS
  <2>2. tags[l][w] = [tag |-> t, st |-> "E"]
    BY <2>1 DEF TagStates, Entry
  <2> QED
    BY <1>0, <2>2 DEF StoreHit, LoadHit
<1>5. CommandInv(l) /\ AnswerInv(l) /\ RequestInv(l)
  BY DEF CoherenceInv, LceInv
<1>6. CommandInv(l)' /\ AnswerInv(l)'
  BY <1>0, <1>5 DEF CommandInv, AnswerInv, MayHold, InvMsg, SetTagMsg, InvPhase, Targets,
    cceVars, ctlVars
<1>7. RequestInv(l)'
  BY <1>0, <1>3, <1>5 DEF RequestInv, Unserved, Served, Finishing, TagWritten, cceVars, ctlVars
<1>8. AbsentInv(l)'
  BY <1>0, <1>3, <1>4 DEF AbsentInv
<1>9. EngineInv' /\ LceInv' /\ CountInv'
  BY <1>0, <1>3, <1>6, <1>7, <1>8, LceFrame
<1>10. \A k \in LCE, w \in Way : InvUnderWay(k, w)' <=> InvUnderWay(k, w)
  BY <1>0 DEF InvUnderWay
<1>11. DirInv' /\ SingleCopy'
  BY <1>0, <1>10, DirSame
<1> QED
  BY <1>9, <1>11 DEF CoherenceInv

LEMMA SendReqInd ==
  ASSUME TypeInv, TypeInv', CoherenceInv, NEW l \in LCE, SendReq(l), UNCHANGED cceVars
  PROVE  CoherenceInv'
<1>0. /\ lceSt[l] = "send" /\ lceSt' = [lceSt EXCEPT ![l] = "sleep"]
      /\ lceReq' = Send(lceReq, l, miss[l])
      /\ UNCHANGED <<lceResp, lceDataResp, lceCmd, miss, tagSet, cmdSt, invd, tags>>
  BY DEF SendReq, cmdFsm, arrays
<1>1. CommandInv(l) /\ AnswerInv(l) /\ RequestInv(l) /\ AbsentInv(l)
  BY DEF CoherenceInv, LceInv
<1>2. lceReq[l] = <<>> /\ ~tagSet[l]
  BY <1>0, <1>1 DEF RequestInv, Unserved, Served, Finishing
<1>3. /\ lceSt'[l] = "sleep" /\ lceReq'[l] = <<miss[l]>>
      /\ \A k \in LCE : k # l => lceSt'[k] = lceSt[k] /\ lceReq'[k] = lceReq[k]
  <2>1. lceSt \in [LCE -> ReqState] /\ lceReq \in [LCE -> Seq(ReqMsg)]
    BY DEF TypeInv, TypeOK, LceTypeOK, NetTypeOK
  <2>2. Append(<<>>, miss[l]) = <<miss[l]>>
    OBVIOUS
  <2> QED
    BY <1>0, <1>2, <2>1, <2>2 DEF Send
<1>4. CommandInv(l)' /\ AnswerInv(l)'
  BY <1>0, <1>1 DEF CommandInv, AnswerInv, MayHold, InvMsg, SetTagMsg, InvPhase, Targets,
    cceVars, ctlVars
<1>5. RequestInv(l)' /\ AbsentInv(l)'
  BY <1>0, <1>1, <1>2, <1>3 DEF RequestInv, AbsentInv, Unserved, Served, Finishing,
    TagWritten, cceVars, ctlVars
<1>6. EngineInv' /\ LceInv' /\ CountInv'
  BY <1>0, <1>3, <1>4, <1>5, LceFrame
<1>7. \A k \in LCE, w \in Way : InvUnderWay(k, w)' <=> InvUnderWay(k, w)
  BY <1>0 DEF InvUnderWay
<1>8. DirInv' /\ SingleCopy'
  BY <1>0, <1>7, DirSame
<1> QED
  BY <1>6, <1>8 DEF CoherenceInv

LEMMA RecvDataInd ==
  ASSUME TypeInv, TypeInv', CoherenceInv, NEW l \in LCE, RecvData(l), UNCHANGED cceVars
  PROVE  CoherenceInv'
<1>0. /\ lceSt' = [lceSt EXCEPT ![l] = Wakeup(l, TRUE, tagSet[l])]
      /\ UNCHANGED <<lceReq, lceResp, lceDataResp, lceCmd, miss, tagSet, cmdSt, invd, tags>>
  BY DEF RecvData, cmdFsm
<1>1. CommandInv(l) /\ AnswerInv(l) /\ RequestInv(l) /\ AbsentInv(l)
  BY DEF CoherenceInv, LceInv
<1>2. /\ lceSt'[l] = Wakeup(l, TRUE, tagSet[l])
      /\ \A k \in LCE : k # l => lceSt'[k] = lceSt[k]
  BY <1>0 DEF TypeInv, TypeOK, LceTypeOK
<1>3. \/ lceSt'[l] = lceSt[l]
      \/ lceSt[l] = "sleep" /\ tagSet[l] /\ lceSt'[l] = "coh_ack"
  BY <1>2 DEF Wakeup
<1>4. CommandInv(l)' /\ AnswerInv(l)'
  BY <1>0, <1>1 DEF CommandInv, AnswerInv, MayHold, InvMsg, SetTagMsg, InvPhase, Targets,
    cceVars, ctlVars
<1>5. RequestInv(l)' /\ AbsentInv(l)'
  BY <1>0, <1>1, <1>3 DEF RequestInv, AbsentInv, Unserved, Served, Finishing,
    TagWritten, SetTagMsg, cceVars, ctlVars
<1>6. EngineInv' /\ LceInv' /\ CountInv'
  BY <1>0, <1>2, <1>4, <1>5, LceFrame
<1>7. \A k \in LCE, w \in Way : InvUnderWay(k, w)' <=> InvUnderWay(k, w)
  BY <1>0 DEF InvUnderWay
<1>8. DirInv' /\ SingleCopy'
  BY <1>0, <1>7, DirSame
<1> QED
  BY <1>6, <1>8 DEF CoherenceInv

LEMMA SendCohAckInd ==
  ASSUME TypeInv, TypeInv', CoherenceInv, NEW l \in LCE, SendCohAck(l), UNCHANGED cceVars
  PROVE  CoherenceInv'
<1> DEFINE a == [type |-> "coh_ack", tag |-> miss[l].tag]
<1>0. /\ lceSt[l] = "coh_ack" /\ lceSt' = [lceSt EXCEPT ![l] = "ready"]
      /\ lceResp' = Send(lceResp, l, a)
      /\ UNCHANGED <<lceReq, lceDataResp, lceCmd, miss, tagSet, cmdSt, invd, tags>>
  BY DEF SendCohAck, cmdFsm, arrays
<1>1. CommandInv(l) /\ AnswerInv(l) /\ RequestInv(l)
  BY DEF CoherenceInv, LceInv
<1>2. /\ pc = "coh_ack" /\ l = req.lce /\ lceReq[l] = <<>> /\ lceCmd[l] = <<>>
      /\ lceResp[l] = <<>> /\ TagWritten(l)
  BY <1>0, <1>1 DEF RequestInv, Unserved, Served, Finishing
<1>3. a \in RespMsg
  BY DEF TypeInv, TypeOK, LceTypeOK, ReqMsg, RespMsg, AckType
<1>4. /\ lceSt'[l] = "ready" /\ lceResp'[l] = <<a>>
      /\ \A k \in LCE : k # l => lceSt'[k] = lceSt[k] /\ lceResp'[k] = lceResp[k]
  <2>1. lceSt \in [LCE -> ReqState] /\ lceResp \in [LCE -> Seq(RespMsg)]
    BY DEF TypeInv, TypeOK, LceTypeOK, NetTypeOK
  <2>2. Append(<<>>, a) = <<a>>
    OBVIOUS
  <2> HIDE DEF a
  <2> QED
    BY <1>0, <1>2, <2>1, <2>2 DEF Send
<1>5. CommandInv(l)'
  BY <1>0, <1>1, <1>2 DEF CommandInv
<1> HIDE DEF a
<1>6. AnswerInv(l)'
  BY <1>0, <1>1, <1>2, <1>3, <1>4 DEF AnswerInv, cceVars, ctlVars
<1>7. RequestInv(l)' /\ AbsentInv(l)'
  BY <1>0, <1>2, <1>4 DEF RequestInv, AbsentInv, Unserved, Finishing, TagWritten,
    cceVars, ctlVars
<1>8. ~InvPhase
  BY <1>2 DEF InvPhase
<1>9. EngineInv' /\ LceInv' /\ CountInv'
  BY <1>0, <1>4, <1>5, <1>6, <1>7, <1>8, LceFrame
<1>10. \A k \in LCE, w \in Way : InvUnderWay(k, w)' <=> InvUnderWay(k, w)
  BY <1>0 DEF InvUnderWay
<1>11. DirInv' /\ SingleCopy'
  BY <1>0, <1>10, DirSame
<1> QED
  BY <1>9, <1>11 DEF CoherenceInv
LEMMA SetTagInd ==
  ASSUME TypeInv, TypeInv', CoherenceInv, NEW l \in LCE, SetTag(l), UNCHANGED cceVars
  PROVE  CoherenceInv'
<1> DEFINE m == Head(lceCmd[l])
<1>0. /\ lceCmd[l] # <<>> /\ m.type = "ST"
      /\ lceCmd' = Drop(lceCmd, l)
      /\ tags' = [tags EXCEPT ![l][m.way] = [tag |-> m.tag, st |-> m.st]]
      /\ tagSet' = [tagSet EXCEPT ![l] = @ \/ lceSt[l] = "sleep"]
      /\ lceSt' = [lceSt EXCEPT ![l] = Wakeup(l, dataRcv[l], TRUE)]
      /\ UNCHANGED <<lceReq, lceResp, lceDataResp, miss, cmdSt, invd>>
  BY DEF SetTag, Commanded, cmdFsm
<1>1. CommandInv(l) /\ RequestInv(l)
  BY DEF CoherenceInv, LceInv
<1>2. /\ pc = "coh_ack" /\ l = req.lce /\ lceCmd[l] = <<SetTagMsg>> /\ m = SetTagMsg
      /\ cmdSt[l] = "ready" /\ ~invd[l] /\ lceResp[l] = <<>> /\ lceDataResp[l] = <<>>
  BY <1>0, <1>1 DEF CommandInv, MayHold, InvMsg
<1>3. Served(l)
  BY <1>1, <1>2 DEF RequestInv, Finishing
<1>4. /\ l \in LCE /\ req.way \in Way /\ m.way = req.way /\ m.tag = req.tag /\ m.st = "E"
      /\ Tail(lceCmd[l]) = <<>>
  <2>1. req.way \in Way
    BY DEF TypeInv, TypeOK, CceTypeOK, Request
  <2>2. Tail(<<SetTagMsg>>) = <<>>
    OBVIOUS
  <2> QED
    BY <1>2, <2>1, <2>2 DEF SetTagMsg
<1> HIDE DEF m
<1>5. /\ tags'[l][req.way] = [tag |-> req.tag, st |-> "E"]
      /\ \A k \in LCE, w \in Way : ~(k = l /\ w = req.way) => tags'[k][w] = tags[k][w]
      /\ \A k \in LCE : k # l => tags'[k] = tags[k]
  <2>1. tags \in [LCE -> [Way -> Entry]]
    BY DEF TypeInv, TypeOK, LceTypeOK
  <2> QED
    BY <1>0, <1>4, <2>1
<1>6. /\ lceCmd'[l] = <<>> /\ tagSet'[l] /\ lceSt'[l] \in {"sleep", "coh_ack"}
      /\ \A k \in LCE : k # l => lceCmd'[k] = lceCmd[k] /\ tagSet'[k] = tagSet[k]
                                /\ lceSt'[k] = lceSt[k]
  <2>1. lceCmd \in [LCE -> Seq(CmdMsg)]
    BY DEF TypeInv, TypeOK, NetTypeOK
  <2>2. tagSet \in [LCE -> BOOLEAN] /\ lceSt \in [LCE -> ReqState]
    BY DEF TypeInv, TypeOK, LceTypeOK
  <2>3. lceSt[l] = "sleep" /\ Wakeup(l, dataRcv[l], TRUE) \in {"sleep", "coh_ack"}
    BY <1>3 DEF Served, Wakeup
  <2>4. lceCmd'[l] = <<>> /\ \A k \in LCE : k # l => lceCmd'[k] = lceCmd[k]
    BY <1>0, <1>4, <2>1 DEF Drop
  <2>5. tagSet'[l] /\ \A k \in LCE : k # l => tagSet'[k] = tagSet[k]
    BY <1>0, <2>2, <2>3
  <2>6. lceSt'[l] \in {"sleep", "coh_ack"} /\ \A k \in LCE : k # l => lceSt'[k] = lceSt[k]
    BY <1>0, <2>2, <2>3
  <2> QED
    BY <2>4, <2>5, <2>6
<1>7. CommandInv(l)' /\ AnswerInv(l)' /\ AbsentInv(l)'
  BY <1>0, <1>2, <1>3, <1>6 DEF CommandInv, AnswerInv, AbsentInv, Served
<1>8. RequestInv(l)'
  <2>1. TagWritten(l)'
    BY <1>5 DEF TagWritten, cceVars, ctlVars
  <2> QED
    BY <1>0, <1>2, <1>3, <1>6, <2>1 DEF RequestInv, Finishing, Served, cceVars, ctlVars
<1>9. ~InvPhase /\ FillPhase
  BY <1>2 DEF InvPhase, FillPhase
<1>10. EngineInv' /\ LceInv' /\ CountInv'
  BY <1>0, <1>5, <1>6, <1>7, <1>8, <1>9, LceFrame
<1>11. \A k \in LCE, w \in Way : ~InvUnderWay(k, w)
  <2> SUFFICES ASSUME NEW k \in LCE PROVE lceCmd[k] # <<>> => Head(lceCmd[k]).type # "INV"
    BY DEF InvUnderWay
  <2>1. CommandInv(k)
    BY DEF CoherenceInv, LceInv
  <2> QED
    BY <1>9, <2>1, <1>2 DEF CommandInv, MayHold, SetTagMsg
<1>12. \A k \in LCE, w \in Way : ~(k = l /\ w = req.way) =>
         /\ dir[k][w].st = tags[k][w].st
         /\ dir[k][w].st # "I" => dir[k][w].tag = tags[k][w].tag
  BY <1>2, <1>11 DEF CoherenceInv, DirInv, DirectoryAccurate, FillUnderWay
<1>13. dir[l][req.way] = [tag |-> req.tag, st |-> "E"]
  BY <1>2, <1>9 DEF CoherenceInv, DirInv, FillInv
<1>14. \A k \in LCE, w \in Way : /\ dir[k][w].st = tags'[k][w].st
                                 /\ dir[k][w].st # "I" => dir[k][w].tag = tags'[k][w].tag
  BY <1>5, <1>12, <1>13
<1>15. SingleCopy'
  BY <1>14 DEF SingleCopy, CoherenceInv, DirInv, DirUnique
<1>16. DirInv'
  <2>1. DirUnique' /\ OwnersInv' /\ ForgottenInv' /\ FillInv'
    BY DEF CoherenceInv, DirInv, DirUnique, OwnersInv, ForgottenInv, FillInv,
      InvPhase, FillPhase, Targets, cceVars, ctlVars
  <2>2. TagStates'
    BY <1>5 DEF CoherenceInv, DirInv, TagStates
  <2>3. DirectoryAccurate'
    BY <1>14 DEF DirectoryAccurate, cceVars, ctlVars
  <2> QED
    BY <2>1, <2>2, <2>3 DEF DirInv
<1> QED
  BY <1>10, <1>15, <1>16 DEF CoherenceInv

LEMMA InvTagInd ==
  ASSUME TypeInv, TypeInv', CoherenceInv, NEW l \in LCE, InvTag(l), UNCHANGED cceVars
  PROVE  CoherenceInv'
<1> DEFINE w0 == Head(lceCmd[l]).way
<1>0. /\ lceCmd[l] # <<>> /\ Head(lceCmd[l]).type = "INV" /\ cmdSt[l] = "ready" /\ ~invd[l]
      /\ tags' = [tags EXCEPT ![l][w0] = [tag |-> @.tag, st |-> "I"]]
      /\ invd' = [invd EXCEPT ![l] = TRUE]
      /\ UNCHANGED <<lceReq, lceResp, lceDataResp, lceCmd, lceSt, miss, tagSet, cmdSt>>
  BY DEF InvTag, Commanded, netVars, reqFsm
<1>1. CommandInv(l) /\ AnswerInv(l) /\ RequestInv(l) /\ AbsentInv(l)
  BY DEF CoherenceInv, LceInv
<1>2. /\ InvPhase /\ l \in Targets /\ l < r0 /\ w0 = gad.ways[l]
  BY <1>0, <1>1 DEF CommandInv, MayHold, SetTagMsg, InvMsg
<1>3. w0 \in Way /\ dir[l][w0].st = "I"
  <2>1. gad.ways \in [LCE -> Way]
    BY DEF TypeInv, TypeOK, CceTypeOK, GadRegs
  <2> QED
    BY <1>2, <2>1 DEF CoherenceInv, DirInv, ForgottenInv
<1> HIDE DEF w0
<1>4. /\ tags'[l][w0] = [tag |-> tags[l][w0].tag, st |-> "I"]
      /\ \A k \in LCE, w \in Way : ~(k = l /\ w = w0) => tags'[k][w] = tags[k][w]
      /\ \A k \in LCE : k # l => tags'[k] = tags[k]
  <2>1. tags \in [LCE -> [Way -> Entry]]
    BY DEF TypeInv, TypeOK, LceTypeOK
  <2> QED
    BY <1>0, <1>3, <2>1
<1>5. invd'[l] /\ \A k \in LCE : k # l => invd'[k] = invd[k]
  BY <1>0 DEF TypeInv, TypeOK, LceTypeOK
<1>6. CommandInv(l)'
  BY <1>0, <1>1, <1>5 DEF CommandInv, MayHold, InvMsg, SetTagMsg, InvPhase, Targets,
    cceVars, ctlVars
<1>7. AnswerInv(l)' /\ RequestInv(l)'
  BY <1>0, <1>1, <1>2 DEF AnswerInv, RequestInv, Unserved, Served, InvPhase, Targets,
    cceVars, ctlVars
<1>8. AbsentInv(l)'
  BY <1>0, <1>1, <1>4 DEF AbsentInv
<1>9. EngineInv' /\ LceInv' /\ CountInv'
  BY <1>0, <1>4, <1>5, <1>6, <1>7, <1>8, LceFrame
<1>10. DirInv' /\ SingleCopy'
  <2>1. DirUnique' /\ OwnersInv' /\ ForgottenInv' /\ FillInv'
    BY DEF CoherenceInv, DirInv, DirUnique, OwnersInv, ForgottenInv, FillInv,
      InvPhase, FillPhase, Targets, cceVars, ctlVars
  <2>2. TagStates' /\ SingleCopy'
    BY <1>4 DEF CoherenceInv, DirInv, TagStates, SingleCopy
  <2>3. ASSUME NEW k \in LCE, NEW w \in Way, ~(k = l /\ w = w0)
        PROVE  \/ InvUnderWay(k, w)' /\ dir[k][w].st = "I"
               \/ /\ dir[k][w].st = tags'[k][w].st
                  /\ dir[k][w].st # "I" => dir[k][w].tag = tags'[k][w].tag
    <3>1. ~FillUnderWay(k, w)
      BY <1>2 DEF FillUnderWay, InvPhase
    <3>2. InvUnderWay(k, w)' <=> InvUnderWay(k, w)
      BY <1>0, <1>5, <2>3 DEF InvUnderWay, w0
    <3> QED
      BY <1>4, <2>3, <3>1, <3>2 DEF CoherenceInv, DirInv, DirectoryAccurate
  <2>4. DirectoryAccurate'
    BY <1>3, <1>4, <2>3 DEF DirectoryAccurate, cceVars, ctlVars
  <2> QED
    BY <2>1, <2>2, <2>4 DEF DirInv
<1> QED
  BY <1>9, <1>10 DEF CoherenceInv
LEMMA SendInvAckInd ==
  ASSUME TypeInv, TypeInv', CoherenceInv, NEW l \in LCE, SendInvAck(l), UNCHANGED cceVars
  PROVE  CoherenceInv'
<1> DEFINE a == [type |-> "inv_ack", tag |-> Head(lceCmd[l]).tag]
<1>0. /\ lceCmd[l] # <<>> /\ Head(lceCmd[l]).type = "INV" /\ cmdSt[l] = "ready" /\ invd[l]
      /\ lceCmd' = Drop(lceCmd, l) /\ lceResp' = Send(lceResp, l, a)
      /\ invd' = [invd EXCEPT ![l] = FALSE]
      /\ UNCHANGED <<lceReq, lceDataResp, lceSt, miss, tagSet, cmdSt, tags>>
  BY DEF SendInvAck, Commanded, reqFsm, arrays
<1>1. CommandInv(l) /\ AnswerInv(l) /\ RequestInv(l) /\ AbsentInv(l)
  BY DEF CoherenceInv, LceInv
<1>2. PICK m \in CmdMsg : lceCmd[l] = <<m>> /\ MayHold(l, m)
  BY <1>0, <1>1 DEF CommandInv
<1>3. /\ InvPhase /\ l \in Targets /\ l < r0 /\ lceResp[l] = <<>> /\ lceDataResp[l] = <<>>
  BY <1>0, <1>1, <1>2 DEF CommandInv, MayHold, SetTagMsg
<1>4. a \in RespMsg
  BY <1>2 DEF RespMsg, AckType, CmdMsg
<1>5. /\ lceCmd'[l] = <<>> /\ \A k \in LCE : k # l => lceCmd'[k] = lceCmd[k]
  <2>1. lceCmd \in [LCE -> Seq(CmdMsg)] /\ Tail(<<m>>) = <<>>
    BY DEF TypeInv, TypeOK, NetTypeOK
  <2> QED
    BY <1>0, <1>2, <2>1 DEF Drop
<1> HIDE DEF a
<1>6. /\ lceResp'[l] = <<a>> /\ \A k \in LCE : k # l => lceResp'[k] = lceResp[k]
  <2>1. lceResp \in [LCE -> Seq(RespMsg)] /\ Append(<<>>, a) = <<a>>
    BY DEF TypeInv, TypeOK, NetTypeOK
  <2> QED
    BY <1>0, <1>3, <2>1 DEF Send
<1>7. ~invd'[l] /\ \A k \in LCE : k # l => invd'[k] = invd[k]
  BY <1>0 DEF TypeInv, TypeOK, LceTypeOK
<1>8. CommandInv(l)' /\ AbsentInv(l)'
  BY <1>0, <1>1, <1>5, <1>7 DEF CommandInv, AbsentInv
<1>9. AnswerInv(l)'
  BY <1>0, <1>3, <1>4, <1>6 DEF AnswerInv, InvPhase, Targets, cceVars, ctlVars
<1>10. RequestInv(l)'
  BY <1>0, <1>1, <1>3 DEF RequestInv, Unserved, Served, InvPhase, cceVars, ctlVars
<1>11. EngineInv' /\ LceInv' /\ CountInv'
  <2>1. \A k \in LCE : k # l =>
          /\ lceReq'[k] = lceReq[k] /\ lceResp'[k] = lceResp[k]
          /\ lceDataResp'[k] = lceDataResp[k] /\ lceCmd'[k] = lceCmd[k]
          /\ lceSt'[k] = lceSt[k] /\ miss'[k] = miss[k] /\ tagSet'[k] = tagSet[k]
          /\ cmdSt'[k] = cmdSt[k] /\ invd'[k] = invd[k] /\ tags'[k] = tags[k]
    BY <1>0, <1>5, <1>6, <1>7
  <2>2. lceCmd[l] # <<>> /\ lceResp'[l] # <<>>
    BY <1>0, <1>6
  <2> QED
    BY <2>1, <2>2, <1>8, <1>9, <1>10, LceFrame
<1>12. \A k \in LCE, w \in Way : InvUnderWay(k, w)' <=> InvUnderWay(k, w)
  BY <1>0, <1>5, <1>7 DEF InvUnderWay
<1>13. DirInv' /\ SingleCopy'
  BY <1>0, <1>12, DirSame
<1> QED
  BY <1>11, <1>13 DEF CoherenceInv

\* Inside a writeback only the progress flag moves.
LEMMA WbProgress ==
  ASSUME TypeInv, CoherenceInv, NEW l \in LCE, UNCHANGED cceVars,
         lceCmd[l] # <<>>, Head(lceCmd[l]).type = "WB",
         NEW s \in CmdState, cmdSt' = [cmdSt EXCEPT ![l] = s],
         UNCHANGED <<netVars, reqFsm, invd, tags>>
  PROVE  CoherenceInv'
<1>0. UNCHANGED <<lceReq, lceResp, lceDataResp, lceCmd, lceSt, miss, tagSet, invd, tags>>
  BY DEF netVars, reqFsm
<1>1. CommandInv(l) /\ AnswerInv(l) /\ RequestInv(l) /\ AbsentInv(l)
  BY DEF CoherenceInv, LceInv
<1>2. \A k \in LCE : k # l => cmdSt'[k] = cmdSt[k]
  BY DEF TypeInv, TypeOK, LceTypeOK
<1>3. CommandInv(l)' /\ AnswerInv(l)' /\ RequestInv(l)' /\ AbsentInv(l)'
  BY <1>0, <1>1 DEF CommandInv, AnswerInv, RequestInv, AbsentInv, MayHold, InvMsg, SetTagMsg,
    InvPhase, Targets, Unserved, Served, Finishing, TagWritten, cceVars, ctlVars
<1>4. EngineInv' /\ LceInv' /\ CountInv'
  BY <1>0, <1>2, <1>3, LceFrame
<1>5. \A k \in LCE, w \in Way : InvUnderWay(k, w)' <=> InvUnderWay(k, w)
  BY <1>0 DEF InvUnderWay
<1>6. DirInv' /\ SingleCopy'
  BY <1>0, <1>5, DirSame
<1> QED
  BY <1>4, <1>6 DEF CoherenceInv

\* A writeback is answered, with the block or without.
LEMMA WbAnswered ==
  ASSUME TypeInv, CoherenceInv, NEW l \in LCE, UNCHANGED cceVars,
         lceCmd[l] # <<>>, Head(lceCmd[l]).type = "WB", NEW a \in DataRespMsg,
         lceDataResp' = Send(lceDataResp, l, a), lceCmd' = Drop(lceCmd, l),
         cmdSt' = [cmdSt EXCEPT ![l] = "ready"],
         UNCHANGED <<reqFsm, invd, tags, lceReq, lceResp>>
  PROVE  CoherenceInv'
<1>0. UNCHANGED <<lceReq, lceResp, lceSt, miss, tagSet, invd, tags>>
  BY DEF reqFsm
<1>1. CommandInv(l) /\ AnswerInv(l) /\ RequestInv(l) /\ AbsentInv(l)
  BY DEF CoherenceInv, LceInv
<1>2. PICK m \in CmdMsg : lceCmd[l] = <<m>> /\ MayHold(l, m)
  BY <1>1 DEF CommandInv
<1>3. /\ \/ pc = "replace_wb" /\ l = req.lce
         \/ pc = "transfer_wb" /\ l = gad.trLce
      /\ lceResp[l] = <<>> /\ lceDataResp[l] = <<>> /\ ~invd[l]
  BY <1>1, <1>2 DEF CommandInv, MayHold, InvMsg, SetTagMsg
<1>4. /\ lceCmd'[l] = <<>> /\ \A k \in LCE : k # l => lceCmd'[k] = lceCmd[k]
  <2>1. lceCmd \in [LCE -> Seq(CmdMsg)] /\ Tail(<<m>>) = <<>>
    BY DEF TypeInv, TypeOK, NetTypeOK
  <2> QED
    BY <1>2, <2>1 DEF Drop
<1>5. /\ lceDataResp'[l] = <<a>> /\ \A k \in LCE : k # l => lceDataResp'[k] = lceDataResp[k]
  <2>1. lceDataResp \in [LCE -> Seq(DataRespMsg)] /\ Append(<<>>, a) = <<a>>
    BY DEF TypeInv, TypeOK, NetTypeOK
  <2> QED
    BY <1>3, <2>1 DEF Send
<1>6. cmdSt'[l] = "ready" /\ \A k \in LCE : k # l => cmdSt'[k] = cmdSt[k]
  BY DEF TypeInv, TypeOK, LceTypeOK
<1>7. CommandInv(l)' /\ AbsentInv(l)'
  BY <1>0, <1>1, <1>3, <1>4, <1>6 DEF CommandInv, AbsentInv
<1>8. AnswerInv(l)'
  BY <1>0, <1>1, <1>3, <1>5 DEF AnswerInv, cceVars, ctlVars
<1>9. RequestInv(l)'
  BY <1>0, <1>1, <1>3 DEF RequestInv, Unserved, Served, cceVars, ctlVars
<1>10. ~InvPhase
  BY <1>3 DEF InvPhase
<1>11. EngineInv' /\ LceInv' /\ CountInv'
  <2>1. \A k \in LCE : k # l =>
          /\ lceReq'[k] = lceReq[k] /\ lceResp'[k] = lceResp[k]
          /\ lceDataResp'[k] = lceDataResp[k] /\ lceCmd'[k] = lceCmd[k]
          /\ lceSt'[k] = lceSt[k] /\ miss'[k] = miss[k] /\ tagSet'[k] = tagSet[k]
          /\ cmdSt'[k] = cmdSt[k] /\ invd'[k] = invd[k] /\ tags'[k] = tags[k]
    BY <1>0, <1>4, <1>5, <1>6
  <2> QED
    BY <2>1, <1>7, <1>8, <1>9, <1>10, LceFrame
<1>12. \A k \in LCE, w \in Way : InvUnderWay(k, w)' <=> InvUnderWay(k, w)
  BY <1>0, <1>2, <1>4 DEF InvUnderWay
<1>13. DirInv' /\ SingleCopy'
  BY <1>0, <1>12, DirSame
<1> QED
  BY <1>11, <1>13 DEF CoherenceInv

LEMMA WritebackInd ==
  ASSUME TypeInv, CoherenceInv, NEW l \in LCE, UNCHANGED cceVars,
         WbCheck(l) \/ WbRead(l) \/ WbClear(l) \/ SendWb(l) \/ SendNullWb(l)
  PROVE  CoherenceInv'
<1>1. lceCmd[l] # <<>> /\ Head(lceCmd[l]).type = "WB"
  BY DEF WbCheck, WbRead, WbClear, SendWb, SendNullWb, Commanded, CoherenceInv, LceInv,
    CommandInv
<1>2. Head(lceCmd[l]).tag \in Tag /\ buf[l] \in Value /\ Zero \in Value
  <2>1. Head(lceCmd[l]) \in CmdMsg
    BY <1>1, DropType DEF TypeInv, TypeOK, NetTypeOK
  <2> QED
    BY <2>1, MeAssumption DEF CmdMsg, TypeInv, TypeOK, LceTypeOK
<1>3. CASE WbCheck(l)
  <2>1. PICK s \in CmdState : cmdSt' = [cmdSt EXCEPT ![l] = s]
    BY <1>3 DEF WbCheck, CmdState
  <2> QED
    BY <1>1, <1>3, <2>1, WbProgress DEF WbCheck, arrays
<1>4. CASE WbRead(l)
  <2>1. "wb_read" \in CmdState
    BY DEF CmdState
  <2> QED
    BY <1>1, <1>4, <2>1, WbProgress DEF WbRead, arrays
<1>5. CASE WbClear(l)
  <2>1. "wb_cleared" \in CmdState
    BY DEF CmdState
  <2> QED
    BY <1>1, <1>5, <2>1, WbProgress DEF WbClear
<1>6. CASE SendWb(l)
  <2>1. [type |-> "wb", data |-> buf[l], tag |-> Head(lceCmd[l]).tag] \in DataRespMsg
    BY <1>2 DEF DataRespMsg
  <2> QED
    BY <1>1, <1>6, <2>1, WbAnswered DEF SendWb, arrays
<1>7. CASE SendNullWb(l)
  <2>1. [type |-> "null_wb", data |-> Zero, tag |-> Head(lceCmd[l]).tag] \in DataRespMsg
    BY <1>2 DEF DataRespMsg
  <2> QED
    BY <1>1, <1>7, <2>1, WbAnswered DEF SendNullWb, arrays
<1> QED
  BY <1>3, <1>4, <1>5, <1>6, <1>7

-----------------------------------------------------------------------------
(* The theorems.                                                           *)

LEMMA CoherenceInvInit == Init => CoherenceInv
<1> SUFFICES ASSUME Init PROVE CoherenceInv
  OBVIOUS
<1>1. PICK t \in Tag : CceInit!(t)
  BY DEF Init, CceInit
<1>2. PICK u \in Tag : LceInit!(u)
  BY DEF Init, LceInit
<1>3. EngineInv
  BY <1>1 DEF EngineInv, PendingInv, ExclusiveOnly, RoutineInv, InvPhase, MemWriteInv, MemReadInv
<1>4. LceInv /\ CountInv
  BY <1>1, <1>2 DEF Init, NetInit, LceInv, CommandInv, AnswerInv, RequestInv, AbsentInv,
    Unserved, CountInv, InvPhase
<1>5. DirInv /\ SingleCopy
  BY <1>1, <1>2 DEF DirInv, DirUnique, OwnersInv, ForgottenInv, FillInv, TagStates,
    DirectoryAccurate, SingleCopy, InvPhase, FillPhase
<1> QED
  BY <1>3, <1>4, <1>5 DEF CoherenceInv

LEMMA CceStep ==
  ASSUME TypeInv, TypeInv', CoherenceInv, CceNext, UNCHANGED lceVars
  PROVE  CoherenceInv'
BY InvSendInd, InvSkipInd, ReplaceInd, MemRespInd, TransferInd, TransferMemInd, ReadL2TrInd,
   ReadL2Ind, MemDataRespInd, SendSetTagInd, LceReqInd, InvAckInd, ReplaceWbInd,
   TransferWbInd, CohAckInd
   DEF CceNext

LEMMA LceStepInd ==
  ASSUME TypeInv, TypeInv', CoherenceInv, LceNext, UNCHANGED cceVars
  PROVE  CoherenceInv'
<1> PICK l \in LCE : \/ LceStep(l)
                     \/ \E t \in Tag : \/ \E v \in Value : Store(l, t, v)
                                       \/ \E wr \in BOOLEAN : Miss(l, t, wr)
  BY DEF LceNext
<1>1. CASE LceStep(l)
  BY <1>1, SendReqInd, RecvDataInd, SendCohAckInd, SetTagInd, InvTagInd, SendInvAckInd,
    WritebackInd DEF LceStep
<1>2. ASSUME NEW t \in Tag, NEW v \in Value, Store(l, t, v)
      PROVE  CoherenceInv'
  BY <1>2, StoreInd DEF Store, lceView, netVars, reqFsm, cmdFsm
<1>3. ASSUME NEW t \in Tag, NEW wr \in BOOLEAN, Miss(l, t, wr)
      PROVE  CoherenceInv'
  BY <1>3, MissInd
<1> QED
  BY <1>1, <1>2, <1>3

LEMMA CoherenceInvStep == TypeInv /\ TypeInv' /\ CoherenceInv /\ [Next]_vars => CoherenceInv'
<1> SUFFICES ASSUME TypeInv, TypeInv', CoherenceInv, [Next]_vars
             PROVE  CoherenceInv'
  OBVIOUS
<1>1. CASE CceNext /\ UNCHANGED <<lceVars, mem>>
  BY <1>1, CceStep
<1>2. CASE LceNext /\ UNCHANGED <<cceVars, mem>>
  BY <1>2, LceStepInd
<1>3. CASE MemWrite
  BY <1>3, MemWriteInd
<1>4. CASE MemRead
  BY <1>4, MemReadInd
<1>5. CASE UNCHANGED vars
  BY <1>5, StoreInd DEF vars, lceView, netVars, lceVars, reqFsm, cmdFsm, arrays
<1> QED
  BY <1>1, <1>2, <1>3, <1>4, <1>5 DEF Next

\* CoherenceInv holds in every reachable state: the phases of demo-v2.S, the
\* queues, the LCE state machines and the directory fit together.
THEOREM Coherent == Spec => []CoherenceInv
<1>1. Spec => []TypeInv
  BY TypeInvInit, TypeInvStep, PTL DEF Spec
<1> QED
  BY <1>1, CoherenceInvInit, CoherenceInvStep, PTL DEF Spec

\* No two ways hold the same block, for any number of caches, ways and tags:
\* the microcode takes a block away from its owner before it grants it.
THEOREM SingleCopyHolds == Spec => []SingleCopy
<1>1. CoherenceInv => SingleCopy
  BY DEF CoherenceInv
<1> QED
  BY <1>1, Coherent, PTL

\* The directory (bp_cce_dir.v) agrees with every cache's tag array but for a
\* fill or an invalidation on its way.
THEOREM DirectoryHolds == Spec => []DirectoryAccurate
<1>1. CoherenceInv => DirectoryAccurate
  BY DEF CoherenceInv, DirInv
<1> QED
  BY <1>1, Coherent, PTL

\* The microcode never reaches its error label: no request finds the pending
\* bit set or asks for an upgrade (demo-v2.S:45-49, 104-110).
THEOREM EngineNeverStalls == Spec => []NeverStalls
<1>1. CoherenceInv => NeverStalls
  BY DEF CoherenceInv, EngineInv, PendingInv, NeverStalls
<1> QED
  BY <1>1, Coherent, PTL

\* bsg_encode_one_hot in bp_cce_gad.v is always given at most one sharer.
THEOREM AtMostOneSharer == Spec => []OneSharer
<1>1. CoherenceInv => OneSharer
  <2> SUFFICES ASSUME CoherenceInv, NEW t \in Tag
               PROVE  Cardinality(SharersHits(dir, t)) <= 1
    BY DEF OneSharer
  <2>1. \A k, l \in SharersHits(dir, t) : k = l
    BY DEF SharersHits, TagSetHit, CoherenceInv, DirInv, DirUnique
  <2>2. CASE SharersHits(dir, t) = {}
    BY <2>2, FS_EmptySet
  <2>3. CASE SharersHits(dir, t) # {}
    <3>1. PICK l \in SharersHits(dir, t) : SharersHits(dir, t) = {l}
      BY <2>1, <2>3
    <3> QED
      BY <3>1, FS_Singleton
  <2> QED
    BY <2>2, <2>3
<1> QED
  BY <1>1, Coherent, PTL
=============================================================================
