----------------------------- MODULE MeMessages -----------------------------
(***************************************************************************)
(* What is in a message: acknowledgements, writebacks and fills are those  *)
(* of the request being served, and no channel holds two (MessageInv).     *)
(* And what that says of victims: an LCE's word on the way it gives up is  *)
(* still true when the engine acts on it, so a replacement writeback is    *)
(* never null and a fill never lands on a dirty way (VictimState).  Both   *)
(* are inductive together with CoherenceInv.                               *)
(***************************************************************************)
EXTENDS MeCoherence

\* An acknowledgement is for the requested block and of the type that the
\* routine in progress counts.
AnswerFits(l) ==
  lceResp[l] # <<>> =>
    /\ Head(lceResp[l]).tag = req.tag
    /\ InvPhase => Head(lceResp[l]).type = "inv_ack"
    /\ pc = "coh_ack" => Head(lceResp[l]).type = "coh_ack"

\* Until it has acknowledged, the requestor waits for what the engine serves.
ServedTag ==
  pc # "ready" /\ lceResp[req.lce] = <<>> => miss[req.lce].tag = req.tag

\* A writeback under way is of way w and comes back with tag t.
Asked(l, t, w) ==
  /\ lceCmd[l] # <<>> => Head(lceCmd[l]).tag = t /\ Head(lceCmd[l]).way = w
  /\ lceDataResp[l] # <<>> => Head(lceDataResp[l]).tag = t

WritebacksFit ==
  /\ pc = "replace_wb" => Asked(req.lce, gad.lruTag, req.way)
  /\ pc = "transfer_wb" => Asked(gad.trLce, req.tag, gad.trWay)

Filling == pc \in {"send_st", "coh_ack"}

\* No answer to the miss of l can be under way.
Waiting(l) == lceSt[l] = "send" \/ lceReq[l] # <<>>

\* A block in flight is the one block that its sleeping requestor waits for.
FillFits(l) ==
  /\ lceDataCmd[l] # <<>> =>
       /\ Filling /\ l = req.lce
       /\ lceSt[l] = "sleep" /\ lceReq[l] = <<>> /\ ~dataRcv[l]
       /\ \E m \in DataCmdMsg : lceDataCmd[l] = <<m>> /\ m.way = req.way
  /\ Waiting(l) => ~dataRcv[l]
  /\ lceSt[l] = "sleep" /\ dataRcv[l] => Filling /\ l = req.lce

MessageInv ==
  /\ ServedTag /\ WritebacksFit
  /\ \A l \in LCE : AnswerFits(l) /\ FillFits(l)

-----------------------------------------------------------------------------
(* The engine.                                                             *)

LEMMA MessageTypes ==
  ASSUME TypeInv
  PROVE  /\ req.lce \in LCE /\ req.way \in Way /\ req.tag \in Tag
         /\ gad.trLce \in LCE /\ gad.trWay \in Way /\ gad.lruTag \in Tag
         /\ lceReq \in [LCE -> Seq(ReqMsg)] /\ lceResp \in [LCE -> Seq(RespMsg)]
         /\ lceDataResp \in [LCE -> Seq(DataRespMsg)] /\ lceCmd \in [LCE -> Seq(CmdMsg)]
         /\ lceDataCmd \in [LCE -> Seq(DataCmdMsg)]
         /\ miss \in [LCE -> ReqMsg] /\ lceSt \in [LCE -> ReqState]
         /\ dataRcv \in [LCE -> BOOLEAN] /\ tagSet \in [LCE -> BOOLEAN]
         /\ cmdSt \in [LCE -> CmdState]
BY DEF TypeInv, TypeOK, NetTypeOK, CceTypeOK, LceTypeOK, Request, GadRegs

\* The steps in which the engine neither takes up a request, nor fills, nor
\* ends one.
InvMoves == InvSend \/ InvSkip \/ \E l \in LCE : InvAck(l)
MemMoves == MemResp \/ TransferMem \/ ReadL2Tr \/ ReadL2
WbMoves == \E l \in LCE : ReplaceWb(l) \/ TransferWb(l)
SendMoves == Replace \/ Transfer \/ SendSetTag
Moves == InvMoves \/ MemMoves \/ WbMoves \/ SendMoves

\* Where an invalidation routine that ends goes.
AfterInv == {"replace", "transfer", "read_l2"}

LEMMA InvMovesFacts ==
  ASSUME TypeInv, CoherenceInv, InvMoves, UNCHANGED lceVars
  PROVE  /\ InvPhase /\ pc' \in {"inv_top", "inv_ack_top"} \cup AfterInv
         /\ UNCHANGED <<req, gad, lceReq, lceDataCmd, lceDataResp>>
         /\ \A l \in LCE : lceResp'[l] # <<>> => lceResp'[l] = lceResp[l]
         /\ lceResp'[req.lce] = lceResp[req.lce]
<1>1. InvPhase /\ ~gad.uf
  BY DEF InvMoves, InvSend, InvSkip, InvAck, InvPhase, CoherenceInv, EngineInv, RoutineInv
<1>2. \A i, n : InvTop(i, n) \in {"inv_top", "inv_ack_top"} \cup AfterInv
                /\ InvAckTop(n) \in {"inv_ack_top"} \cup AfterInv
  BY <1>1, LoopJump DEF AfterInv
<1>3. CASE InvSend \/ InvSkip
  BY <1>1, <1>2, <1>3 DEF InvSend, InvSkip, netVars
<1>4. ASSUME NEW k \in LCE, InvAck(k)
      PROVE  /\ InvPhase /\ pc' \in {"inv_top", "inv_ack_top"} \cup AfterInv
             /\ UNCHANGED <<req, gad, lceReq, lceDataCmd, lceDataResp>>
             /\ \A l \in LCE : lceResp'[l] # <<>> => lceResp'[l] = lceResp[l]
             /\ lceResp'[req.lce] = lceResp[req.lce]
  <2>1. AnswerInv(k) /\ lceResp[k] # <<>> /\ lceResp' = Drop(lceResp, k)
    BY <1>4 DEF CoherenceInv, LceInv, InvAck
  <2>2. PICK m \in RespMsg : lceResp[k] = <<m>>
    BY <2>1 DEF AnswerInv
  <2>3. k # req.lce
    BY <1>1, <2>1 DEF AnswerInv, Targets, InvPhase
  <2>4. lceResp'[k] = <<>> /\ \A l \in LCE : l # k => lceResp'[l] = lceResp[l]
    BY <2>1, <2>2, MessageTypes DEF Drop
  <2> QED
    BY <1>1, <1>2, <1>4, <2>3, <2>4, MessageTypes DEF InvAck
<1> QED
  BY <1>3, <1>4 DEF InvMoves

LEMMA OtherMovesFacts ==
  ASSUME TypeInv, CoherenceInv, MemMoves \/ WbMoves \/ SendMoves, UNCHANGED lceVars
  PROVE  /\ ~InvPhase /\ ~InvPhase' /\ pc # "ready" /\ pc # "coh_ack" /\ pc' # "send_st"
         /\ pc' = "coh_ack" <=> pc = "send_st"
         /\ UNCHANGED <<req, gad, lceReq, lceResp, lceDataCmd>>
<1>1. CASE MemResp \/ TransferMem
  <2>1. PopMemResp /\ pc \in {"mem_resp", "transfer_mem"}
    BY <1>1 DEF MemResp, TransferMem
  <2>2. req' = req /\ gad' = gad
    BY <2>1, Restored
  <2>3. TransferCheck(gad'.tf) \in {"transfer", "read_l2"}
    BY DEF TransferCheck
  <2> QED
    BY <1>1, <2>1, <2>2, <2>3 DEF MemResp, TransferMem, PopMemResp, netVars, InvPhase
<1>2. CASE ReadL2Tr \/ ReadL2
  BY <1>2 DEF ReadL2Tr, ReadL2, netVars, InvPhase
<1>3. CASE WbMoves
  BY <1>3 DEF WbMoves, ReplaceWb, TransferWb, InvPhase
<1>4. CASE SendMoves
  BY <1>4 DEF SendMoves, Replace, Transfer, SendSetTag, InvPhase, ctlVars
<1> QED
  BY <1>1, <1>2, <1>3, <1>4 DEF MemMoves

LEMMA MovesKeep ==
  ASSUME TypeInv, CoherenceInv, MessageInv, Moves, UNCHANGED lceVars
  PROVE  ServedTag' /\ \A l \in LCE : AnswerFits(l)' /\ FillFits(l)'
<1>0. UNCHANGED <<miss, lceSt, dataRcv>>
  BY DEF lceVars, reqFsm
<1>1. CASE InvMoves
  BY <1>0, <1>1, InvMovesFacts
  DEF MessageInv, ServedTag, AnswerFits, FillFits, Filling, Waiting, InvPhase, AfterInv
<1>2. CASE ~InvMoves
  <2>1. \A l \in LCE : pc = "send_st" => lceResp[l] = <<>>
    BY QuietQueues DEF Quiet
  <2> QED
    BY <1>0, <1>2, <2>1, OtherMovesFacts
    DEF Moves, MessageInv, ServedTag, AnswerFits, FillFits, Filling, Waiting
<1> QED
  BY <1>1, <1>2

\* Only the two steps that ask for a writeback lead to where it is awaited.
LEMMA AskedWriteback ==
  ASSUME TypeInv, CoherenceInv, Moves, UNCHANGED lceVars
  PROVE  WritebacksFit'
<1>1. CASE Replace \/ Transfer
  <2> DEFINE m == IF Replace THEN [type |-> "WB", tag |-> gad.lruTag, way |-> req.way, st |-> "I"]
                  ELSE [type |-> "WB", tag |-> req.tag, way |-> gad.trWay, st |-> "I"]
             d == IF Replace THEN req.lce ELSE gad.trLce
  <2>1. /\ lceCmd' = Send(lceCmd, d, m) /\ lceCmd[d] = <<>> /\ d \in LCE
        /\ lceDataResp'[d] = <<>> /\ UNCHANGED <<req, gad>>
    BY <1>1, QuietQueues, MessageTypes DEF Replace, Transfer, ctlVars, Quiet
  <2>2. lceCmd'[d] = <<m>>
    BY <2>1, MessageTypes DEF Send
  <2>3. Head(lceCmd'[d]) = m
    BY <2>2
  <2>4. pc' = IF Replace THEN "replace_wb" ELSE "transfer_wb"
    BY <1>1 DEF Replace, Transfer
  <2> QED
    BY <2>1, <2>3, <2>4 DEF WritebacksFit, Asked
<1>2. CASE ~(Replace \/ Transfer)
  <2>1. pc' \notin {"replace_wb", "transfer_wb"}
    <3>1. CASE InvMoves
      BY <3>1, InvMovesFacts DEF AfterInv
    <3>2. CASE MemMoves
      BY <3>2 DEF MemMoves, MemResp, TransferMem, ReadL2Tr, ReadL2, TransferCheck
    <3>3. CASE WbMoves
      BY <3>3 DEF WbMoves, ReplaceWb, TransferWb
    <3>4. CASE SendMoves
      BY <1>2, <3>4 DEF SendMoves, SendSetTag
    <3> QED
      BY <3>1, <3>2, <3>3, <3>4 DEF Moves
  <2> QED
    BY <2>1 DEF WritebacksFit
<1> QED
  BY <1>1, <1>2

LEMMA LceReqMessages ==
  ASSUME TypeInv, CoherenceInv, MessageInv, NEW l \in LCE, LceReq(l), UNCHANGED lceVars
  PROVE  MessageInv'
<1>0. /\ pc = "ready" /\ lceReq[l] # <<>> /\ lceReq' = Drop(lceReq, l)
      /\ req'.lce = l /\ req'.tag = Head(lceReq[l]).tag
      /\ UNCHANGED <<lceResp, lceDataResp, lceCmd, lceDataCmd, miss, lceSt, dataRcv>>
  BY DEF LceReq, lceVars, reqFsm
<1>1. pc' \notin {"replace_wb", "transfer_wb", "send_st", "coh_ack"}
  BY DEF LceReq, UpgradeCheck, ReplaceCheck, TransferCheck
<1>2. \A k \in LCE : lceResp[k] = <<>> /\ RequestInv(k)
  BY <1>0, QuietQueues DEF CoherenceInv, LceInv
<1>3. lceReq[l] = <<miss[l]>>
  BY <1>0, <1>2 DEF RequestInv, Unserved
<1>4. lceReq'[l] = <<>> /\ \A k \in LCE : k # l => lceReq'[k] = lceReq[k]
  BY <1>0, <1>3, MessageTypes DEF Drop
<1>5. ServedTag' /\ \A k \in LCE : AnswerFits(k)'
  BY <1>0, <1>2, <1>3 DEF ServedTag, AnswerFits
<1>6. \A k \in LCE : FillFits(k)'
  BY <1>0, <1>4 DEF MessageInv, FillFits, Filling, Waiting
<1> QED
  BY <1>1, <1>5, <1>6 DEF MessageInv, WritebacksFit

\* The block is sent while its requestor sleeps and has received nothing.
LEMMA MemDataRespMessages ==
  ASSUME TypeInv, TypeInv', CoherenceInv, MessageInv, MemDataResp, UNCHANGED lceVars
  PROVE  MessageInv'
<1> DEFINE m == Head(memDataResp)
           c == [tag |-> m.cmd.tag, way |-> m.cmd.way, data |-> m.data]
<1>0. /\ pc = "mem_data_resp" /\ pc' = "send_st"
      /\ lceDataCmd' = Send(lceDataCmd, m.cmd.lce, c)
      /\ UNCHANGED <<lceReq, lceResp, lceDataResp, lceCmd, miss, lceSt, dataRcv>>
  BY DEF MemDataResp, lceVars, reqFsm
<1>1. m.cmd = MemCmd
  BY <1>0 DEF MemDataResp, CoherenceInv, EngineInv, MemReadInv
<1>2. m.cmd.lce = req.lce /\ m.cmd.tag = req.tag /\ m.cmd.way = req.way
  BY <1>1 DEF MemCmd
<1>2a. req'.lce = req.lce /\ req'.tag = req.tag /\ req'.way = req.way
  BY <1>2 DEF MemDataResp, TypeInv, TypeOK, CceTypeOK, Request
<1>2b. lceDataCmd' = Send(lceDataCmd, req.lce, c)
  BY <1>0, <1>2
<1>3. \A k \in LCE : lceResp[k] = <<>> /\ RequestInv(k) /\ lceDataCmd[k] = <<>>
  BY <1>0, QuietQueues DEF CoherenceInv, LceInv, Quiet, MessageInv, FillFits, Filling
<1>4. lceSt[req.lce] = "sleep" /\ lceReq[req.lce] = <<>> /\ ~dataRcv[req.lce]
  BY <1>0, <1>3, MessageTypes DEF RequestInv, Served, MessageInv, FillFits, Filling
<1>5. lceDataCmd'[req.lce] = <<c>> /\ \A k \in LCE : k # req.lce => lceDataCmd'[k] = <<>>
  <2> HIDE DEF c
  <2>1. lceDataCmd'[req.lce] = Append(lceDataCmd[req.lce], c)
    BY <1>2b, MessageTypes DEF Send
  <2>2. \A k \in LCE : k # req.lce => lceDataCmd'[k] = lceDataCmd[k]
    BY <1>2b, MessageTypes DEF Send
  <2>3. Append(<<>>, c) = <<c>>
    OBVIOUS
  <2> QED
    BY <1>3, <2>1, <2>2, <2>3, MessageTypes
<1>6. c \in DataCmdMsg
  <2>1. <<c>> \in Seq(DataCmdMsg)
    BY <1>2, <1>5, MessageTypes DEF TypeInv, TypeOK, NetTypeOK
  <2>2. <<c>>[1] \in DataCmdMsg
    BY <2>1
  <2> QED BY <2>2
<1>7. c.way = req'.way
  BY <1>2, <1>2a
<1>8. \A k \in LCE : FillFits(k)'
  BY <1>0, <1>2a, <1>4, <1>5, <1>6, <1>7 DEF MessageInv, FillFits, Filling, Waiting
<1>9. ServedTag' /\ \A k \in LCE : AnswerFits(k)'
  BY <1>0, <1>2a, <1>3 DEF MessageInv, ServedTag, AnswerFits
<1> QED
  BY <1>0, <1>8, <1>9 DEF MessageInv, WritebacksFit

LEMMA CohAckMessages ==
  ASSUME TypeInv, CoherenceInv, MessageInv, NEW l \in LCE, CohAck(l), UNCHANGED lceVars
  PROVE  MessageInv'
<1>0. /\ pc = "coh_ack" /\ pc' = "ready" /\ lceResp[l] # <<>> /\ lceResp' = Drop(lceResp, l)
      /\ UNCHANGED <<req, lceReq, lceDataResp, lceCmd, lceDataCmd, miss, lceSt, dataRcv>>
  BY DEF CohAck, lceVars, reqFsm, ctlVars
<1>1. AnswerInv(l) /\ RequestInv(l)
  BY DEF CoherenceInv, LceInv
<1>2. l = req.lce /\ Unserved(l)
  BY <1>0, <1>1 DEF AnswerInv, RequestInv, Finishing, InvPhase
<1>3. \A k \in LCE : lceResp'[k] = <<>>
  <2>1. \A k \in LCE : AnswerInv(k)
    BY DEF CoherenceInv, LceInv
  <2>2. PICK m \in RespMsg : lceResp[l] = <<m>>
    BY <1>0, <2>1 DEF AnswerInv
  <2>3. lceResp'[l] = <<>> /\ \A k \in LCE : k # l => lceResp'[k] = lceResp[k]
    BY <1>0, <2>2, MessageTypes DEF Drop
  <2> QED
    BY <1>0, <1>2, <2>1, <2>3 DEF AnswerInv, InvPhase
<1>4. \A k \in LCE : FillFits(k)'
  BY <1>0, <1>2 DEF MessageInv, FillFits, Filling, Waiting, Unserved
<1> QED
  BY <1>0, <1>3, <1>4 DEF MessageInv, WritebacksFit, ServedTag, AnswerFits

LEMMA EngineMessages ==
  ASSUME TypeInv, TypeInv', CoherenceInv, MessageInv, CceNext, UNCHANGED lceVars
  PROVE  MessageInv'
<1>1. CASE Moves
  BY <1>1, MovesKeep, AskedWriteback DEF MessageInv
<1>2. CASE MemDataResp
  BY <1>2, MemDataRespMessages
<1>3. CASE \E l \in LCE : LceReq(l) \/ CohAck(l)
  BY <1>3, LceReqMessages, CohAckMessages
<1> QED
  BY <1>1, <1>2, <1>3 DEF CceNext, Moves, InvMoves, MemMoves, WbMoves, SendMoves

-----------------------------------------------------------------------------
(* The LCEs.                                                               *)

\* Nothing that the invariant says of LCE k has changed.
Untouched(k) ==
  /\ lceReq'[k] = lceReq[k] /\ lceResp'[k] = lceResp[k]
  /\ lceDataResp'[k] = lceDataResp[k] /\ lceCmd'[k] = lceCmd[k]
  /\ lceDataCmd'[k] = lceDataCmd[k] /\ lceSt'[k] = lceSt[k]
  /\ miss'[k] = miss[k] /\ dataRcv'[k] = dataRcv[k]

\* A step of LCE l is judged by what it does to l.
LEMMA LceMessageFrame ==
  ASSUME TypeInv, MessageInv, UNCHANGED cceVars, NEW l \in LCE,
         \A k \in LCE : k # l => Untouched(k),
         AnswerFits(l)', FillFits(l)',
         l = req.lce => ServedTag',
         \A t \in Tag, w \in Way : Asked(l, t, w) => Asked(l, t, w)'
  PROVE  MessageInv'
<1>0. UNCHANGED <<pc, req, gad>>
  BY DEF cceVars, ctlVars
<1>1. ServedTag'
  BY <1>0, MessageTypes DEF MessageInv, ServedTag, Untouched
<1>2. WritebacksFit'
  <2>1. \A k \in LCE, t \in Tag, w \in Way : Asked(k, t, w) => Asked(k, t, w)'
    BY DEF Asked, Untouched
  <2> QED
    BY <1>0, <2>1, MessageTypes DEF MessageInv, WritebacksFit
<1>3. \A k \in LCE : AnswerFits(k)' /\ FillFits(k)'
  <2> SUFFICES ASSUME NEW k \in LCE, k # l PROVE AnswerFits(k)' /\ FillFits(k)'
    OBVIOUS
  <2>1. AnswerFits(k)'
    BY <1>0 DEF MessageInv, AnswerFits, Untouched, InvPhase
  <2>2. FillFits(k)'
    BY <1>0 DEF MessageInv, FillFits, Filling, Waiting, Untouched
  <2> QED
    BY <2>1, <2>2
<1> QED
  BY <1>1, <1>2, <1>3 DEF MessageInv

\* Steps that touch neither the queues nor the miss state machine: commands in
\* progress and stores.
LEMMA QuietLceMessages ==
  ASSUME TypeInv, MessageInv, UNCHANGED <<cceVars, netVars, reqFsm>>
  PROVE  MessageInv'
<1>1. UNCHANGED <<pc, req, gad, lceReq, lceResp, lceDataResp, lceCmd, lceDataCmd,
                  lceSt, miss, dataRcv>>
  BY DEF cceVars, ctlVars, netVars, reqFsm
<1> QED
  BY <1>1 DEF MessageInv, ServedTag, WritebacksFit, Asked, AnswerFits, InvPhase,
    FillFits, Filling, Waiting

LEMMA MissMessages ==
  ASSUME TypeInv, CoherenceInv, MessageInv, UNCHANGED cceVars, NEW l \in LCE,
         NEW t \in Tag, NEW wr \in BOOLEAN, Miss(l, t, wr)
  PROVE  MessageInv'
<1>0. /\ lceSt[l] = "ready" /\ lceSt' = [lceSt EXCEPT ![l] = "send"]
      /\ dataRcv' = [dataRcv EXCEPT ![l] = FALSE]
      /\ UNCHANGED <<pc, req, gad, lceReq, lceResp, lceDataResp, lceCmd, lceDataCmd>>
  BY DEF Miss, netVars, cceVars, ctlVars
<1>1. \A k \in LCE : k # l => Untouched(k)
  <2>1. PICK m : miss' = [miss EXCEPT ![l] = m]
    BY DEF Miss
  <2> QED
    BY <1>0, <2>1, MessageTypes DEF Untouched
<1>2. lceSt'[l] = "send" /\ ~dataRcv'[l]
  BY <1>0, MessageTypes
<1>3. RequestInv(l)
  BY DEF CoherenceInv, LceInv
<1>4. l = req.lce => ServedTag'
  BY <1>0, <1>3 DEF RequestInv, Served, Finishing, Unserved, ServedTag
<1>5. AnswerFits(l)'
  BY <1>0 DEF MessageInv, AnswerFits, InvPhase
<1>6. FillFits(l)'
  BY <1>0, <1>2 DEF MessageInv, FillFits, Filling, Waiting
<1>7. \A u \in Tag, w \in Way : Asked(l, u, w) => Asked(l, u, w)'
  BY <1>0 DEF Asked
<1> QED
  BY <1>1, <1>4, <1>5, <1>6, <1>7, LceMessageFrame

LEMMA SendReqMessages ==
  ASSUME TypeInv, CoherenceInv, MessageInv, UNCHANGED cceVars, NEW l \in LCE, SendReq(l)
  PROVE  MessageInv'
<1>0. /\ lceSt[l] = "send" /\ lceSt' = [lceSt EXCEPT ![l] = "sleep"]
      /\ lceReq' = Send(lceReq, l, miss[l])
      /\ UNCHANGED <<pc, req, gad, lceResp, lceDataResp, lceCmd, lceDataCmd, miss, dataRcv>>
  BY DEF SendReq, cceVars, ctlVars
<1>1. \A k \in LCE : k # l => Untouched(k)
  BY <1>0, MessageTypes DEF Untouched, Send
<1>2. ~dataRcv[l] /\ lceDataCmd[l] = <<>>
  BY <1>0 DEF MessageInv, FillFits, Waiting
<1>3. AnswerFits(l)' /\ FillFits(l)' /\ ServedTag'
  BY <1>0, <1>2 DEF MessageInv, AnswerFits, InvPhase, FillFits, ServedTag
<1>4. \A u \in Tag, w \in Way : Asked(l, u, w) => Asked(l, u, w)'
  BY <1>0 DEF Asked
<1> QED
  BY <1>1, <1>3, <1>4, LceMessageFrame

LEMMA RecvDataMessages ==
  ASSUME TypeInv, CoherenceInv, MessageInv, UNCHANGED cceVars, NEW l \in LCE, RecvData(l)
  PROVE  MessageInv'
<1>0. /\ lceDataCmd[l] # <<>> /\ lceDataCmd' = Drop(lceDataCmd, l)
      /\ UNCHANGED <<pc, req, gad, lceReq, lceResp, lceDataResp, lceCmd, miss>>
  BY DEF RecvData, cceVars, ctlVars
<1>1. /\ Filling /\ l = req.lce /\ lceSt[l] = "sleep" /\ lceReq[l] = <<>>
      /\ \E m \in DataCmdMsg : lceDataCmd[l] = <<m>>
  BY <1>0 DEF MessageInv, FillFits
<1>2. lceDataCmd'[l] = <<>> /\ \A k \in LCE : k # l => lceDataCmd'[k] = lceDataCmd[k]
  <2>1. PICK m \in DataCmdMsg : lceDataCmd[l] = <<m>>
    BY <1>1
  <2> QED
    BY <1>0, <2>1, MessageTypes DEF Drop
<1>3. /\ lceSt'[l] \in {"sleep", "coh_ack"}
      /\ \A k \in LCE : k # l => lceSt'[k] = lceSt[k] /\ dataRcv'[k] = dataRcv[k]
  BY <1>1, MessageTypes DEF RecvData, Wakeup
<1>4. \A k \in LCE : k # l => Untouched(k)
  BY <1>0, <1>2, <1>3 DEF Untouched
<1>5. AnswerFits(l)' /\ ServedTag'
  BY <1>0 DEF MessageInv, AnswerFits, InvPhase, ServedTag
<1>6. FillFits(l)'
  BY <1>0, <1>1, <1>2, <1>3 DEF FillFits, Filling, Waiting
<1>7. \A u \in Tag, w \in Way : Asked(l, u, w) => Asked(l, u, w)'
  BY <1>0 DEF Asked
<1> QED
  BY <1>4, <1>5, <1>6, <1>7, LceMessageFrame

LEMMA SendCohAckMessages ==
  ASSUME TypeInv, CoherenceInv, MessageInv, UNCHANGED cceVars, NEW l \in LCE, SendCohAck(l)
  PROVE  MessageInv'
<1> DEFINE m == [type |-> "coh_ack", tag |-> miss[l].tag]
<1>0. /\ lceSt[l] = "coh_ack" /\ lceSt' = [lceSt EXCEPT ![l] = "ready"]
      /\ lceResp' = Send(lceResp, l, m)
      /\ UNCHANGED <<pc, req, gad, lceReq, lceDataResp, lceCmd, lceDataCmd, miss, dataRcv>>
  BY DEF SendCohAck, cceVars, ctlVars
<1>1. RequestInv(l)
  BY DEF CoherenceInv, LceInv
<1>2. pc = "coh_ack" /\ l = req.lce /\ lceResp[l] = <<>> /\ lceReq[l] = <<>>
  BY <1>0, <1>1 DEF RequestInv, Served, Finishing, Unserved
<1>3. m.tag = req.tag /\ m.type = "coh_ack"
  BY <1>2 DEF MessageInv, ServedTag
<1>4. lceResp'[l] = <<m>> /\ \A k \in LCE : k # l => Untouched(k)
  BY <1>0, <1>2, MessageTypes DEF Send, Untouched
<1>5. AnswerFits(l)' /\ ServedTag'
  BY <1>0, <1>2, <1>3, <1>4 DEF AnswerFits, InvPhase, ServedTag
<1>6. FillFits(l)'
  BY <1>0, <1>2, MessageTypes DEF MessageInv, FillFits, Filling, Waiting
<1>7. \A u \in Tag, w \in Way : Asked(l, u, w) => Asked(l, u, w)'
  BY <1>0 DEF Asked
<1> QED
  BY <1>4, <1>5, <1>6, <1>7, LceMessageFrame

\* Set tag goes to the sleeping requestor, which wakes only when its block has
\* come.
LEMMA SetTagMessages ==
  ASSUME TypeInv, CoherenceInv, MessageInv, UNCHANGED cceVars, NEW l \in LCE, SetTag(l)
  PROVE  MessageInv'
<1>0. /\ lceCmd[l] # <<>> /\ Head(lceCmd[l]).type = "ST" /\ lceCmd' = Drop(lceCmd, l)
      /\ lceSt' = [lceSt EXCEPT ![l] = Wakeup(l, dataRcv[l], TRUE)]
      /\ UNCHANGED <<pc, req, gad, lceReq, lceResp, lceDataResp, lceDataCmd, miss, dataRcv>>
  BY DEF SetTag, Commanded, cceVars, ctlVars
<1>1. CommandInv(l) /\ RequestInv(l)
  BY DEF CoherenceInv, LceInv
<1>2. PICK m \in CmdMsg : lceCmd[l] = <<m>> /\ MayHold(l, m)
  BY <1>0, <1>1 DEF CommandInv
<1>3. pc = "coh_ack" /\ l = req.lce
  BY <1>0, <1>2 DEF MayHold, InvMsg
<1>4. lceSt[l] = "sleep" /\ lceReq[l] = <<>>
  BY <1>0, <1>1, <1>3 DEF RequestInv, Finishing, Served
<1>5. lceCmd'[l] = <<>> /\ \A k \in LCE : k # l => Untouched(k)
  BY <1>0, <1>2, MessageTypes DEF Drop, Untouched
<1>6. /\ lceSt'[l] \in {"sleep", "coh_ack"}
      /\ ~dataRcv[l] => lceSt'[l] = "sleep"
  BY <1>0, <1>4, MessageTypes DEF Wakeup
<1>7. AnswerFits(l)' /\ ServedTag'
  BY <1>0 DEF MessageInv, AnswerFits, InvPhase, ServedTag
<1>8. FillFits(l)'
  BY <1>0, <1>3, <1>4, <1>6 DEF MessageInv, FillFits, Filling, Waiting
<1>9. \A u \in Tag, w \in Way : Asked(l, u, w) => Asked(l, u, w)'
  BY <1>0, <1>5 DEF Asked
<1> QED
  BY <1>5, <1>7, <1>8, <1>9, LceMessageFrame

LEMMA SendInvAckMessages ==
  ASSUME TypeInv, CoherenceInv, MessageInv, UNCHANGED cceVars, NEW l \in LCE, SendInvAck(l)
  PROVE  MessageInv'
<1>0. /\ lceCmd[l] # <<>> /\ Head(lceCmd[l]).type = "INV" /\ lceCmd' = Drop(lceCmd, l)
      /\ lceResp' = Send(lceResp, l, [type |-> "inv_ack", tag |-> Head(lceCmd[l]).tag])
      /\ UNCHANGED <<pc, req, gad, lceReq, lceDataResp, lceDataCmd, lceSt, miss, dataRcv>>
  BY DEF SendInvAck, Commanded, reqFsm, cceVars, ctlVars
<1>1. CommandInv(l)
  BY DEF CoherenceInv, LceInv
<1>2. PICK m \in CmdMsg : lceCmd[l] = <<m>> /\ MayHold(l, m) /\ lceResp[l] = <<>>
  BY <1>0, <1>1 DEF CommandInv
<1>3. InvPhase /\ l # req.lce /\ m.tag = req.tag
  BY <1>0, <1>2 DEF MayHold, InvMsg, SetTagMsg, Targets
<1>4. lceResp'[l] = <<[type |-> "inv_ack", tag |-> req.tag]>>
  BY <1>0, <1>2, <1>3, MessageTypes DEF Send
<1>5. lceCmd'[l] = <<>> /\ \A k \in LCE : k # l => Untouched(k)
  BY <1>0, <1>2, MessageTypes DEF Drop, Send, Untouched
<1>6. AnswerFits(l)'
  BY <1>0, <1>3, <1>4 DEF AnswerFits, InvPhase
<1>7. FillFits(l)'
  BY <1>0 DEF MessageInv, FillFits, Filling, Waiting
<1>8. \A u \in Tag, w \in Way : Asked(l, u, w) => Asked(l, u, w)'
  BY <1>0, <1>5 DEF Asked
<1> QED
  BY <1>3, <1>5, <1>6, <1>7, <1>8, LceMessageFrame

LEMMA WbMessages ==
  ASSUME TypeInv, CoherenceInv, MessageInv, UNCHANGED cceVars, NEW l \in LCE,
         SendWb(l) \/ SendNullWb(l)
  PROVE  MessageInv'
<1>0. /\ cmdSt[l] # "ready" /\ lceCmd' = Drop(lceCmd, l)
      /\ \E m : /\ lceDataResp' = Send(lceDataResp, l, m)
                /\ m.tag = Head(lceCmd[l]).tag
      /\ UNCHANGED <<pc, req, gad, lceReq, lceResp, lceDataCmd, lceSt, miss, dataRcv>>
  BY DEF SendWb, SendNullWb, reqFsm, cceVars, ctlVars
<1>1. PICK m : lceDataResp' = Send(lceDataResp, l, m) /\ m.tag = Head(lceCmd[l]).tag
  BY <1>0
<1>2. CommandInv(l)
  BY DEF CoherenceInv, LceInv
<1>3. lceCmd[l] # <<>>
  BY <1>0, <1>2 DEF CommandInv
<1>4. PICK c \in CmdMsg : lceCmd[l] = <<c>> /\ lceDataResp[l] = <<>>
  BY <1>2, <1>3 DEF CommandInv
<1>5. lceCmd'[l] = <<>> /\ \A k \in LCE : k # l => lceCmd'[k] = lceCmd[k]
  BY <1>0, <1>4, MessageTypes DEF Drop
<1>6. lceDataResp'[l] = <<m>> /\ \A k \in LCE : k # l => lceDataResp'[k] = lceDataResp[k]
  BY <1>1, <1>4, MessageTypes DEF Send
<1>7. Head(lceDataResp'[l]) = m
  BY <1>6
<1>8. \A u \in Tag, w \in Way : Asked(l, u, w) => Asked(l, u, w)'
  BY <1>1, <1>3, <1>5, <1>7 DEF Asked
<1>9. AnswerFits(l)' /\ FillFits(l)' /\ ServedTag'
  BY <1>0 DEF MessageInv, AnswerFits, InvPhase, FillFits, Filling, Waiting, ServedTag
<1> QED
  BY <1>0, <1>5, <1>6, <1>8, <1>9, LceMessageFrame DEF Untouched

LEMMA LceMessages ==
  ASSUME TypeInv, CoherenceInv, MessageInv, LceNext, UNCHANGED cceVars
  PROVE  MessageInv'
<1> PICK l \in LCE : \/ LceStep(l)
                     \/ \E t \in Tag : \/ \E v \in Value : Store(l, t, v)
                                       \/ \E wr \in BOOLEAN : Miss(l, t, wr)
  BY DEF LceNext
<1>1. CASE SendReq(l) \/ RecvData(l) \/ SendCohAck(l) \/ SetTag(l) \/ SendInvAck(l)
           \/ SendWb(l) \/ SendNullWb(l)
  BY <1>1, SendReqMessages, RecvDataMessages, SendCohAckMessages, SetTagMessages,
     SendInvAckMessages, WbMessages
<1>2. CASE InvTag(l) \/ WbCheck(l) \/ WbRead(l) \/ WbClear(l)
  BY <1>2, QuietLceMessages DEF InvTag, WbCheck, WbRead, WbClear
<1>3. CASE \E t \in Tag, v \in Value : Store(l, t, v)
  BY <1>3, QuietLceMessages DEF Store
<1>4. CASE \E t \in Tag, wr \in BOOLEAN : Miss(l, t, wr)
  BY <1>4, MissMessages
<1> QED
  BY <1>1, <1>2, <1>3, <1>4 DEF LceStep

-----------------------------------------------------------------------------
(* The theorems.                                                           *)

LEMMA MessageInvInit == Init => MessageInv
<1> SUFFICES ASSUME Init PROVE MessageInv
  OBVIOUS
<1>1. PICK t \in Tag : CceInit!(t)
  BY DEF Init, CceInit
<1>2. PICK u \in Tag : LceInit!(u)
  BY DEF Init, LceInit
<1> QED
  BY <1>1, <1>2 DEF Init, NetInit, MessageInv, ServedTag, WritebacksFit, AnswerFits,
    FillFits, Waiting

LEMMA MessageInvStep ==
  TypeInv /\ TypeInv' /\ CoherenceInv /\ MessageInv /\ [Next]_vars => MessageInv'
<1> SUFFICES ASSUME TypeInv, TypeInv', CoherenceInv, MessageInv, [Next]_vars
             PROVE  MessageInv'
  OBVIOUS
<1>1. CASE CceNext /\ UNCHANGED <<lceVars, mem>>
  BY <1>1, EngineMessages
<1>2. CASE LceNext /\ UNCHANGED <<cceVars, mem>>
  BY <1>2, LceMessages
<1>3. CASE MemWrite \/ MemRead \/ UNCHANGED vars
  <2>1. UNCHANGED <<pc, ctlVars, netVars, lceVars>>
    BY <1>3 DEF MemWrite, MemRead, vars, cceVars
  <2>2. UNCHANGED <<pc, req, gad, lceReq, lceResp, lceDataResp, lceCmd, lceDataCmd,
                    lceSt, miss, dataRcv>>
    BY <2>1 DEF ctlVars, netVars, lceVars, reqFsm
  <2> QED
    BY <2>2 DEF MessageInv, ServedTag, WritebacksFit, Asked, AnswerFits, InvPhase,
      FillFits, Filling, Waiting
<1> QED
  BY <1>1, <1>2, <1>3 DEF Next

\* Every message under way is one that the request being served asked for.
THEOREM MessagesFit == Spec => [](CoherenceInv /\ MessageInv)
<1>1. Spec => []TypeInv
  BY TypeInvInit, TypeInvStep, PTL DEF Spec
<1> QED
  BY <1>1, Coherent, MessageInvInit, MessageInvStep, PTL DEF Spec

\* The acknowledgements that demo-v2 pops without a look at their type
\* (demo-v2.S:97-101, 160-162) are always those it waits for.
THEOREM AcksMatchHolds == Spec => []AcksMatch
<1>1. CoherenceInv /\ MessageInv => AcksMatch
  <2> SUFFICES ASSUME CoherenceInv, MessageInv, NEW l \in LCE, lceResp[l] # <<>>
               PROVE  AcksMatch!(l)!2
    BY DEF AcksMatch
  <2>1. AnswerInv(l) /\ AnswerFits(l)
    BY DEF CoherenceInv, LceInv, MessageInv
  <2> QED
    BY <2>1 DEF AnswerInv, AnswerFits, InvPhase, Targets
<1> QED
  BY <1>1, MessagesFit, PTL

\* A writeback comes from the cache and for the block that the microcode sends
\* to memory with the registers it has at hand (demo-v2.S:118-126, 140-146).
THEOREM WritebacksMatchHolds == Spec => []WritebacksMatch
<1>1. CoherenceInv /\ MessageInv => WritebacksMatch
  <2> SUFFICES ASSUME CoherenceInv, MessageInv, NEW l \in LCE, lceDataResp[l] # <<>>
               PROVE  \/ pc = "replace_wb" /\ l = req.lce
                         /\ Head(lceDataResp[l]).tag = gad.lruTag
                      \/ pc = "transfer_wb" /\ l = gad.trLce
                         /\ Head(lceDataResp[l]).tag = req.tag
    BY DEF WritebacksMatch
  <2>1. AnswerInv(l)
    BY DEF CoherenceInv, LceInv
  <2> QED
    BY <2>1 DEF AnswerInv, MessageInv, WritebacksFit, Asked
<1> QED
  BY <1>1, MessagesFit, PTL

-----------------------------------------------------------------------------
(* No block is lost: the victims of the requests.                          *)

ReadOnlyClean == \A l \in ICache, w \in Way : ~dirty[l][w]

\* The dirty bit that a request carries is at most out of date because the
\* way has been taken away, and then the directory knows.
VictimKnown(l) ==
  Waiting(l) =>
    /\ dirty[l][miss[l].way] => miss[l].dirty
    /\ miss[l].dirty /\ ~dirty[l][miss[l].way] => dir[l][miss[l].way].st = "I"

\* A writeback command that has not cleared the dirty bit yet.
Writing(l) == lceCmd[l] # <<>> /\ cmdSt[l] \in {"ready", "wb_dirty", "wb_read"}

\* The way that the current request takes from its owner, until written back.
TakenAway(l, w) ==
  /\ gad.tf /\ l = gad.trLce /\ w = gad.trWay
  /\ \/ InvPhase \/ pc \in {"replace", "replace_wb", "mem_resp", "transfer"}
     \/ pc = "transfer_wb" /\ Writing(l)

\* The directory names an owner for every dirty way but the one taken away.
DirtyOwned ==
  \A l \in LCE, w \in Way : dirty[l][w] /\ dir[l][w].st = "I" => TakenAway(l, w)

TransferInv ==
  /\ InvPhase => gad.tf /\ Targets = {gad.trLce} /\ gad.trWay = gad.ways[gad.trLce]
  /\ pc = "inv_ack_top" => r0 = NumLce
  /\ pc \in {"transfer", "transfer_wb"} => gad.tf
  /\ pc \in BeforeTransfer /\ gad.tf =>
       gad.trLce # req.lce /\ dir[gad.trLce][gad.trWay].st = "I"

\* The victim of the request being served: dirty exactly as long as its
\* writeback is to come.
VictimInv ==
  LET l == req.lce
      d == dirty[l][req.way]
  IN  /\ InvPhase \/ pc = "replace" => (d <=> gad.rf)
      /\ pc = "replace_wb" =>
           /\ d <=> Writing(l)
           /\ cmdSt[l] # "wb_not_dirty"
           /\ lceDataResp[l] # <<>> => Head(lceDataResp[l]).type = "wb"
      /\ (pc \in {"mem_resp", "transfer", "read_l2"} \/ FillPhase) /\ lceResp[l] = <<>> => ~d

VictimState ==
  /\ ReadOnlyClean /\ DirtyOwned /\ TransferInv /\ VictimInv
  /\ \A l \in LCE : VictimKnown(l)

-----------------------------------------------------------------------------
(* The engine.                                                             *)

LEMMA VictimTypes ==
  ASSUME TypeInv
  PROVE  /\ dir \in [LCE -> [Way -> Entry]] /\ dirty \in [LCE -> [Way -> BOOLEAN]]
         /\ cmdSt \in [LCE -> CmdState] /\ gad.ways \in [LCE -> Way] /\ gad.hits \subseteq LCE
         /\ gad.rf \in BOOLEAN /\ gad.tf \in BOOLEAN
BY DEF TypeInv, TypeOK, CceTypeOK, LceTypeOK, GadRegs

\* The victims are unmoved by a step that changes no dirty bit, no request and
\* no entry of a waiting LCE, so only where the engine stands matters.
LEMMA EngineFrame ==
  ASSUME VictimState, UNCHANGED <<dirty, miss>>,
         \A l \in LCE : Waiting(l)' => Waiting(l) /\ \A w \in Way :
                                         dir[l][w].st = "I" => dir'[l][w].st = "I",
         miss \in [LCE -> ReqMsg],
         DirtyOwned', TransferInv', VictimInv'
  PROVE  VictimState'
<1>1. ReadOnlyClean'
  BY DEF VictimState, ReadOnlyClean
<1>2. ASSUME NEW l \in LCE PROVE VictimKnown(l)'
  <2>1. miss[l].way \in Way
    BY DEF ReqMsg
  <2> QED
    BY <2>1 DEF VictimState, VictimKnown
<1> QED
  BY <1>1, <1>2 DEF VictimState

LEMMA InvSendVictims ==
  ASSUME TypeInv, CoherenceInv, VictimState, InvSend, UNCHANGED lceVars
  PROVE  VictimState'
<1> DEFINE x == gad.trLce
           v == gad.trWay
<1>0. /\ pc = "inv_top" /\ r0 \in Targets /\ r0' = r0 + 1 /\ pc' = InvTop(r0 + 1, r2 + 1)
      /\ dir' = [dir EXCEPT ![r0][gad.ways[r0]] = [tag |-> @.tag, st |-> "I"]]
      /\ UNCHANGED <<req, gad, lceReq, lceSt, miss, dirty>>
  BY DEF InvSend, Wds, Targets, lceVars, reqFsm, arrays
<1>1. gad.tf /\ Targets = {x} /\ v = gad.ways[x] /\ r0 = x /\ InvPhase
  BY <1>0 DEF VictimState, TransferInv, InvPhase
<1>2. /\ x \in LCE /\ v \in Way
      /\ \A l \in LCE, w \in Way : dir'[l][w].st = IF l = x /\ w = v THEN "I" ELSE dir[l][w].st
  BY <1>0, <1>1, MessageTypes, VictimTypes
<1>3. r2 \in Nat /\ ~gad.uf /\ r0 \in Nat /\ r0 < NumLce
  BY <1>0, <1>1, MeAssumption
     DEF TypeInv, TypeOK, CceTypeOK, CoherenceInv, EngineInv, RoutineInv, LoopRange, LCE
<1>4. r2 + 1 # 0
  BY <1>3
<1>5. \/ pc' = "inv_top"
      \/ pc' = "inv_ack_top" /\ r0' = NumLce
  <2>1. r0 + 1 < NumLce \/ r0 + 1 = NumLce
    BY <1>3, MeAssumption
  <2> QED
    BY <1>0, <1>3, <1>4, <2>1, MeAssumption DEF InvTop, InvAckTop
<1>6. DirtyOwned'
  BY <1>0, <1>1, <1>2, <1>5 DEF VictimState, DirtyOwned, TakenAway, InvPhase
<1>7. TransferInv'
  BY <1>0, <1>1, <1>5 DEF TransferInv, InvPhase, Targets, BeforeTransfer
<1>8. VictimInv'
  BY <1>0, <1>1, <1>5 DEF VictimState, VictimInv, InvPhase, FillPhase
<1> QED
  BY <1>0, <1>2, <1>6, <1>7, <1>8, EngineFrame, MessageTypes DEF Waiting

\* The invalidation routine goes on without an entry of the directory, or ends
\* when the entry of the owner is invalid.
LEMMA InvOnVictims ==
  ASSUME TypeInv, CoherenceInv, VictimState, InvPhase,
         UNCHANGED <<dir, req, gad, lceReq, lceSt, miss, dirty>>,
         \/ pc' = "inv_top"
         \/ pc' = "inv_ack_top" /\ r0' = NumLce
         \/ /\ pc' = UpgradeCheck(gad)
            /\ \A l \in Targets : dir[l][gad.ways[l]].st = "I"
  PROVE  VictimState'
<1>1. /\ gad.tf /\ Targets = {gad.trLce} /\ gad.trWay = gad.ways[gad.trLce]
      /\ gad.trLce # req.lce /\ ~gad.uf
  BY DEF VictimState, TransferInv, Targets, CoherenceInv, EngineInv, RoutineInv
<1>2. pc' \in {"inv_top", "inv_ack_top"} \/ pc' = IF gad.rf THEN "replace" ELSE "transfer"
  BY <1>1 DEF UpgradeCheck, ReplaceCheck, TransferCheck
<1>3. DirtyOwned'
  BY <1>1, <1>2 DEF VictimState, DirtyOwned, TakenAway, InvPhase
<1>4. TransferInv'
  <2>1. pc' \notin {"inv_top", "inv_ack_top"} => dir[gad.trLce][gad.trWay].st = "I"
    BY <1>1
  <2>2. pc' = "inv_ack_top" => r0' = NumLce
    BY <1>1 DEF UpgradeCheck, ReplaceCheck, TransferCheck
  <2> QED
    BY <1>1, <1>2, <2>1, <2>2 DEF TransferInv, InvPhase, Targets, BeforeTransfer
<1>5. VictimInv'
  BY <1>2 DEF VictimState, VictimInv, InvPhase, FillPhase
<1> QED
  BY <1>3, <1>4, <1>5, EngineFrame, MessageTypes DEF Waiting

LEMMA InvSkipVictims ==
  ASSUME TypeInv, CoherenceInv, VictimState, InvSkip, UNCHANGED lceVars
  PROVE  VictimState'
<1>0. /\ pc = "inv_top" /\ r0 \notin Targets /\ r0' = r0 + 1 /\ pc' = InvTop(r0 + 1, r2)
      /\ UNCHANGED <<dir, req, gad, lceReq, lceSt, miss, dirty>>
  BY DEF InvSkip, Targets, netVars, lceVars, reqFsm, arrays
<1>1. InvPhase /\ r0 \in Nat /\ r0 < NumLce
  BY <1>0, MeAssumption DEF InvPhase, TypeInv, TypeOK, CceTypeOK, LoopRange
<1>2. CASE r0 + 1 < NumLce
  BY <1>0, <1>1, <1>2, InvOnVictims DEF InvTop
<1>3. CASE ~(r0 + 1 < NumLce)
  <2>1. r0 + 1 = NumLce
    BY <1>1, <1>3, MeAssumption
  <2>2. \A l \in Targets : dir[l][gad.ways[l]].st = "I"
    <3> SUFFICES ASSUME NEW l \in Targets PROVE dir[l][gad.ways[l]].st = "I"
      OBVIOUS
    <3>1. l \in LCE /\ l # r0
      BY <1>0, VictimTypes DEF Targets
    <3>2. l < r0
      BY <1>1, <2>1, <3>1, MeAssumption DEF LCE
    <3> QED
      BY <1>1, <3>2 DEF CoherenceInv, DirInv, ForgottenInv
  <2>3. pc' = "inv_ack_top" \/ pc' = UpgradeCheck(gad)
    BY <1>0, <1>3 DEF InvTop, InvAckTop
  <2> QED
    BY <1>0, <1>1, <2>1, <2>2, <2>3, InvOnVictims
<1> QED
  BY <1>2, <1>3

LEMMA InvAckVictims ==
  ASSUME TypeInv, CoherenceInv, VictimState, NEW l \in LCE, InvAck(l), UNCHANGED lceVars
  PROVE  VictimState'
<1>0. /\ pc = "inv_ack_top" /\ r0' = r0 /\ pc' = InvAckTop(r2 - 1)
      /\ UNCHANGED <<dir, req, gad, lceReq, lceSt, miss, dirty>>
  BY DEF InvAck, lceVars, reqFsm, arrays
<1>1. InvPhase /\ r0 = NumLce
  BY <1>0 DEF InvPhase, VictimState, TransferInv
<1>2. \A k \in Targets : dir[k][gad.ways[k]].st = "I"
  <2>1. \A k \in Targets : k < r0
    BY <1>1, VictimTypes, MeAssumption DEF Targets, LCE
  <2> QED
    BY <1>1, <2>1 DEF CoherenceInv, DirInv, ForgottenInv
<1>3. pc' = "inv_ack_top" \/ pc' = UpgradeCheck(gad)
  BY <1>0 DEF InvAckTop
<1> QED
  BY <1>0, <1>1, <1>2, <1>3, InvOnVictims

\* The block of a request that carries a true dirty bit is written back.
LEMMA ReplaceVictims ==
  ASSUME TypeInv, CoherenceInv, VictimState, Replace, UNCHANGED lceVars
  PROVE  VictimState'
<1> DEFINE m == [type |-> "WB", tag |-> gad.lruTag, way |-> req.way, st |-> "I"]
<1>0. /\ pc = "replace" /\ pc' = "replace_wb" /\ lceCmd' = Send(lceCmd, req.lce, m)
      /\ UNCHANGED <<dir, req, gad, r0, lceReq, lceResp, lceDataResp, lceSt, miss, dirty, cmdSt>>
  BY DEF Replace, ctlVars, lceVars, reqFsm, cmdFsm, arrays
<1>1. /\ lceCmd[req.lce] = <<>> /\ cmdSt[req.lce] = "ready" /\ lceDataResp[req.lce] = <<>>
      /\ gad.rf
  BY <1>0, QuietQueues, MessageTypes DEF Quiet, CoherenceInv, EngineInv, RoutineInv
<1>2. lceCmd'[req.lce] = <<m>>
  BY <1>0, <1>1, MessageTypes DEF Send
<1>3. Writing(req.lce)'
  <2>1. lceCmd'[req.lce] # <<>>
    BY <1>2
  <2>2. req' = req /\ cmdSt'[req.lce] = "ready"
    BY <1>0, <1>1
  <2> QED
    BY <2>1, <2>2 DEF Writing
<1>4. VictimInv'
  BY <1>0, <1>1, <1>3 DEF VictimState, VictimInv, InvPhase, FillPhase
<1>5. DirtyOwned' /\ TransferInv'
  BY <1>0 DEF VictimState, DirtyOwned, TakenAway, TransferInv, InvPhase, BeforeTransfer
<1> QED
  BY <1>0, <1>4, <1>5, EngineFrame, MessageTypes DEF Waiting

\* The engine goes from phase to phase between the writebacks, or reads the
\* memory, without a change to the directory.
LEMMA OnVictims ==
  ASSUME TypeInv, CoherenceInv, VictimState,
         UNCHANGED <<dir, req, gad, lceReq, lceSt, miss, dirty>>,
         \/ pc = "replace_wb" /\ pc' = "mem_resp" /\ ~Writing(req.lce)
         \/ pc = "mem_resp" /\ pc' = TransferCheck(gad.tf)
         \/ /\ pc = "transfer_wb" /\ ~Writing(gad.trLce)
            /\ pc' \in {"transfer_mem", "read_l2_tr"}
         \/ /\ pc \in {"transfer_mem", "read_l2_tr", "mem_data_resp", "send_st"}
            /\ pc' \in {"read_l2_tr", "mem_data_resp", "send_st", "coh_ack"}
         \/ pc = "coh_ack" /\ pc' = "ready",
         pc' = "ready" \/ lceResp' = lceResp
  PROVE  VictimState'
<1>1. pc' \notin {"inv_top", "inv_ack_top", "replace", "replace_wb", "transfer_wb"}
  BY DEF TransferCheck
<1>2. pc' = "transfer" => gad.tf
  BY DEF TransferCheck
<1>3. DirtyOwned'
  BY <1>1 DEF VictimState, DirtyOwned, TakenAway, InvPhase, TransferCheck
<1>4. TransferInv'
  BY <1>1, <1>2 DEF VictimState, TransferInv, InvPhase, BeforeTransfer
<1>5. VictimInv'
  BY <1>1 DEF VictimState, VictimInv, InvPhase, FillPhase, TransferCheck
<1> QED
  BY <1>3, <1>4, <1>5, EngineFrame, MessageTypes DEF Waiting

LEMMA WbTakenVictims ==
  ASSUME TypeInv, CoherenceInv, VictimState, NEW l \in LCE, ReplaceWb(l) \/ TransferWb(l),
         UNCHANGED lceVars
  PROVE  VictimState'
<1>0. /\ lceDataResp[l] # <<>>
      /\ \/ pc = "replace_wb" /\ pc' = "mem_resp"
         \/ pc = "transfer_wb" /\ pc' \in {"transfer_mem", "read_l2_tr"}
      /\ UNCHANGED <<dir, req, gad, lceReq, lceResp, lceSt, miss, dirty>>
  BY DEF ReplaceWb, TransferWb, lceVars, reqFsm, arrays
<1>1. AnswerInv(l) /\ CommandInv(l)
  BY DEF CoherenceInv, LceInv
<1>2. ~Writing(l)
  BY <1>0, <1>1 DEF CommandInv, Writing
<1>3. l = IF pc = "replace_wb" THEN req.lce ELSE gad.trLce
  BY <1>0, <1>1 DEF AnswerInv
<1> QED
  BY <1>0, <1>2, <1>3, OnVictims

\* The requestor, or the old owner after it has been asked, is entered in the
\* directory as owner of the way that the request names.
LEMMA GrantVictims ==
  ASSUME TypeInv, CoherenceInv, VictimState, Transfer \/ ReadL2, UNCHANGED lceVars
  PROVE  VictimState'
<1> DEFINE x == gad.trLce
           m == [type |-> "WB", tag |-> req.tag, way |-> gad.trWay, st |-> "I"]
<1>0. /\ \/ pc = "transfer" /\ pc' = "transfer_wb" /\ lceCmd' = Send(lceCmd, x, m)
         \/ pc = "read_l2" /\ pc' = "mem_data_resp"
      /\ dir' = [dir EXCEPT ![req.lce][req.way] = [tag |-> req.tag, st |-> "E"]]
      /\ UNCHANGED <<req, gad, lceReq, lceResp, lceSt, miss, dirty, cmdSt>>
  BY DEF Transfer, ReadL2, Wde, netVars, lceVars, reqFsm, cmdFsm, arrays, CoherenceInv,
    EngineInv, ExclusiveOnly
<1>1. \A l \in LCE, w \in Way :
        dir'[l][w].st = IF l = req.lce /\ w = req.way THEN "E" ELSE dir[l][w].st
  BY <1>0, MessageTypes, VictimTypes
<1>2. pc' = "transfer_wb" => Writing(x)'
  <2> SUFFICES ASSUME pc' = "transfer_wb" PROVE Writing(x)'
    OBVIOUS
  <2>1. lceCmd[x] = <<>> /\ cmdSt[x] = "ready"
    BY <1>0, QuietQueues, MessageTypes DEF Quiet
  <2>2. lceCmd'[x] = <<m>>
    BY <1>0, <2>1, MessageTypes DEF Send
  <2> QED
    BY <1>0, <2>1, <2>2 DEF Writing
<1>3. DirtyOwned'
  BY <1>0, <1>1, <1>2 DEF VictimState, DirtyOwned, TakenAway, InvPhase
<1>4. TransferInv'
  BY <1>0, <1>1, MessageTypes DEF VictimState, TransferInv, InvPhase, BeforeTransfer
<1>5. VictimInv'
  BY <1>0 DEF VictimState, VictimInv, InvPhase, FillPhase
<1>6. ASSUME NEW l \in LCE, Waiting(l)' PROVE Waiting(l) /\ l # req.lce
  <2>1. Waiting(l) /\ RequestInv(l)
    BY <1>0, <1>6 DEF Waiting, CoherenceInv, LceInv
  <2> QED
    BY <1>0, <2>1 DEF Waiting, RequestInv, Served
<1> QED
  BY <1>0, <1>1, <1>3, <1>4, <1>5, <1>6, EngineFrame, MessageTypes

LEMMA FillVictims ==
  ASSUME TypeInv, TypeInv', CoherenceInv, VictimState, UNCHANGED lceVars,
         MemResp \/ TransferMem \/ ReadL2Tr \/ MemDataResp \/ SendSetTag
  PROVE  VictimState'
<1>1. UNCHANGED <<lceSt, miss, dirty>>
  BY DEF lceVars, reqFsm, arrays
<1>2. CASE MemResp \/ TransferMem
  <2>1. PopMemResp /\ pc \in {"mem_resp", "transfer_mem"}
    BY <1>2 DEF MemResp, TransferMem
  <2>2. req' = req /\ gad' = gad /\ rwbf' = gad.rf /\ dir' = dir
    BY <2>1, Restored
  <2>3. pc = "mem_resp" => gad.rf
    BY DEF CoherenceInv, EngineInv, RoutineInv
  <2>4. lceReq' = lceReq /\ lceResp' = lceResp
    BY <2>1 DEF PopMemResp, netVars
  <2>5. \/ pc = "mem_resp" /\ pc' = TransferCheck(gad.tf)
        \/ pc = "transfer_mem" /\ pc' = "read_l2_tr"
    BY <1>2, <2>2, <2>3 DEF MemResp, TransferMem
  <2> QED
    BY <1>1, <2>2, <2>4, <2>5, OnVictims
<1>3. CASE ReadL2Tr \/ SendSetTag
  <2>1. UNCHANGED <<dir, req, gad, lceReq, lceResp>>
    BY <1>3 DEF ReadL2Tr, SendSetTag, ctlVars, netVars
  <2>2. \/ pc = "read_l2_tr" /\ pc' = "mem_data_resp"
        \/ pc = "send_st" /\ pc' = "coh_ack"
    BY <1>3 DEF ReadL2Tr, SendSetTag
  <2> QED
    BY <1>1, <2>1, <2>2, OnVictims
<1>4. CASE MemDataResp
  <2> DEFINE c == Head(memDataResp).cmd
  <2>1. /\ pc = "mem_data_resp" /\ pc' = "send_st"
        /\ UNCHANGED <<dir, gad, lceReq, lceResp>>
    BY <1>4 DEF MemDataResp
  <2>2. c = MemCmd
    BY <1>4 DEF MemDataResp, CoherenceInv, EngineInv, MemReadInv
  <2>3. c.lce = req.lce /\ c.tag = req.tag /\ c.wr = req.wr /\ c.way = req.way
    BY <2>2 DEF MemCmd
  <2>4. req' = [req EXCEPT !.lce = c.lce, !.tag = c.tag, !.wr = c.wr, !.way = c.way]
    BY <1>4 DEF MemDataResp
  <2>5. req' = req
    BY <2>3, <2>4 DEF TypeInv, TypeOK, CceTypeOK, Request
  <2> QED
    BY <1>1, <2>1, <2>5, OnVictims
<1> QED
  BY <1>2, <1>3, <1>4

LEMMA CohAckVictims ==
  ASSUME TypeInv, CoherenceInv, VictimState, NEW l \in LCE, CohAck(l), UNCHANGED lceVars
  PROVE  VictimState'
<1>1. /\ pc = "coh_ack" /\ pc' = "ready"
      /\ UNCHANGED <<dir, req, gad, lceReq, lceSt, miss, dirty>>
  BY DEF CohAck, ctlVars, lceVars, reqFsm, arrays
<1> QED
  BY <1>1, OnVictims

\* What gad makes of a request, when the directory names one owner at most.
LEMMA GadVictims ==
  ASSUME NEW q \in Request, ExclusiveOnly, DirUnique,
         \A w \in Way : dir[q.lce][w].st # "I" => dir[q.lce][w].tag # q.tag
  PROVE  LET g == Gad(dir, q)
         IN  /\ g.rf <=> dir[q.lce][q.way].st # "I" /\ q.dirty
             /\ g.tf => g.inv
             /\ g.inv => /\ g.tf /\ g.hits \ {q.lce} = {g.trLce}
                         /\ g.trWay = g.ways[g.trLce]
<1> DEFINE g == Gad(dir, q)
<1>0. q.lce \in LCE /\ q.way \in Way
  BY DEF Request
<1>1. g.rf <=> dir[q.lce][q.way].st # "I" /\ q.dirty
  <2>1. dir[q.lce][q.way].st \in {"I", "E"}
    BY <1>0 DEF ExclusiveOnly
  <2>2. g.rf = ReplacementFlag(dir, q)
    BY DEF Gad
  <2> QED
    BY <2>1, <2>2 DEF ReplacementFlag
<1>2. g.tf => g.inv
  BY DEF Gad, InvalidateFlag
<1>3. ASSUME g.inv
      PROVE  g.tf /\ g.hits \ {q.lce} = {g.trLce} /\ g.trWay = g.ways[g.trLce]
  <2>1. OtherSharers(dir, q) # {}
    BY <1>3 DEF Gad, InvalidateFlag, TransferFlag, ExclusiveFlag
  <2>2. PICK l \in OtherSharers(dir, q) : TRUE
    BY <2>1
  <2>3. g.hits = SharersHits(dir, q.tag) /\ OtherSharers(dir, q) = g.hits \ {q.lce}
    BY DEF Gad, OtherSharers
  <2>4. \A k \in OtherSharers(dir, q) : k = l
    BY <2>2 DEF OtherSharers, SharersHits, TagSetHit, DirUnique
  <2>5. OtherSharers(dir, q) = {l}
    BY <2>2, <2>4
  <2>6. /\ SharersWays(dir, q.tag)[l] \in Way
        /\ TagSetHit(dir, l, SharersWays(dir, q.tag)[l], q.tag)
    BY <2>2 DEF OtherSharers, SharersHits, SharersWays
  <2>7. TransferFlag(dir, q)
    BY <2>2, <2>6 DEF TransferFlag, ExclusiveFlag, SharerState, TagSetHit, ExclusiveOnly,
      OtherSharers, SharersHits
  <2>8. g.trLce = l
    BY <2>5, <2>7 DEF Gad, TransferLce
  <2> QED
    BY <2>3, <2>5, <2>7, <2>8 DEF Gad
<1> QED
  BY <1>1, <1>2, <1>3

\* A request that is taken up: the directory is the tag arrays, and gad finds
\* the owner that they know.
LEMMA RequestTaken ==
  ASSUME TypeInv, CoherenceInv, NEW l \in LCE, LceReq(l), UNCHANGED lceVars
  PROVE  LET q == [lce |-> l, tag |-> miss[l].tag, wr |-> miss[l].wr, way |-> miss[l].way,
                   dirty |-> miss[l].dirty]
             g == Gad(dir, q)
         IN  /\ pc = "ready" /\ lceReq[l] = <<miss[l]>> /\ q \in Request
             /\ lceReq'[l] = <<>> /\ \A k \in LCE : k # l => lceReq'[k] = lceReq[k]
             /\ req' = q /\ gad' = g
             /\ UNCHANGED <<dir, lceResp, lceSt, miss, dirty>>
             /\ \A k \in LCE, w \in Way :
                  /\ dir[k][w].st = tags[k][w].st
                  /\ dir[k][w].st # "I" => dir[k][w].tag = tags[k][w].tag
             /\ g.rf <=> dir[l][q.way].st # "I" /\ q.dirty
             /\ g.inv => /\ g.tf /\ g.hits \ {l} = {g.trLce} /\ g.trWay = g.ways[g.trLce]
                         /\ TagSetHit(dir, g.trLce, g.trWay, q.tag)
             /\ g.tf => g.inv
             /\ \/ g.inv /\ pc' = "inv_top"
                \/ ~g.inv /\ pc' = IF g.rf THEN "replace" ELSE "read_l2"
<1> DEFINE m == Head(lceReq[l])
           q == [lce |-> l, tag |-> m.tag, wr |-> m.wr, way |-> m.way, dirty |-> m.dirty]
           g == Gad(dir, q)
<1>1. pc = "ready" /\ ~pending /\ ExclusiveOnly /\ DirUnique
  BY DEF LceReq, CoherenceInv, EngineInv, PendingInv, DirInv
<1>2. /\ lceReq' = Drop(lceReq, l) /\ req' = q /\ gad' = g
      /\ UNCHANGED <<dir, lceResp, lceSt, miss, dirty>>
  BY <1>1 DEF LceReq, lceVars, reqFsm, arrays
<1>3. lceReq[l] = <<miss[l]>>
  <2>1. RequestInv(l) /\ lceReq[l] # <<>>
    BY DEF LceReq, CoherenceInv, LceInv
  <2> QED
    BY <1>1, <2>1 DEF RequestInv, Unserved
<1>4. m = miss[l] /\ lceReq'[l] = <<>> /\ \A k \in LCE : k # l => lceReq'[k] = lceReq[k]
  <2>1. Head(<<miss[l]>>) = miss[l] /\ Tail(<<miss[l]>>) = <<>>
    OBVIOUS
  <2> QED
    BY <1>2, <1>3, <2>1, MessageTypes DEF Drop
<1>5. q \in Request /\ q.lce = l /\ q.way \in Way
  BY <1>4, MessageTypes DEF Request, ReqMsg
<1>6. \A k \in LCE, w \in Way :
        dir[k][w].st = tags[k][w].st /\ (dir[k][w].st # "I" => dir[k][w].tag = tags[k][w].tag)
  <2>1. \A k \in LCE, w \in Way : ~FillUnderWay(k, w) /\ ~InvUnderWay(k, w)
    BY <1>1, QuietQueues DEF FillUnderWay, InvUnderWay
  <2> QED
    BY <2>1 DEF CoherenceInv, DirInv, DirectoryAccurate
<1>7. \A w \in Way : dir[l][w].st # "I" => dir[l][w].tag # q.tag
  <2>1. AbsentInv(l)
    BY DEF CoherenceInv, LceInv
  <2> QED
    BY <1>3, <1>4, <1>6, <2>1 DEF AbsentInv
<1>8. /\ g.rf <=> dir[l][q.way].st # "I" /\ q.dirty
      /\ g.tf => g.inv
      /\ g.inv => /\ g.tf /\ g.hits \ {l} = {g.trLce} /\ g.trWay = g.ways[g.trLce]
                  /\ TagSetHit(dir, g.trLce, g.trWay, q.tag)
      /\ ~g.uf
  <2> HIDE DEF q
  <2>1. \A k \in g.hits : TagSetHit(dir, k, g.ways[k], q.tag)
    BY <1>1, <1>5, <1>7, GadFacts
  <2> QED
    BY <1>1, <1>5, <1>7, <2>1, GadVictims, GadFacts
<1>9. \/ g.inv /\ pc' = "inv_top"
      \/ ~g.inv /\ pc' = IF g.rf THEN "replace" ELSE "read_l2"
  BY <1>1, <1>8 DEF LceReq, UpgradeCheck, ReplaceCheck, TransferCheck
<1>10. q = [lce |-> l, tag |-> miss[l].tag, wr |-> miss[l].wr, way |-> miss[l].way,
            dirty |-> miss[l].dirty]
  BY <1>4
<1> HIDE DEF q, m, g
<1> QED
  BY <1>1, <1>2, <1>3, <1>4, <1>5, <1>6, <1>8, <1>9, <1>10 DEF g

\* The replacement flag of a new request is the dirty bit of its victim.
LEMMA LceReqVictims ==
  ASSUME TypeInv, CoherenceInv, MessageInv, VictimState, NEW l \in LCE, LceReq(l),
         UNCHANGED lceVars
  PROVE  VictimState'
<1> DEFINE q == [lce |-> l, tag |-> miss[l].tag, wr |-> miss[l].wr, way |-> miss[l].way,
                 dirty |-> miss[l].dirty]
           g == Gad(dir, q)
<1>1. /\ pc = "ready" /\ lceReq[l] = <<miss[l]>>
      /\ lceReq'[l] = <<>> /\ \A k \in LCE : k # l => lceReq'[k] = lceReq[k]
      /\ req' = q /\ gad' = g /\ q \in Request
      /\ UNCHANGED <<dir, lceResp, lceSt, miss, dirty>>
  BY RequestTaken
<1>2. /\ g.rf <=> dir[l][q.way].st # "I" /\ q.dirty
      /\ g.tf => g.inv
      /\ g.inv => /\ g.tf /\ g.hits \ {l} = {g.trLce} /\ g.trWay = g.ways[g.trLce]
      /\ \/ g.inv /\ pc' = "inv_top"
         \/ ~g.inv /\ pc' = IF g.rf THEN "replace" ELSE "read_l2"
  BY RequestTaken
<1>3. q.lce = l /\ q.way = miss[l].way /\ q.dirty = miss[l].dirty /\ q.way \in Way
  BY <1>1, MessageTypes DEF ReqMsg
<1> HIDE DEF q, g
<1>4. dirty[l][q.way] <=> g.rf
  <2>1. Waiting(l) /\ VictimKnown(l)
    BY <1>1 DEF Waiting, VictimState
  <2>2. ~TakenAway(l, q.way)
    BY <1>1 DEF TakenAway, InvPhase
  <2>3. dirty[l][q.way] => dir[l][q.way].st # "I"
    BY <1>3, <2>2 DEF VictimState, DirtyOwned
  <2> QED
    BY <1>2, <1>3, <2>1, <2>3 DEF VictimKnown
<1>5. DirtyOwned'
  <2>1. \A k \in LCE, w \in Way : ~TakenAway(k, w)
    BY <1>1 DEF TakenAway, InvPhase
  <2> QED
    BY <1>1, <2>1 DEF VictimState, DirtyOwned
<1>6. TransferInv'
  BY <1>1, <1>2, <1>3 DEF TransferInv, InvPhase, Targets, BeforeTransfer
<1>7. VictimInv'
  BY <1>1, <1>2, <1>3, <1>4 DEF VictimInv, InvPhase, FillPhase
<1>8. \A k \in LCE : Waiting(k)' => Waiting(k)
  BY <1>1 DEF Waiting
<1> QED
  BY <1>1, <1>5, <1>6, <1>7, <1>8, EngineFrame, MessageTypes

LEMMA EngineVictims ==
  ASSUME TypeInv, TypeInv', CoherenceInv, MessageInv, VictimState, CceNext, UNCHANGED lceVars
  PROVE  VictimState'
BY InvSendVictims, InvSkipVictims, InvAckVictims, ReplaceVictims, WbTakenVictims, GrantVictims,
   FillVictims, CohAckVictims, LceReqVictims
   DEF CceNext

-----------------------------------------------------------------------------
(* The LCEs.                                                               *)

\* The engine does not look at a miss before it is asked for.
LEMMA LceFrameVictims ==
  ASSUME VictimState, UNCHANGED <<cceVars, dirty, miss>>,
         \A l \in LCE : Waiting(l)' => Waiting(l),
         pc = "transfer_wb" => (Writing(gad.trLce) => Writing(gad.trLce)'),
         VictimInv'
  PROVE  VictimState'
<1>0. UNCHANGED <<pc, req, gad, r0, dir>>
  BY DEF cceVars, ctlVars
<1>1. DirtyOwned'
  BY <1>0 DEF VictimState, DirtyOwned, TakenAway, InvPhase
<1>2. TransferInv'
  BY <1>0 DEF VictimState, TransferInv, InvPhase, Targets
<1>3. ReadOnlyClean' /\ \A l \in LCE : VictimKnown(l)'
  BY <1>0 DEF VictimState, ReadOnlyClean, VictimKnown
<1> QED
  BY <1>1, <1>2, <1>3 DEF VictimState

\* Steps that touch neither a dirty bit nor a writeback.
LEMMA QuietLceVictims ==
  ASSUME VictimState, UNCHANGED <<cceVars, dirty, miss, cmdSt>>,
         \A l \in LCE : Waiting(l)' => Waiting(l),
         pc \in {"replace_wb", "transfer_wb"} => lceCmd' = lceCmd /\ lceDataResp' = lceDataResp,
         InvPhase \/ (lceResp'[req.lce] = <<>> => lceResp[req.lce] = <<>>)
  PROVE  VictimState'
<1>0. UNCHANGED <<pc, req, gad>>
  BY DEF cceVars, ctlVars
<1>1. VictimInv'
  BY <1>0 DEF VictimState, VictimInv, Writing, InvPhase, FillPhase
<1>2. pc = "transfer_wb" => (Writing(gad.trLce) => Writing(gad.trLce)')
  BY <1>0 DEF Writing
<1> QED
  BY <1>1, <1>2, LceFrameVictims

LEMMA MissSideVictims ==
  ASSUME TypeInv, CoherenceInv, MessageInv, VictimState, UNCHANGED cceVars, NEW l \in LCE,
         SendReq(l) \/ RecvData(l) \/ SendCohAck(l)
  PROVE  VictimState'
<1>0. UNCHANGED <<dirty, miss, cmdSt, lceCmd, lceDataResp>>
  BY DEF SendReq, RecvData, SendCohAck, cmdFsm, arrays
<1>1. CASE SendReq(l)
  <2>1. \A k \in LCE : Waiting(k)' => Waiting(k)
    BY <1>1, MessageTypes DEF SendReq, Send, Waiting
  <2> QED
    BY <1>0, <1>1, <2>1, QuietLceVictims DEF SendReq
<1>2. CASE RecvData(l)
  <2>1. \A k \in LCE : Waiting(k)' => Waiting(k)
    BY <1>2, MessageTypes DEF RecvData, Wakeup, Waiting
  <2> QED
    BY <1>0, <1>2, <2>1, QuietLceVictims DEF RecvData
<1>3. CASE SendCohAck(l)
  <2>1. \A k \in LCE : Waiting(k)' => Waiting(k)
    BY <1>3, MessageTypes DEF SendCohAck, Waiting
  <2>2. lceResp'[req.lce] = <<>> => lceResp[req.lce] = <<>>
    <3> DEFINE m == [type |-> "coh_ack", tag |-> miss[l].tag]
    <3>1. \A k \in LCE : lceResp'[k] = IF k = l THEN Append(lceResp[l], m) ELSE lceResp[k]
      BY <1>3, MessageTypes DEF SendCohAck, Send
    <3>2. Append(lceResp[l], m) # <<>>
      <4>1. lceResp[l] \in Seq(RespMsg) /\ m \in RespMsg
        BY MessageTypes DEF RespMsg, ReqMsg, AckType
      <4> HIDE DEF m
      <4> QED
        BY <4>1
    <3> QED
      BY <3>1, <3>2, MessageTypes
  <2> QED
    BY <1>0, <2>1, <2>2, QuietLceVictims
<1> QED
  BY <1>1, <1>2, <1>3

\* Set tag and invalidation, which are never under way in a writeback.
LEMMA CommandVictims ==
  ASSUME TypeInv, CoherenceInv, MessageInv, VictimState, UNCHANGED cceVars, NEW l \in LCE,
         SetTag(l) \/ InvTag(l) \/ SendInvAck(l) \/ WbRead(l)
  PROVE  VictimState'
<1>0. UNCHANGED <<dirty, miss, lceDataResp>>
  BY DEF SetTag, InvTag, SendInvAck, WbRead, reqFsm, arrays, netVars
<1>1. \A k \in LCE : Waiting(k)' => Waiting(k)
  BY MessageTypes DEF SetTag, InvTag, SendInvAck, WbRead, Wakeup, Waiting, reqFsm, netVars
<1>2. CASE SetTag(l) \/ SendInvAck(l)
  <2>1. lceCmd[l] # <<>> /\ Head(lceCmd[l]).type \in {"ST", "INV"}
    BY <1>2 DEF SetTag, SendInvAck, Commanded
  <2>2. CommandInv(l)
    BY DEF CoherenceInv, LceInv
  <2>3. PICK m \in CmdMsg : lceCmd[l] = <<m>> /\ MayHold(l, m)
    BY <2>1, <2>2 DEF CommandInv
  <2>4. \/ SetTag(l) /\ pc = "coh_ack"
        \/ InvPhase
    <3>1. \/ m.type = "ST" /\ SetTag(l)
          \/ m.type = "INV"
      <4>1. Head(lceCmd[l]) = m
        BY <2>3
      <4> QED
        BY <1>2, <4>1 DEF SetTag, SendInvAck, Commanded
    <3> QED
      BY <2>3, <3>1 DEF MayHold, InvMsg, SetTagMsg
  <2>5. SetTag(l) => lceResp' = lceResp
    BY DEF SetTag
  <2>6. cmdSt' = cmdSt
    BY <1>2 DEF SetTag, SendInvAck, cmdFsm
  <2> QED
    BY <1>0, <1>1, <2>4, <2>5, <2>6, QuietLceVictims DEF InvPhase
<1>3. CASE InvTag(l)
  BY <1>0, <1>1, <1>3, QuietLceVictims DEF InvTag, netVars
<1>4. CASE WbRead(l)
  <2>1. /\ \A k \in LCE : (Writing(k)' <=> Writing(k))
                          /\ (cmdSt'[k] = "wb_not_dirty" <=> cmdSt[k] = "wb_not_dirty")
        /\ UNCHANGED <<pc, req, gad, lceResp>>
    BY <1>4, VictimTypes DEF WbRead, Writing, netVars, cceVars, ctlVars
  <2>2. VictimInv'
    BY <1>0, <2>1, MessageTypes DEF VictimState, VictimInv, InvPhase, FillPhase
  <2> QED
    BY <1>0, <1>1, <2>1, <2>2, MessageTypes, LceFrameVictims
<1> QED
  BY <1>2, <1>3, <1>4

\* Whose way a writeback is of, and in which phase.
LEMMA WritebackOf ==
  ASSUME TypeInv, CoherenceInv, MessageInv, NEW l \in LCE, lceCmd[l] # <<>>,
         Head(lceCmd[l]).type = "WB"
  PROVE  \/ pc = "replace_wb" /\ l = req.lce /\ Head(lceCmd[l]).way = req.way
         \/ pc = "transfer_wb" /\ l = gad.trLce /\ Head(lceCmd[l]).way = gad.trWay
<1>1. CommandInv(l)
  BY DEF CoherenceInv, LceInv
<1>2. PICK m \in CmdMsg : lceCmd[l] = <<m>> /\ MayHold(l, m)
  BY <1>1 DEF CommandInv
<1>3. m.type = "WB"
  BY <1>2
<1> QED
  BY <1>2, <1>3 DEF MayHold, InvMsg, SetTagMsg, MessageInv, WritebacksFit, Asked

LEMMA WbCheckVictims ==
  ASSUME TypeInv, CoherenceInv, MessageInv, VictimState, UNCHANGED cceVars, NEW l \in LCE,
         WbCheck(l)
  PROVE  VictimState'
<1> DEFINE v == Head(lceCmd[l]).way
<1>0. /\ cmdSt[l] = "ready" /\ lceCmd[l] # <<>> /\ Head(lceCmd[l]).type = "WB"
      /\ cmdSt' = [cmdSt EXCEPT ![l] = IF l \notin ICache /\ dirty[l][v]
                                       THEN "wb_dirty" ELSE "wb_not_dirty"]
      /\ UNCHANGED <<pc, req, gad, r0, dir, lceReq, lceResp, lceDataResp, lceCmd,
                     lceSt, miss, dirty>>
  BY DEF WbCheck, Commanded, reqFsm, netVars, arrays, cceVars, ctlVars
<1>1. v \in Way /\ (\/ pc = "replace_wb" /\ l = req.lce /\ v = req.way
                    \/ pc = "transfer_wb" /\ l = gad.trLce /\ v = gad.trWay)
  BY <1>0, WritebackOf, MessageTypes
<1>2. l \in ICache => ~dirty[l][v]
  BY <1>1 DEF VictimState, ReadOnlyClean
<1> HIDE DEF v
<1>3. cmdSt'[l] = (IF dirty[l][v] THEN "wb_dirty" ELSE "wb_not_dirty")
      /\ \A k \in LCE : k # l => cmdSt'[k] = cmdSt[k]
  BY <1>0, <1>2, VictimTypes
<1>4. Writing(l) /\ (Writing(l)' <=> dirty[l][v])
  BY <1>0, <1>3 DEF Writing
<1>5. VictimInv'
  BY <1>0, <1>1, <1>3, <1>4 DEF VictimState, VictimInv, InvPhase, FillPhase
<1>6. DirtyOwned'
  BY <1>0, <1>1, <1>4 DEF VictimState, DirtyOwned, TakenAway, InvPhase
<1>7. TransferInv' /\ ReadOnlyClean' /\ \A k \in LCE : VictimKnown(k)'
  BY <1>0 DEF VictimState, TransferInv, InvPhase, Targets, ReadOnlyClean, VictimKnown, Waiting
<1> QED
  BY <1>5, <1>6, <1>7 DEF VictimState

\* The dirty bit goes from a way that has a writeback on its way.
LEMMA WbClearVictims ==
  ASSUME TypeInv, CoherenceInv, MessageInv, VictimState, UNCHANGED cceVars, NEW l \in LCE,
         WbClear(l)
  PROVE  VictimState'
<1> DEFINE v == Head(lceCmd[l]).way
<1>0. /\ cmdSt[l] = "wb_read" /\ cmdSt' = [cmdSt EXCEPT ![l] = "wb_cleared"]
      /\ dirty' = [dirty EXCEPT ![l][v] = FALSE]
      /\ UNCHANGED <<pc, req, gad, r0, dir, lceReq, lceResp, lceDataResp, lceCmd,
                     lceSt, miss>>
  BY DEF WbClear, reqFsm, netVars, cceVars, ctlVars
<1>1. lceCmd[l] # <<>> /\ Head(lceCmd[l]).type = "WB" /\ RequestInv(l)
  BY <1>0 DEF CoherenceInv, LceInv, CommandInv
<1>2. v \in Way /\ (\/ pc = "replace_wb" /\ l = req.lce /\ v = req.way
                    \/ pc = "transfer_wb" /\ l = gad.trLce /\ v = gad.trWay)
  BY <1>1, WritebackOf, MessageTypes
<1> HIDE DEF v
<1>3. \A k \in LCE, w \in Way :
        dirty'[k][w] = IF k = l /\ w = v THEN FALSE ELSE dirty[k][w]
  BY <1>0, <1>2, VictimTypes
<1>4. cmdSt'[l] = "wb_cleared" /\ \A k \in LCE : k # l => cmdSt'[k] = cmdSt[k]
  BY <1>0, VictimTypes
<1>5. ~Writing(l)'
  BY <1>4 DEF Writing
<1>6. VictimInv'
  <2>1. dirty'[req.lce][req.way] => dirty[req.lce][req.way]
    BY <1>3, MessageTypes
  <2>2. CASE pc = "replace_wb"
    <3>1. l = req.lce /\ ~dirty'[l][req.way]
      BY <1>2, <1>3, <2>2
    <3> QED
      BY <1>0, <1>4, <1>5, <2>2, <3>1 DEF VictimState, VictimInv, InvPhase, FillPhase
  <2>3. CASE pc = "transfer_wb"
    BY <1>0, <2>1, <2>3 DEF VictimState, VictimInv, InvPhase, FillPhase
  <2> QED
    BY <1>2, <2>2, <2>3
<1>7. DirtyOwned'
  <2> SUFFICES ASSUME NEW k \in LCE, NEW w \in Way, dirty'[k][w], dir[k][w].st = "I"
               PROVE  TakenAway(k, w)'
    BY <1>0 DEF DirtyOwned
  <2>1. dirty[k][w] /\ ~(k = l /\ w = v)
    BY <1>3
  <2>2. TakenAway(k, w)
    BY <2>1 DEF VictimState, DirtyOwned
  <2> QED
    BY <1>0, <1>2, <2>1, <2>2 DEF TakenAway, InvPhase
<1>8. TransferInv'
  BY <1>0 DEF VictimState, TransferInv, InvPhase, Targets
<1>9. ReadOnlyClean'
  <2>1. ICache \subseteq LCE
    BY MeAssumption
  <2> QED
    BY <1>3, <2>1 DEF VictimState, ReadOnlyClean
<1>10. ASSUME NEW k \in LCE, Waiting(k)' PROVE VictimKnown(k)'
  <2>1. Waiting(k) /\ miss[k].way \in Way /\ VictimKnown(k)
    BY <1>0, <1>10, MessageTypes DEF Waiting, ReqMsg, VictimState
  <2>2. CASE k = l /\ miss[k].way = v
    <3>1. pc = "transfer_wb" /\ v = gad.trWay /\ l = gad.trLce
      BY <1>1, <1>2, <2>1, <2>2 DEF RequestInv, Served, Waiting
    <3>2. dir[l][v].st = "I"
      BY <3>1 DEF VictimState, TransferInv, BeforeTransfer
    <3> QED
      BY <1>0, <1>3, <2>1, <2>2, <3>2 DEF VictimKnown
  <2>3. CASE ~(k = l /\ miss[k].way = v)
    BY <1>0, <1>3, <2>1, <2>3 DEF VictimKnown
  <2> QED
    BY <2>2, <2>3
<1> QED
  BY <1>6, <1>7, <1>8, <1>9, <1>10 DEF VictimState, VictimKnown

\* In a replacement the dirty bit is still set, so the writeback is not null.
LEMMA WbSentVictims ==
  ASSUME TypeInv, CoherenceInv, MessageInv, VictimState, UNCHANGED cceVars, NEW l \in LCE,
         SendWb(l) \/ SendNullWb(l)
  PROVE  VictimState'
<1>0. /\ cmdSt[l] = IF SendWb(l) THEN "wb_cleared" ELSE "wb_not_dirty"
      /\ lceCmd' = Drop(lceCmd, l) /\ cmdSt' = [cmdSt EXCEPT ![l] = "ready"]
      /\ \E m : /\ lceDataResp' = Send(lceDataResp, l, m)
                /\ SendWb(l) => m.type = "wb"
      /\ UNCHANGED <<pc, req, gad, r0, dir, lceReq, lceResp, lceSt, miss, dirty>>
  BY DEF SendWb, SendNullWb, reqFsm, arrays, cceVars, ctlVars
<1>1. PICK m : lceDataResp' = Send(lceDataResp, l, m) /\ (SendWb(l) => m.type = "wb")
  BY <1>0
<1>2. CommandInv(l) /\ lceCmd[l] # <<>> /\ Head(lceCmd[l]).type = "WB"
  BY <1>0 DEF CoherenceInv, LceInv, CommandInv
<1>3. PICK c \in CmdMsg : lceCmd[l] = <<c>> /\ lceDataResp[l] = <<>>
  BY <1>2 DEF CommandInv
<1>4. \/ pc = "replace_wb" /\ l = req.lce
      \/ pc = "transfer_wb" /\ l = gad.trLce
  BY <1>2, WritebackOf
<1>5. ~Writing(l)
  BY <1>0 DEF Writing
<1>6. lceCmd'[l] = <<>> /\ cmdSt'[l] = "ready" /\ lceDataResp'[l] = <<m>>
  BY <1>0, <1>1, <1>3, MessageTypes, VictimTypes DEF Drop, Send
<1>7. ~Writing(l)' /\ Head(lceDataResp'[l]) = m
  BY <1>6 DEF Writing
<1>8. VictimInv'
  <2>1. pc = "replace_wb" => SendWb(l)
    BY <1>0, <1>4 DEF VictimState, VictimInv
  <2> QED
    BY <1>0, <1>1, <1>4, <1>5, <1>6, <1>7, <2>1 DEF VictimState, VictimInv, InvPhase, FillPhase
<1>9. pc = "transfer_wb" => ~Writing(gad.trLce)
  BY <1>4, <1>5
<1> QED
  BY <1>0, <1>8, <1>9, LceFrameVictims DEF Waiting

\* A store finds its way owned, or about to be taken away.
LEMMA StoreVictims ==
  ASSUME TypeInv, CoherenceInv, MessageInv, VictimState, UNCHANGED cceVars, NEW l \in LCE,
         NEW t \in Tag, NEW v \in Value, Store(l, t, v)
  PROVE  VictimState'
<1>0. /\ l \notin ICache /\ lceSt[l] = "ready"
      /\ UNCHANGED <<pc, req, gad, r0, dir, lceReq, lceResp, lceDataResp, lceCmd, cmdSt,
                     lceSt, miss>>
  BY DEF Store, reqFsm, cmdFsm, netVars, cceVars, ctlVars
<1>1. PICK w \in Way : tags[l][w] = [tag |-> t, st |-> "E"]
                       /\ dirty' = [dirty EXCEPT ![l][w] = TRUE]
  BY DEF Store
<1>2. \A k \in LCE, x \in Way :
        dirty'[k][x] = IF k = l /\ x = w THEN TRUE ELSE dirty[k][x]
  BY <1>1, VictimTypes
<1>3. RequestInv(l) /\ CommandInv(l)
  BY DEF CoherenceInv, LceInv
<1>4. dir[l][w].st = "I" => TakenAway(l, w)
  <2> SUFFICES ASSUME dir[l][w].st = "I" PROVE TakenAway(l, w)
    OBVIOUS
  <2>1. ~FillUnderWay(l, w)
    BY DEF FillUnderWay, CoherenceInv, DirInv, FillInv, FillPhase
  <2>2. InvUnderWay(l, w)
    BY <1>1, <2>1 DEF CoherenceInv, DirInv, DirectoryAccurate
  <2>3. PICK m \in CmdMsg : lceCmd[l] = <<m>> /\ MayHold(l, m)
    BY <1>3, <2>2 DEF InvUnderWay, CommandInv
  <2>4. m.type = "INV" /\ m.way = w
    BY <2>2, <2>3 DEF InvUnderWay
  <2>5. InvPhase /\ l \in Targets /\ w = gad.ways[l]
    BY <2>3, <2>4 DEF MayHold, InvMsg, SetTagMsg
  <2> QED
    BY <2>5 DEF VictimState, TransferInv, TakenAway
<1>5. DirtyOwned'
  <2> SUFFICES ASSUME NEW k \in LCE, NEW x \in Way, dirty'[k][x], dir[k][x].st = "I"
               PROVE  TakenAway(k, x)'
    BY <1>0 DEF DirtyOwned
  <2>1. TakenAway(k, x)
    BY <1>2, <1>4 DEF VictimState, DirtyOwned
  <2> QED
    BY <1>0, <2>1 DEF TakenAway, Writing, InvPhase
<1>6. TransferInv'
  BY <1>0 DEF VictimState, TransferInv, InvPhase, Targets
<1>7. VictimInv'
  <2>1. \/ l # req.lce
        \/ pc = "ready"
        \/ pc = "coh_ack" /\ lceResp[l] # <<>>
    BY <1>0, <1>3 DEF RequestInv, Served, Finishing
  <2> QED
    BY <1>0, <1>2, <2>1, MessageTypes
    DEF VictimState, VictimInv, Writing, InvPhase, FillPhase
<1>8. ReadOnlyClean'
  <2>1. ICache \subseteq LCE
    BY MeAssumption
  <2> QED
    BY <1>0, <1>2, <2>1 DEF VictimState, ReadOnlyClean
<1>9. ASSUME NEW k \in LCE, Waiting(k)' PROVE VictimKnown(k)'
  <2>1. Waiting(k) /\ RequestInv(k) /\ VictimKnown(k) /\ miss[k].way \in Way
    BY <1>0, <1>9, MessageTypes DEF Waiting, CoherenceInv, LceInv, VictimState, ReqMsg
  <2>2. k # l
    BY <1>0, <2>1 DEF Waiting, RequestInv, Served, Finishing, Unserved
  <2> QED
    BY <1>0, <1>2, <2>1, <2>2 DEF VictimKnown
<1> QED
  BY <1>5, <1>6, <1>7, <1>8, <1>9 DEF VictimState, VictimKnown

LEMMA MissVictims ==
  ASSUME TypeInv, CoherenceInv, MessageInv, VictimState, UNCHANGED cceVars, NEW l \in LCE,
         NEW t \in Tag, NEW wr \in BOOLEAN, Miss(l, t, wr)
  PROVE  VictimState'
<1>0. /\ lceSt' = [lceSt EXCEPT ![l] = "send"]
      /\ UNCHANGED <<pc, req, gad, r0, dir, lceReq, lceResp, lceDataResp, lceCmd, cmdSt, dirty>>
  BY DEF Miss, cmdFsm, arrays, netVars, cceVars, ctlVars
<1>1. PICK w \in Victims(l) :
        miss' = [miss EXCEPT ![l] = [wr |-> wr, tag |-> t, way |-> w, dirty |-> dirty[l][w]]]
  BY DEF Miss
<1>2. miss'[l].way = w /\ miss'[l].dirty = dirty[l][w]
      /\ \A k \in LCE : k # l => miss'[k] = miss[k] /\ lceSt'[k] = lceSt[k]
  BY <1>0, <1>1, MessageTypes
<1>3. \A k \in LCE : VictimKnown(k)'
  BY <1>0, <1>2 DEF VictimState, VictimKnown, Waiting
<1>4. VictimInv' /\ DirtyOwned' /\ TransferInv' /\ ReadOnlyClean'
  BY <1>0 DEF VictimState, VictimInv, DirtyOwned, TakenAway, TransferInv, ReadOnlyClean,
    Writing, InvPhase, FillPhase, Targets
<1> QED
  BY <1>3, <1>4 DEF VictimState

LEMMA LceVictims ==
  ASSUME TypeInv, CoherenceInv, MessageInv, VictimState, LceNext, UNCHANGED cceVars
  PROVE  VictimState'
<1> PICK l \in LCE : \/ LceStep(l)
                     \/ \E t \in Tag : \/ \E v \in Value : Store(l, t, v)
                                       \/ \E wr \in BOOLEAN : Miss(l, t, wr)
  BY DEF LceNext
<1> QED
  BY MissSideVictims, CommandVictims, WbCheckVictims, WbClearVictims, WbSentVictims,
     StoreVictims, MissVictims
     DEF LceStep

-----------------------------------------------------------------------------
(* The theorems.                                                           *)

LEMMA VictimStateInit == Init => VictimState
<1> SUFFICES ASSUME Init PROVE VictimState
  OBVIOUS
<1>1. PICK t \in Tag : CceInit!(t)
  BY DEF Init, CceInit
<1>2. PICK u \in Tag : LceInit!(u)
  BY DEF Init, LceInit
<1>3. ICache \subseteq LCE
  BY MeAssumption
<1> QED
  BY <1>1, <1>2, <1>3 DEF Init, NetInit, VictimState, ReadOnlyClean, VictimKnown, Waiting,
    DirtyOwned, TransferInv, VictimInv, InvPhase, FillPhase, BeforeTransfer

LEMMA VictimStateStep ==
  TypeInv /\ TypeInv' /\ CoherenceInv /\ MessageInv /\ VictimState /\ [Next]_vars
    => VictimState'
<1> SUFFICES ASSUME TypeInv, TypeInv', CoherenceInv, MessageInv, VictimState, [Next]_vars
             PROVE  VictimState'
  OBVIOUS
<1>1. CASE CceNext /\ UNCHANGED <<lceVars, mem>>
  BY <1>1, EngineVictims
<1>2. CASE LceNext /\ UNCHANGED <<cceVars, mem>>
  BY <1>2, LceVictims
<1>3. CASE MemWrite \/ MemRead \/ UNCHANGED vars
  <2>1. UNCHANGED <<pc, ctlVars, netVars, lceVars>>
    BY <1>3 DEF MemWrite, MemRead, vars, cceVars
  <2>2. UNCHANGED <<pc, req, gad, r0, dir, lceReq, lceResp, lceDataResp, lceCmd,
                    lceSt, miss, cmdSt, dirty>>
    BY <2>1 DEF ctlVars, netVars, lceVars, reqFsm, cmdFsm, arrays
  <2> QED
    BY <2>2 DEF VictimState, ReadOnlyClean, VictimKnown, Waiting, DirtyOwned, TakenAway,
      Writing, TransferInv, VictimInv, InvPhase, FillPhase, Targets
<1> QED
  BY <1>1, <1>2, <1>3 DEF Next

\* The dirty bits, the directory and the request being served agree on which
\* block still has to be written back.
THEOREM VictimsTracked == Spec => [](CoherenceInv /\ MessageInv /\ VictimState)
<1>1. Spec => []TypeInv
  BY TypeInvInit, TypeInvStep, PTL DEF Spec
<1> QED
  BY <1>1, MessagesFit, VictimStateInit, VictimStateStep, PTL DEF Spec

\* demo-v2 sends a replacement writeback to memory without a look at its type
\* (demo-v2.S:118-126); it is never the null one that would zero the block.
THEOREM ReplacementsAreDirty == Spec => []ReplacementIsDirty
<1>1. CoherenceInv /\ MessageInv /\ VictimState => ReplacementIsDirty
  <2> SUFFICES ASSUME CoherenceInv, VictimState, pc = "replace_wb",
                      NEW l \in LCE, lceDataResp[l] # <<>>
               PROVE  Head(lceDataResp[l]).type = "wb"
    BY DEF ReplacementIsDirty
  <2>1. l = req.lce
    BY DEF CoherenceInv, LceInv, AnswerInv
  <2> QED
    BY <2>1 DEF VictimState, VictimInv
<1> QED
  BY <1>1, VictimsTracked, PTL

\* A fill, its block or its tag (bp_be_dcache_lce_data_cmd.v,
\* bp_be_dcache_lce_cmd.v), never overwrites a way that is still dirty.
THEOREM FillsLandClean == Spec => []FillsCleanWay
<1>1. CoherenceInv /\ MessageInv /\ VictimState => FillsCleanWay
  <2> SUFFICES ASSUME CoherenceInv, MessageInv, VictimState, NEW l \in LCE
               PROVE  /\ lceDataCmd[l] # <<>> => ~dirty[l][Head(lceDataCmd[l]).way]
                      /\ lceCmd[l] # <<>> /\ Head(lceCmd[l]).type = "ST" =>
                           ~dirty[l][Head(lceCmd[l]).way]
    BY DEF FillsCleanWay
  <2>0. CommandInv(l) /\ RequestInv(l) /\ FillFits(l)
    BY DEF CoherenceInv, LceInv, MessageInv
  <2>1. ASSUME lceDataCmd[l] # <<>> PROVE ~dirty[l][Head(lceDataCmd[l]).way]
    <3>1. PICK m \in DataCmdMsg : lceDataCmd[l] = <<m>> /\ m.way = req.way
      BY <2>0, <2>1 DEF FillFits
    <3>2. Filling /\ l = req.lce /\ lceSt[l] = "sleep" /\ lceReq[l] = <<>>
      BY <2>0, <2>1 DEF FillFits
    <3>3. lceResp[l] = <<>>
      <4>1. CASE pc = "send_st"
        BY <4>1, QuietQueues DEF Quiet
      <4>2. CASE pc = "coh_ack"
        BY <2>0, <3>2, <4>2 DEF RequestInv, Finishing, Unserved
      <4> QED
        BY <3>2, <4>1, <4>2 DEF Filling
    <3>4. ~dirty[l][req.way]
      BY <3>2, <3>3 DEF VictimState, VictimInv, Filling, FillPhase
    <3>5. Head(lceDataCmd[l]).way = req.way
      BY <3>1
    <3> QED
      BY <3>4, <3>5
  <2>2. ASSUME lceCmd[l] # <<>>, Head(lceCmd[l]).type = "ST"
        PROVE  ~dirty[l][Head(lceCmd[l]).way]
    <3>1. PICK m \in CmdMsg : lceCmd[l] = <<m>> /\ MayHold(l, m) /\ lceResp[l] = <<>>
      BY <2>0, <2>2 DEF CommandInv
    <3>2. m.type = "ST" /\ Head(lceCmd[l]).way = m.way
      BY <2>2, <3>1
    <3>3. pc = "coh_ack" /\ l = req.lce /\ m.way = req.way
      BY <3>1, <3>2 DEF MayHold, InvMsg, SetTagMsg
    <3> QED
      BY <3>1, <3>2, <3>3 DEF VictimState, VictimInv, FillPhase
  <2> QED
    BY <2>1, <2>2
<1> QED
  BY <1>1, VictimsTracked, PTL

LEMMA ShortQueue ==
  ASSUME NEW q, q = <<>> \/ \E m : q = <<m>>
  PROVE  Len(q) \in Nat /\ Len(q) <= 1 /\ (q = <<>> => Len(q) = 0)
<1>1. Len(<<>>) = 0 /\ \A m : Len(<<m>>) = 1
  OBVIOUS
<1> QED
  BY <1>1

\* The queues of an LCE between the engine and it hold one message, and only
\* while the engine waits for an answer of this LCE.
LEMMA OneExchange ==
  ASSUME CoherenceInv, MessageInv, VictimState, NEW l \in LCE
  PROVE  /\ InFlight(l) <= 1
         /\ InFlight(l) # 0 =>
              l = IF InvPhase \/ pc = "transfer_wb" THEN gad.trLce ELSE req.lce
<1>0. CommandInv(l) /\ AnswerInv(l)
  BY DEF CoherenceInv, LceInv
<1>1. lceCmd[l] = <<>> \/ \E m : lceCmd[l] = <<m>> /\ MayHold(l, m)
  BY <1>0 DEF CommandInv
<1>2. lceResp[l] = <<>> \/ \E m : lceResp[l] = <<m>>
  BY <1>0 DEF AnswerInv
<1>3. lceDataResp[l] = <<>> \/ \E m : lceDataResp[l] = <<m>>
  BY <1>0 DEF AnswerInv
<1> DEFINE short(q) == Len(q) \in Nat /\ Len(q) <= 1 /\ (q = <<>> => Len(q) = 0)
<1>4. short(lceCmd[l]) /\ short(lceResp[l]) /\ short(lceDataResp[l])
  BY <1>1, <1>2, <1>3, ShortQueue
<1>5. /\ lceCmd[l] = <<>> \/ (lceResp[l] = <<>> /\ lceDataResp[l] = <<>>)
      /\ lceResp[l] = <<>> \/ lceDataResp[l] = <<>>
  BY <1>0 DEF CommandInv, AnswerInv, InvPhase
<1>6. InvPhase => Targets = {gad.trLce}
  BY DEF VictimState, TransferInv
<1>7. lceCmd[l] # <<>> \/ lceResp[l] # <<>> \/ lceDataResp[l] # <<>> =>
        l = IF InvPhase \/ pc = "transfer_wb" THEN gad.trLce ELSE req.lce
  <2>1. lceCmd[l] # <<>> => \/ InvPhase /\ l \in Targets
                            \/ pc \in {"replace_wb", "coh_ack"} /\ l = req.lce
                            \/ pc = "transfer_wb" /\ l = gad.trLce
    BY <1>1 DEF MayHold
  <2>2. lceResp[l] # <<>> => \/ InvPhase /\ l \in Targets
                             \/ pc = "coh_ack" /\ l = req.lce
    BY <1>0 DEF AnswerInv
  <2>3. lceDataResp[l] # <<>> => \/ pc = "replace_wb" /\ l = req.lce
                                 \/ pc = "transfer_wb" /\ l = gad.trLce
    BY <1>0 DEF AnswerInv
  <2> QED
    BY <1>6, <2>1, <2>2, <2>3 DEF InvPhase
<1>8. \A a, b, c \in Nat :
        a <= 1 /\ b <= 1 /\ c <= 1 /\ (a = 0 \/ (b = 0 /\ c = 0)) /\ (b = 0 \/ c = 0)
        => a + b + c <= 1
  OBVIOUS
<1>9. /\ Len(lceCmd[l]) = 0 \/ (Len(lceResp[l]) = 0 /\ Len(lceDataResp[l]) = 0)
      /\ Len(lceResp[l]) = 0 \/ Len(lceDataResp[l]) = 0
  BY <1>4, <1>5
<1>10. InFlight(l) <= 1
  BY <1>4, <1>8, <1>9 DEF InFlight
<1>11. InFlight(l) # 0 => lceCmd[l] # <<>> \/ lceResp[l] # <<>> \/ lceDataResp[l] # <<>>
  <2>1. lceCmd[l] = <<>> /\ lceResp[l] = <<>> /\ lceDataResp[l] = <<>> =>
          Len(lceCmd[l]) = 0 /\ Len(lceResp[l]) = 0 /\ Len(lceDataResp[l]) = 0
    BY <1>4
  <2>2. Len(lceCmd[l]) = 0 /\ Len(lceResp[l]) = 0 /\ Len(lceDataResp[l]) = 0 => InFlight(l) = 0
    BY DEF InFlight
  <2> QED
    BY <2>1, <2>2
<1> QED
  BY <1>7, <1>10, <1>11

\* Over all the caches together at most one command or answer is under way, and
\* one fill; a cache has at most one request (bp_cce_top.v:147-190).
THEOREM ChannelsBounded == Spec => []ChannelBound
<1>1. CoherenceInv /\ MessageInv /\ VictimState => ChannelBound
  <2> SUFFICES ASSUME CoherenceInv, MessageInv, VictimState PROVE ChannelBound
    OBVIOUS
  <2>1. ASSUME NEW l \in LCE
        PROVE  Len(lceReq[l]) <= 1 /\ InFlight(l) <= 1 /\ Len(lceDataCmd[l]) <= 1
    <3>0. RequestInv(l) /\ FillFits(l)
      BY DEF CoherenceInv, LceInv, MessageInv
    <3>1. lceReq[l] = <<>> \/ lceReq[l] = <<miss[l]>>
      BY <3>0 DEF RequestInv, Unserved, Served, Finishing
    <3>2. lceDataCmd[l] = <<>> \/ \E m : lceDataCmd[l] = <<m>>
      BY <3>0 DEF FillFits
    <3>3. Len(lceReq[l]) <= 1 /\ Len(lceDataCmd[l]) <= 1
      BY <3>1, <3>2, ShortQueue
    <3>4. InFlight(l) <= 1
      BY OneExchange
    <3> QED
      BY <3>3, <3>4
  <2>2. ASSUME NEW k \in LCE, NEW l \in LCE, k # l
        PROVE  /\ InFlight(k) = 0 \/ InFlight(l) = 0
               /\ lceDataCmd[k] = <<>> \/ lceDataCmd[l] = <<>>
    <3>1. InFlight(k) = 0 \/ InFlight(l) = 0
      BY <2>2, OneExchange
    <3>2. FillFits(k) /\ FillFits(l)
      BY DEF MessageInv
    <3>3. lceDataCmd[k] = <<>> \/ lceDataCmd[l] = <<>>
      BY <2>2, <3>2 DEF FillFits
    <3> QED
      BY <3>1, <3>3
  <2> QED
    BY <2>1, <2>2 DEF ChannelBound
<1> QED
  BY <1>1, VictimsTracked, PTL
=============================================================================
