------------------------------ MODULE MeAtomic ------------------------------
(***************************************************************************)
(* The memory end implements AtomicMemory, for every number of caches and  *)
(* ways and every set of tags and values.  DataInv is inductive together   *)
(* with the invariants of MeCoherence and MeMessages; given DataInv, every *)
(* step moves no block, or it is a store.                                  *)
(***************************************************************************)
EXTENDS MeMessages

\* What has been proved of every reachable state.
MeInv == TypeInv /\ CoherenceInv /\ MessageInv /\ VictimState

-----------------------------------------------------------------------------
(* Where a block is.                                                       *)

LEMMA DataTypes ==
  ASSUME TypeInv
  PROVE  /\ tags \in [LCE -> [Way -> Entry]] /\ data \in [LCE -> [Way -> Value]]
         /\ dirty \in [LCE -> [Way -> BOOLEAN]] /\ mem \in [Tag -> Value]
         /\ cmdSt \in [LCE -> CmdState] /\ buf \in [LCE -> Value]
         /\ memDataCmd \in Seq(MemDataCmdMsg)
BY DEF TypeInv, TypeOK, CceTypeOK, LceTypeOK

\* Only the LCE that has been told to writes back.
LEMMA OneWriter ==
  ASSUME CoherenceInv, NEW l \in LCE, cmdSt[l] # "ready" \/ lceDataResp[l] # <<>>
  PROVE  /\ pc \in {"replace_wb", "transfer_wb"}
         /\ l = IF pc = "replace_wb" THEN req.lce ELSE gad.trLce
         /\ cmdSt[l] # "ready" => lceCmd[l] # <<>> /\ lceDataResp[l] = <<>>
                                  /\ Head(lceCmd[l]).type = "WB"
<1>1. CommandInv(l) /\ AnswerInv(l)
  BY DEF CoherenceInv, LceInv
<1>2. CASE cmdSt[l] # "ready"
  <2>1. PICK m \in CmdMsg : lceCmd[l] = <<m>> /\ MayHold(l, m) /\ lceDataResp[l] = <<>>
    BY <1>1, <1>2 DEF CommandInv
  <2>2. m.type = "WB"
    BY <1>1, <1>2, <2>1 DEF CommandInv
  <2> QED
    BY <2>1, <2>2 DEF MayHold, InvMsg, SetTagMsg
<1>3. CASE lceDataResp[l] # <<>>
  BY <1>1, <1>3 DEF AnswerInv, CommandInv
<1> QED
  BY <1>2, <1>3

\* A dirty block is one that the directory names, or the one taken away.
LEMMA DirtyHome ==
  ASSUME MeInv, TrTag, NEW l \in LCE, NEW w \in Way, dirty[l][w]
  PROVE  \/ dir[l][w].st # "I" /\ dir[l][w].tag = tags[l][w].tag
         \/ TakenAway(l, w) /\ dir[l][w].st = "I" /\ tags[l][w].tag = req.tag
<1>1. CASE dir[l][w].st = "I"
  <2>1. TakenAway(l, w)
    BY <1>1 DEF MeInv, VictimState, DirtyOwned
  <2> QED
    BY <1>1, <2>1 DEF TakenAway, TrTag, BeforeTransfer
<1>2. CASE dir[l][w].st # "I"
  <2>1. CASE FillUnderWay(l, w)
    <3>0. FillPhase /\ l = req.lce /\ w = req.way
      BY <2>1 DEF FillUnderWay, FillPhase
    <3>1. dir[l][w].tag = req.tag
      BY <3>0 DEF MeInv, CoherenceInv, DirInv, FillInv
    <3>2. lceResp[l] # <<>>
      BY <3>0 DEF MeInv, VictimState, VictimInv
    <3>3. AnswerInv(l) /\ RequestInv(l)
      BY DEF MeInv, CoherenceInv, LceInv
    <3>4. pc = "coh_ack"
      BY <3>0, <3>2, <3>3 DEF AnswerInv, InvPhase, FillPhase
    <3>5. TagWritten(l)
      BY <3>0, <3>2, <3>3, <3>4 DEF RequestInv, Finishing
    <3> QED
      BY <1>2, <3>0, <3>1, <3>5 DEF TagWritten
  <2>2. CASE ~FillUnderWay(l, w)
    BY <1>2, <2>2 DEF MeInv, CoherenceInv, DirInv, DirectoryAccurate
  <2> QED
    BY <2>1, <2>2
<1> QED
  BY <1>1, <1>2

\* A block is dirty in one way at most.
LEMMA DirtyUnique ==
  ASSUME MeInv, TrTag, NEW k \in LCE, NEW v \in Way, NEW l \in LCE, NEW w \in Way,
         dirty[k][v], dirty[l][w], tags[k][v].tag = tags[l][w].tag
  PROVE  k = l /\ v = w
<1>1. ASSUME NEW i \in LCE, NEW x \in Way, NEW j \in LCE, NEW y \in Way,
             dirty[i][x], dir[i][x].st # "I", dir[i][x].tag = req.tag, TakenAway(j, y)
      PROVE  i = j /\ x = y
  <2>1. OwnersInv /\ TransferInv /\ VictimInv
    BY DEF MeInv, CoherenceInv, DirInv, VictimState
  <2>2. pc # "ready"
    BY <1>1 DEF TakenAway, InvPhase
  <2>3. ~(FillPhase /\ i = req.lce /\ x = req.way)
    <3> SUFFICES ASSUME FillPhase, i = req.lce, x = req.way PROVE FALSE
      OBVIOUS
    <3>1. pc = "transfer_wb"
      BY <1>1 DEF TakenAway, InvPhase, FillPhase
    <3>2. AnswerInv(i)
      BY DEF MeInv, CoherenceInv, LceInv
    <3>3. lceResp[i] = <<>>
      BY <3>1, <3>2 DEF AnswerInv, InvPhase
    <3> QED
      BY <1>1, <2>1, <3>1, <3>3 DEF VictimInv, FillPhase
  <2>4. pc = "inv_top" /\ i \in Targets /\ x = gad.ways[i]
    BY <1>1, <2>1, <2>2, <2>3 DEF OwnersInv
  <2> QED
    BY <1>1, <2>1, <2>4 DEF TransferInv, InvPhase, TakenAway
<1>2. CASE dir[k][v].st # "I" /\ dir[l][w].st # "I"
  <2>1. dir[k][v].tag = dir[l][w].tag
    BY <1>2, DirtyHome
  <2> QED
    BY <1>2, <2>1 DEF MeInv, CoherenceInv, DirInv, DirUnique
<1>3. CASE dir[k][v].st # "I" /\ dir[l][w].st = "I"
  <2>1. TakenAway(l, w) /\ dir[k][v].tag = req.tag
    BY <1>3, DirtyHome
  <2> QED
    BY <1>1, <1>3, <2>1
<1>4. CASE dir[k][v].st = "I" /\ dir[l][w].st # "I"
  <2>1. TakenAway(k, v) /\ dir[l][w].tag = req.tag
    BY <1>4, DirtyHome
  <2>2. l = k /\ w = v
    BY <1>1, <1>4, <2>1
  <2> QED
    BY <2>2
<1>5. CASE dir[k][v].st = "I" /\ dir[l][w].st = "I"
  <2>1. TakenAway(k, v) /\ TakenAway(l, w)
    BY <1>5, DirtyHome
  <2> QED
    BY <2>1 DEF TakenAway
<1> QED
  BY <1>2, <1>3, <1>4, <1>5

\* The contents of a dirty block are those of its one dirty way.
DirtyCurrent ==
  \A l \in LCE, w \in Way, t \in Tag :
    dirty[l][w] /\ tags[l][w].tag = t => Current(t) = data[l][w]

LEMMA DirtyIsCurrent == MeInv /\ TrTag => DirtyCurrent
<1> SUFFICES ASSUME MeInv, TrTag, NEW l \in LCE, NEW w \in Way, NEW t \in Tag,
                    dirty[l][w], tags[l][w].tag = t
             PROVE  Current(t) = data[l][w]
  BY DEF DirtyCurrent
<1> DEFINE c == CHOOSE x \in DirtyCopies(t) : TRUE
<1>1. <<l, w>> \in DirtyCopies(t)
  BY DEF DirtyCopies
<1>2. c \in DirtyCopies(t)
  BY <1>1
<1>3. \A x \in DirtyCopies(t) : x[1] = l /\ x[2] = w
  <2> SUFFICES ASSUME NEW x \in DirtyCopies(t) PROVE x[1] = l /\ x[2] = w
    OBVIOUS
  <2>1. x[1] \in LCE /\ x[2] \in Way /\ dirty[x[1]][x[2]] /\ tags[x[1]][x[2]].tag = t
    BY DEF DirtyCopies
  <2> QED
    BY <2>1, DirtyUnique
<1>4. DirtyCopies(t) # {}
  BY <1>1
<1>5. Current(t) = data[c[1]][c[2]]
  BY <1>4 DEF Current
<1> QED
  BY <1>2, <1>3, <1>5

LEMMA DirtyIsCurrentNext == (MeInv /\ TrTag)' => DirtyCurrent'
BY DirtyIsCurrent, PTL

\* The contents of a block that no cache and no writeback has.
Below(t) ==
  IF memDataCmd # <<>> /\ Head(memDataCmd).tag = t THEN Head(memDataCmd).data ELSE mem[t]

WritingBack(l) == cmdSt[l] \in {"wb_read", "wb_cleared"}

\* A step that nothing happens to the contents of any block in.
CurrentKept == \A t \in Tag : Current(t)' = Current(t)

\* The contents stay if each place where they may be keeps its block.
LEMMA CurrentFrame ==
  ASSUME NEW t \in Tag,
         DirtyCopies(t)' = DirtyCopies(t), Writers(t)' = Writers(t),
         WritebacksInFlight(t)' = WritebacksInFlight(t),
         \A x \in DirtyCopies(t) : data'[x[1]][x[2]] = data[x[1]][x[2]],
         \A l \in Writers(t) : buf'[l] = buf[l],
         \A l \in WritebacksInFlight(t) : lceDataResp'[l] = lceDataResp[l],
         Below(t)' = Below(t)
  PROVE  Current(t)' = Current(t)
BY DEF Current, Below

LEMMA StillCurrent ==
  ASSUME UNCHANGED <<dirty, buf, lceDataResp>>,
         \A l \in LCE, w \in Way : dirty[l][w] =>
           tags'[l][w].tag = tags[l][w].tag /\ data'[l][w] = data[l][w],
         \A l \in LCE : /\ WritingBack(l)' <=> WritingBack(l)
                        /\ WritingBack(l) => lceCmd'[l] = lceCmd[l],
         \A t \in Tag : Below(t)' = Below(t)
  PROVE  CurrentKept
<1> SUFFICES ASSUME NEW t \in Tag PROVE Current(t)' = Current(t)
  BY DEF CurrentKept
<1>1. DirtyCopies(t)' = DirtyCopies(t)
  BY DEF DirtyCopies
<1>2. \A x \in DirtyCopies(t) : data'[x[1]][x[2]] = data[x[1]][x[2]]
  BY DEF DirtyCopies
<1>3. Writers(t)' = Writers(t)
  BY DEF Writers, WritingBack
<1>4. WritebacksInFlight(t)' = WritebacksInFlight(t)
  BY DEF WritebacksInFlight
<1> QED
  BY <1>1, <1>2, <1>3, <1>4, CurrentFrame

-----------------------------------------------------------------------------
(* Where a fill is.                                                        *)

\* A block on its way, or received and not acknowledged, is the requestor's.
FillsKnown ==
  \A l \in LCE :
    \/ lceDataCmd[l] # <<>>
    \/ lceSt[l] = "sleep" /\ dataRcv[l]
    \/ lceSt[l] = "coh_ack"
    => Filling /\ l = req.lce /\ lceResp[l] = <<>>

LEMMA FillKnown == MeInv => FillsKnown
<1> SUFFICES ASSUME MeInv, NEW l \in LCE,
                    \/ lceDataCmd[l] # <<>>
                    \/ lceSt[l] = "sleep" /\ dataRcv[l]
                    \/ lceSt[l] = "coh_ack"
             PROVE  Filling /\ l = req.lce /\ lceResp[l] = <<>>
  BY DEF FillsKnown
<1>0. RequestInv(l) /\ FillFits(l) /\ CoherenceInv
  BY DEF MeInv, CoherenceInv, LceInv, MessageInv
<1>1. CASE lceSt[l] = "coh_ack"
  BY <1>0, <1>1 DEF RequestInv, Unserved, Served, Finishing, Filling
<1>2. CASE lceSt[l] # "coh_ack"
  <2>1. Filling /\ l = req.lce /\ lceSt[l] = "sleep" /\ lceReq[l] = <<>>
    BY <1>0, <1>2 DEF FillFits, Waiting
  <2>2. CASE pc = "send_st"
    BY <1>0, <2>1, <2>2, QuietQueues DEF Quiet
  <2>3. CASE pc = "coh_ack"
    BY <1>0, <2>1, <2>3 DEF RequestInv, Finishing, Unserved
  <2> QED
    BY <2>1, <2>2, <2>3 DEF Filling
<1> QED
  BY <1>1, <1>2

LEMMA FillKnownNext == MeInv' => FillsKnown'
BY FillKnown, PTL

\* While a way is being filled, its cache is closed.
LEMMA LandingClosed ==
  ASSUME MeInv, NEW l \in LCE, NEW w \in Way, Landing(l, w)
  PROVE  lceSt[l] \in {"sleep", "coh_ack"} /\ lceReq[l] = <<>>
<1>1. RequestInv(l)
  BY DEF MeInv, CoherenceInv, LceInv
<1> QED
  BY <1>1 DEF RequestInv, Served, Finishing, Landing, FillPhase

LEMMA ValidFrame ==
  ASSUME ValidData, CurrentKept,
         \A l \in LCE, w \in Way, t \in Tag : (Holds(l, w, t) /\ ~Landing(l, w))' =>
           \/ Holds(l, w, t) /\ ~Landing(l, w) /\ data'[l][w] = data[l][w]
           \/ data'[l][w] = Current(t)
  PROVE  ValidData'
BY DEF ValidData, CurrentKept

-----------------------------------------------------------------------------
(* The engine.                                                             *)

\* Only a writeback that is taken moves a block in the engine's own steps.
LEMMA EngineCurrent ==
  ASSUME TypeInv, CoherenceInv, CceNext, UNCHANGED <<lceVars, mem>>,
         \A l \in LCE : ~(ReplaceWb(l) \/ TransferWb(l))
  PROVE  CurrentKept
<1>0. UNCHANGED <<tags, dirty, data, buf, cmdSt, mem>>
  BY DEF lceVars, cmdFsm, arrays
<1>1. UNCHANGED <<lceDataResp, memDataCmd>>
  <2>1. CASE InvSend \/ InvSkip \/ Replace \/ Transfer \/ SendSetTag
    BY <2>1 DEF InvSend, InvSkip, Replace, Transfer, SendSetTag, memQVars, netVars
  <2>2. CASE MemResp \/ TransferMem \/ ReadL2Tr \/ ReadL2 \/ MemDataResp
    BY <2>2 DEF MemResp, TransferMem, PopMemResp, ReadL2Tr, ReadL2, MemDataResp, netVars
  <2>3. CASE \E l \in LCE : LceReq(l) \/ InvAck(l) \/ CohAck(l)
    BY <2>3 DEF LceReq, InvAck, CohAck, memQVars
  <2> QED
    BY <2>1, <2>2, <2>3 DEF CceNext
<1>2. \A l \in LCE : ~WritingBack(l)
  <2> SUFFICES ASSUME NEW l \in LCE, cmdSt[l] # "ready" PROVE FALSE
    BY DEF WritingBack
  <2>1. pc \in {"replace_wb", "transfer_wb"}
    BY OneWriter
  <2> QED
    BY <2>1 DEF CceNext, InvSend, InvSkip, Replace, Transfer, SendSetTag, MemResp, TransferMem,
      ReadL2Tr, ReadL2, MemDataResp, LceReq, InvAck, CohAck
<1>3. \A t \in Tag : Below(t)' = Below(t)
  BY <1>0, <1>1 DEF Below
<1> QED
  BY <1>0, <1>1, <1>2, <1>3, StillCurrent DEF WritingBack

\* A writeback that is taken goes to memory, unless it is null.
LEMMA WbTakenCurrent ==
  ASSUME MeInv, NEW l \in LCE, ReplaceWb(l) \/ TransferWb(l), UNCHANGED <<lceVars, mem>>
  PROVE  CurrentKept
<1> DEFINE m == Head(lceDataResp[l])
           wt == IF pc = "replace_wb" THEN gad.lruTag ELSE req.tag
<1>0. UNCHANGED <<tags, dirty, data, buf, cmdSt, mem>>
  BY DEF lceVars, cmdFsm, arrays
<1>1. /\ pc \in {"replace_wb", "transfer_wb"} /\ lceDataResp[l] # <<>>
      /\ lceDataResp' = Drop(lceDataResp, l) /\ lceCmd' = lceCmd
      /\ \/ m.type = "null_wb" /\ pc = "transfer_wb" /\ memDataCmd' = memDataCmd
         \/ memDataCmd' = Append(memDataCmd, WriteBack(wt, m.data))
            /\ ~(m.type = "null_wb" /\ pc = "transfer_wb")
  BY DEF ReplaceWb, TransferWb, Nwbf
<1>2. l = (IF pc = "replace_wb" THEN req.lce ELSE gad.trLce)
      /\ \A k \in LCE : k # l => lceDataResp[k] = <<>> /\ cmdSt[k] = "ready"
  BY <1>1, OneWriter DEF MeInv
<1>3. PICK c \in DataRespMsg : lceDataResp[l] = <<c>>
  BY <1>1 DEF MeInv, CoherenceInv, LceInv, AnswerInv
<1>4. m = c /\ Tail(lceDataResp[l]) = <<>>
  BY <1>3
<1>5. cmdSt[l] = "ready"
  BY <1>1, OneWriter DEF MeInv
<1>6. m.tag = wt /\ (pc = "replace_wb" => m.type = "wb") /\ m.type \in {"wb", "null_wb"}
  BY <1>1, <1>2, <1>4 DEF MeInv, MessageInv, WritebacksFit, Asked, VictimState, VictimInv,
    DataRespMsg
<1>7. lceDataResp'[l] = <<>> /\ \A k \in LCE : lceDataResp'[k] = <<>>
  BY <1>1, <1>2, <1>4, MessageTypes DEF Drop, MeInv
<1>8. memDataCmd = <<>> /\ Append(memDataCmd, WriteBack(wt, m.data)) = <<WriteBack(wt, m.data)>>
  <2>1. memDataCmd = <<>>
    BY <1>1 DEF MeInv, CoherenceInv, EngineInv, MemWriteInv
  <2>2. \A x : Append(<<>>, x) = <<x>>
    OBVIOUS
  <2> QED
    BY <2>1, <2>2
<1>9. WriteBack(wt, m.data).tag = wt /\ WriteBack(wt, m.data).data = m.data
  BY DEF WriteBack
<1>10. WriteBack(wt, m.data) = Head(<<WriteBack(wt, m.data)>>) /\ <<WriteBack(wt, m.data)>> # <<>>
  OBVIOUS
<1> SUFFICES ASSUME NEW t \in Tag PROVE Current(t)' = Current(t)
  BY DEF CurrentKept
<1>11. DirtyCopies(t)' = DirtyCopies(t) /\ Writers(t) = {} /\ Writers(t)' = {}
  BY <1>0, <1>2, <1>5 DEF DirtyCopies, Writers
<1>12. WritebacksInFlight(t)' = {}
       /\ WritebacksInFlight(t) = IF wt = t /\ m.type = "wb" THEN {l} ELSE {}
  BY <1>1, <1>2, <1>6, <1>7 DEF WritebacksInFlight
<1> HIDE DEF m, wt
<1>13. CASE DirtyCopies(t) # {}
  BY <1>0, <1>11, <1>13 DEF Current
<1>14. CASE DirtyCopies(t) = {} /\ wt = t /\ m.type = "wb"
  <2>1. WritebacksInFlight(t) = {l} /\ (CHOOSE k \in WritebacksInFlight(t) : TRUE) = l
    BY <1>12, <1>14
  <2>2. Current(t) = m.data
    BY <1>11, <1>14, <2>1 DEF Current, m
  <2>3. Current(t)' = m.data
    BY <1>1, <1>8, <1>9, <1>10, <1>11, <1>12, <1>14 DEF Current
  <2> QED
    BY <2>2, <2>3
<1>15. CASE DirtyCopies(t) = {} /\ ~(wt = t /\ m.type = "wb")
  BY <1>0, <1>1, <1>6, <1>8, <1>9, <1>10, <1>11, <1>12, <1>15 DEF Current
<1> QED
  BY <1>13, <1>14, <1>15

LEMMA MemCurrent ==
  ASSUME TypeInv, CoherenceInv, MemWrite \/ MemRead
  PROVE  CurrentKept
<1>0. UNCHANGED <<tags, dirty, data, buf, cmdSt, lceCmd, lceDataResp>>
  BY DEF MemWrite, MemRead, lceVars, cmdFsm, arrays, netVars
<1>1. ASSUME MemWrite, NEW t \in Tag PROVE Below(t)' = Below(t)
  <2>1. memDataCmd # <<>> /\ MemWriteInv
    BY <1>1 DEF MemWrite, CoherenceInv, EngineInv
  <2>2. PICK c : memDataCmd = <<c>>
    BY <2>1 DEF MemWriteInv
  <2>3. Head(memDataCmd) = c /\ Tail(memDataCmd) = <<>>
    BY <2>2
  <2>4. memDataCmd' = <<>> /\ mem' = [mem EXCEPT ![c.tag] = c.data]
    BY <1>1, <2>3 DEF MemWrite
  <2> QED
    BY <2>1, <2>3, <2>4, DataTypes DEF Below
<1>2. ASSUME MemRead, NEW t \in Tag PROVE Below(t)' = Below(t)
  BY <1>2 DEF MemRead, Below
<1> QED
  BY <1>0, <1>1, <1>2, StillCurrent DEF WritingBack

\* The block read from memory is sent to the requestor.
LEMMA FillSent ==
  ASSUME TypeInv, CoherenceInv, MemDataResp
  PROVE  /\ pc = "mem_data_resp" /\ pc' = "send_st" /\ memDataResp # <<>> /\ memDataResp' = <<>>
         /\ req' = req
         /\ lceDataCmd' = Send(lceDataCmd, req.lce, [tag |-> req.tag, way |-> req.way,
                                                    data |-> Head(memDataResp).data])
         /\ UNCHANGED <<dir, gad, lceReq, lceResp, lceDataResp, lceCmd>>
<1>1. pc = "mem_data_resp" /\ memDataResp # <<>> /\ MemReadInv
  BY DEF MemDataResp, CoherenceInv, EngineInv
<1>2. PICK d \in Value : memDataResp = <<[data |-> d, cmd |-> MemCmd]>>
  BY <1>1 DEF MemReadInv
<1>3. Head(memDataResp).cmd = MemCmd /\ Tail(memDataResp) = <<>>
  BY <1>2
<1> DEFINE c == Head(memDataResp).cmd
<1>4. c.lce = req.lce /\ c.tag = req.tag /\ c.wr = req.wr /\ c.way = req.way
  BY <1>3 DEF MemCmd
<1>5. req' = [req EXCEPT !.lce = c.lce, !.tag = c.tag, !.wr = c.wr, !.way = c.way]
  BY DEF MemDataResp
<1>6. req' = req
  BY <1>4, <1>5 DEF TypeInv, TypeOK, CceTypeOK, Request
<1> QED
  BY <1>1, <1>3, <1>4, <1>6 DEF MemDataResp

\* The request being served is the same as long as its way is being filled.
LEMMA EngineLanding ==
  ASSUME TypeInv, CoherenceInv, CceNext, UNCHANGED lceVars, NEW l \in LCE, NEW w \in Way,
         Landing(l, w)
  PROVE  Landing(l, w)'
<1>0. FillPhase /\ l = req.lce /\ w = req.way /\ lceResp[l] = <<>>
  BY DEF Landing
<1>1. CASE TransferWb(l) \/ \E k \in LCE : TransferWb(k)
  BY <1>0, <1>1 DEF Landing, TransferWb, FillPhase
<1>2. CASE TransferMem
  <2>1. req' = req
    BY <1>2, Restored DEF TransferMem
  <2> QED
    BY <1>0, <1>2, <2>1 DEF Landing, TransferMem, PopMemResp, netVars, FillPhase
<1>3. CASE ReadL2Tr \/ SendSetTag
  BY <1>0, <1>3 DEF Landing, ReadL2Tr, SendSetTag, ctlVars, netVars, FillPhase
<1>4. CASE MemDataResp
  <2>1. req' = req
    BY <1>4, FillSent
  <2> QED
    BY <1>0, <1>4, <2>1 DEF Landing, MemDataResp, FillPhase
<1>5. ASSUME NEW k \in LCE, CohAck(k) PROVE FALSE
  <2>1. AnswerInv(k) /\ pc = "coh_ack" /\ lceResp[k] # <<>>
    BY <1>5 DEF CoherenceInv, LceInv, CohAck
  <2> QED
    BY <1>0, <2>1 DEF AnswerInv, InvPhase
<1> QED
  BY <1>0, <1>1, <1>2, <1>3, <1>4, <1>5
  DEF CceNext, FillPhase, InvSend, InvSkip, Replace, MemResp, Transfer, ReadL2, LceReq, InvAck,
    ReplaceWb

\* Nothing else starts a fill.
LEMMA NoFillElse ==
  ASSUME TypeInv, CoherenceInv, CceNext, UNCHANGED lceVars, ~MemDataResp, ~SendSetTag
  PROVE  ~Filling' /\ (pc' = "mem_data_resp" => memDataResp' = <<>>)
<1>1. CASE InvMoves
  BY <1>1, InvMovesFacts DEF Filling, AfterInv
<1>2. ASSUME NEW l \in LCE, LceReq(l) PROVE pc' \notin {"send_st", "coh_ack", "mem_data_resp"}
  BY <1>2 DEF LceReq, UpgradeCheck, ReplaceCheck, TransferCheck
<1>3. CASE Replace \/ Transfer
  BY <1>3 DEF Replace, Transfer, Filling
<1>4. CASE MemResp \/ TransferMem
  BY <1>4 DEF MemResp, TransferMem, TransferCheck, Filling
<1>5. CASE ReadL2Tr \/ ReadL2
  BY <1>5 DEF ReadL2Tr, ReadL2, Filling, CoherenceInv, EngineInv, MemReadInv
<1>6. CASE \E l \in LCE : ReplaceWb(l) \/ TransferWb(l) \/ CohAck(l)
  BY <1>6 DEF ReplaceWb, TransferWb, CohAck, Filling
<1> QED
  BY <1>1, <1>2, <1>3, <1>4, <1>5, <1>6 DEF CceNext, InvMoves, Filling

LEMMA EngineFillData ==
  ASSUME MeInv, MeInv', FillData, CceNext, UNCHANGED <<lceVars, mem>>
  PROVE  FillData'
<1>0. UNCHANGED <<lceSt, dataRcv, data, mem>> /\ TypeInv /\ CoherenceInv
  BY DEF lceVars, reqFsm, arrays, MeInv
<1>1. CASE MemDataResp
  <2> DEFINE m == [tag |-> req.tag, way |-> req.way, data |-> Head(memDataResp).data]
  <2>1. pc = "mem_data_resp" /\ pc' = "send_st" /\ req' = req
        /\ lceDataCmd' = Send(lceDataCmd, req.lce, m) /\ m.data = mem[req.tag]
    BY <1>0, <1>1, FillSent DEF FillData
  <2>2. \A l \in LCE : lceDataCmd[l] = <<>>
    BY <2>1, FillKnown DEF FillsKnown, Filling
  <2> HIDE DEF m
  <2>3. \A l \in LCE : lceDataCmd'[l] # <<>> => lceDataCmd'[l] = <<m>>
    <3>1. Append(<<>>, m) = <<m>>
      OBVIOUS
    <3> QED
      BY <1>0, <2>1, <2>2, <3>1, MessageTypes DEF Send
  <2>4. Head(<<m>>) = m
    OBVIOUS
  <2> QED
    BY <1>0, <2>1, <2>3, <2>4 DEF FillData
<1>2. CASE SendSetTag
  BY <1>0, <1>2 DEF SendSetTag, ctlVars, FillData
<1>3. CASE ~MemDataResp /\ ~SendSetTag
  <2>1. ~Filling' /\ (pc' = "mem_data_resp" => memDataResp' = <<>>)
    BY <1>0, <1>3, NoFillElse
  <2> QED
    BY <2>1, FillKnownNext DEF FillsKnown, FillData
<1> QED
  BY <1>1, <1>2, <1>3

\* A command to write back names the block that the way holds.
LEMMA WbDataFrame ==
  ASSUME UNCHANGED <<cmdSt, buf, data, dirty, tags>>, NEW l \in LCE, WbData(l),
         \/ lceCmd'[l] = lceCmd[l]
         \/ /\ cmdSt[l] = "ready"
            /\ \E m : /\ lceCmd'[l] = <<m>>
                      /\ m.type = "WB" /\ dirty[l][m.way] => tags[l][m.way].tag = m.tag
  PROVE  WbData(l)'
<1>1. CASE lceCmd'[l] = lceCmd[l]
  BY <1>1 DEF WbData
<1>2. CASE cmdSt[l] = "ready" /\ lceCmd'[l] # lceCmd[l]
  <2>1. PICK m : /\ lceCmd'[l] = <<m>>
                 /\ m.type = "WB" /\ dirty[l][m.way] => tags[l][m.way].tag = m.tag
    BY <1>2
  <2>2. Head(lceCmd'[l]) = m
    BY <2>1
  <2> QED
    BY <1>2, <2>1, <2>2 DEF WbData
<1> QED
  BY <1>1, <1>2

LEMMA EngineWbData ==
  ASSUME MeInv, DataInv, CceNext, UNCHANGED lceVars, NEW l \in LCE
  PROVE  WbData(l)'
<1>0. UNCHANGED <<cmdSt, buf, data, dirty, tags>> /\ TypeInv /\ CoherenceInv /\ WbData(l)
  BY DEF lceVars, cmdFsm, arrays, MeInv, DataInv
<1> DEFINE Tells(k, m) ==
             /\ lceCmd' = Send(lceCmd, k, m) /\ lceCmd[k] = <<>> /\ cmdSt[k] = "ready"
             /\ m.type = "WB" /\ dirty[k][m.way] => tags[k][m.way].tag = m.tag
<1>1. ASSUME NEW k \in LCE, NEW m, Tells(k, m)
      PROVE  WbData(l)'
  <2>1. lceCmd'[l] = IF l = k THEN <<m>> ELSE lceCmd[l]
    <3>1. Append(<<>>, m) = <<m>>
      OBVIOUS
    <3> QED
      BY <1>0, <1>1, <3>1, MessageTypes DEF Send
  <2> QED
    BY <1>0, <1>1, <2>1, WbDataFrame
<1>2. CASE InvSend
  <2> DEFINE m == [type |-> "INV", tag |-> req.tag, way |-> gad.ways[r0], st |-> "I"]
  <2>1. pc = "inv_top" /\ r0 \in Targets /\ lceCmd' = Send(lceCmd, r0, m)
    BY <1>2 DEF InvSend, Targets
  <2>2. r0 \in LCE /\ CommandInv(r0) /\ ~(r0 < r0)
    BY <1>0, <2>1, VictimTypes DEF Targets, CoherenceInv, LceInv, LCE
  <2>3. lceCmd[r0] = <<>>
    BY <2>1, <2>2 DEF CommandInv, MayHold
  <2>4. cmdSt[r0] = "ready"
    BY <2>2, <2>3 DEF CommandInv
  <2>5. m.type # "WB"
    OBVIOUS
  <2> QED
    BY <1>1, <2>1, <2>2, <2>3, <2>4, <2>5
<1>3. CASE Replace
  <2> DEFINE k == req.lce
             m == [type |-> "WB", tag |-> gad.lruTag, way |-> req.way, st |-> "I"]
  <2>1. pc = "replace" /\ lceCmd' = Send(lceCmd, k, m)
    BY <1>3 DEF Replace
  <2>2. k \in LCE /\ m.way = req.way /\ m.tag = gad.lruTag /\ m.way \in Way
    BY <1>0, MessageTypes
  <2>3. lceCmd[k] = <<>> /\ cmdSt[k] = "ready"
    BY <1>0, <2>1, <2>2, QuietQueues DEF Quiet
  <2>4. ASSUME dirty[k][m.way] PROVE tags[k][m.way].tag = m.tag
    <3>1. ~TakenAway(k, m.way)
      BY <2>1 DEF TakenAway, MeInv, VictimState, TransferInv, BeforeTransfer
    <3>2. dir[k][m.way].tag = tags[k][m.way].tag
      BY <2>2, <2>4, <3>1, DirtyHome DEF DataInv
    <3> QED
      BY <2>1, <2>2, <3>2 DEF DataInv, LruTag
  <2> HIDE DEF k, m
  <2> QED
    BY <1>1, <2>1, <2>2, <2>3, <2>4
<1>4. CASE Transfer
  <2> DEFINE k == gad.trLce
             m == [type |-> "WB", tag |-> req.tag, way |-> gad.trWay, st |-> "I"]
  <2>1. pc = "transfer" /\ lceCmd' = Send(lceCmd, k, m)
    BY <1>4 DEF Transfer
  <2>2. k \in LCE /\ m.way = gad.trWay /\ m.tag = req.tag
    BY <1>0, MessageTypes
  <2>3. lceCmd[k] = <<>> /\ cmdSt[k] = "ready"
    BY <1>0, <2>1, <2>2, QuietQueues DEF Quiet
  <2>4. tags[k][m.way].tag = m.tag
    BY <2>1, <2>2 DEF DataInv, TrTag, BeforeTransfer, MeInv, VictimState, TransferInv
  <2> HIDE DEF k, m
  <2> QED
    BY <1>1, <2>1, <2>2, <2>3, <2>4
<1>5. CASE SendSetTag
  <2> DEFINE k == req.lce
             m == [type |-> "ST", tag |-> req.tag, way |-> req.way, st |-> nextCoh]
  <2>1. pc = "send_st" /\ lceCmd' = Send(lceCmd, k, m) /\ k \in LCE
    BY <1>0, <1>5, MessageTypes DEF SendSetTag
  <2>3. lceCmd[k] = <<>> /\ cmdSt[k] = "ready" /\ m.type # "WB"
    BY <1>0, <2>1, QuietQueues DEF Quiet
  <2> HIDE DEF k, m
  <2> QED
    BY <1>1, <2>1, <2>3
<1>6. CASE ~(InvSend \/ Replace \/ Transfer \/ SendSetTag)
  <2>1. lceCmd' = lceCmd
    <3>1. CASE InvSkip \/ MemResp \/ TransferMem \/ ReadL2Tr \/ ReadL2 \/ MemDataResp
      BY <3>1 DEF InvSkip, MemResp, TransferMem, PopMemResp, ReadL2Tr, ReadL2, MemDataResp, netVars
    <3>2. CASE \E k \in LCE : LceReq(k) \/ InvAck(k) \/ ReplaceWb(k) \/ TransferWb(k) \/ CohAck(k)
      BY <3>2 DEF LceReq, InvAck, ReplaceWb, TransferWb, CohAck
    <3> QED
      BY <1>6, <3>1, <3>2 DEF CceNext
  <2> QED
    BY <1>0, <2>1, WbDataFrame
<1> QED
  BY <1>2, <1>3, <1>4, <1>5, <1>6

\* gad latches the tag of the victim and the owner of the block; no step of the
\* engine changes either before it has used them.
LEMMA EngineTagsKnown ==
  ASSUME MeInv, MeInv', LruTag, TrTag, CceNext, UNCHANGED lceVars
  PROVE  LruTag' /\ TrTag'
<1>0. TypeInv /\ CoherenceInv /\ tags' = tags
  BY DEF MeInv, lceVars, arrays
<1>1. CASE InvMoves
  <2>1. InvPhase /\ UNCHANGED <<req, gad>>
    BY <1>0, <1>1, InvMovesFacts
  <2>2. dir'[req.lce][req.way].tag = dir[req.lce][req.way].tag
    <3>1. CASE InvSend
      BY <1>0, <3>1, MessageTypes, VictimTypes DEF InvSend, Wds
    <3>2. CASE ~InvSend
      BY <1>1, <3>2 DEF InvMoves, InvSkip, InvAck
    <3> QED
      BY <3>1, <3>2
  <2> QED
    BY <1>0, <2>1, <2>2 DEF LruTag, TrTag
<1>2. ASSUME NEW l \in LCE, LceReq(l) PROVE LruTag' /\ TrTag'
  <2> DEFINE q == [lce |-> l, tag |-> miss[l].tag, wr |-> miss[l].wr, way |-> miss[l].way,
                   dirty |-> miss[l].dirty]
             g == Gad(dir, q)
  <2>1. /\ req' = q /\ gad' = g /\ dir' = dir
        /\ g.tf => g.inv
        /\ g.inv => TagSetHit(dir, g.trLce, g.trWay, q.tag)
        /\ \A k \in LCE, w \in Way : dir[k][w].st # "I" => dir[k][w].tag = tags[k][w].tag
    BY <1>0, <1>2, RequestTaken
  <2>2. g.lruTag = dir[q.lce][q.way].tag
    BY DEF Gad
  <2>3. g.trLce \in LCE /\ g.trWay \in Way
    <3>1. gad' \in GadRegs
      BY DEF MeInv, TypeInv, TypeOK, CceTypeOK
    <3> QED
      BY <2>1, <3>1 DEF GadRegs
  <2> HIDE DEF q, g
  <2>4. g.tf => tags[g.trLce][g.trWay].tag = q.tag
    BY <2>1, <2>3 DEF TagSetHit
  <2> QED
    BY <1>0, <2>1, <2>2, <2>4 DEF LruTag, TrTag
<1>3. CASE MemMoves \/ WbMoves \/ SendMoves
  <2>1. UNCHANGED <<req, gad>> /\ ~InvPhase'
    BY <1>0, <1>3, OtherMovesFacts
  <2>2. pc' \in BeforeTransfer => pc \in BeforeTransfer
    BY <1>3 DEF MemMoves, WbMoves, SendMoves, MemResp, TransferMem, ReadL2Tr, ReadL2, ReplaceWb,
      TransferWb, Replace, Transfer, SendSetTag, BeforeTransfer
  <2>3. pc' \in {"replace", "replace_wb"} => pc = "replace" /\ dir' = dir
    BY <1>3 DEF MemMoves, WbMoves, SendMoves, MemResp, TransferMem, ReadL2Tr, ReadL2, ReplaceWb,
      TransferWb, Replace, Transfer, SendSetTag, TransferCheck, ctlVars
  <2> QED
    BY <1>0, <2>1, <2>2, <2>3 DEF LruTag, TrTag
<1>4. CASE MemDataResp \/ \E l \in LCE : CohAck(l)
  BY <1>4 DEF MemDataResp, CohAck, LruTag, TrTag, InvPhase, BeforeTransfer
<1> QED
  BY <1>1, <1>2, <1>3, <1>4 DEF CceNext, InvMoves, MemMoves, WbMoves, SendMoves

LEMMA EngineData ==
  ASSUME MeInv, MeInv', DataInv, CceNext, UNCHANGED <<lceVars, mem>>
  PROVE  CurrentKept /\ DataInv'
<1>1. CurrentKept
  BY EngineCurrent, WbTakenCurrent DEF MeInv
<1>2. tags' = tags /\ data' = data
  BY DEF lceVars, arrays
<1>3. \A l \in LCE, w \in Way : Landing(l, w) => Landing(l, w)'
  BY EngineLanding DEF MeInv
<1>4. ValidData'
  BY <1>1, <1>2, <1>3, ValidFrame DEF DataInv, Holds
<1> QED
  BY <1>1, <1>4, EngineFillData, EngineWbData, EngineTagsKnown DEF DataInv

\* The memory has no writeback left to do when it reads.
LEMMA MemData ==
  ASSUME MeInv, DataInv, MemWrite \/ MemRead
  PROVE  CurrentKept /\ DataInv'
<1>0. UNCHANGED <<pc, ctlVars, netVars, lceVars>>
  BY DEF MemWrite, MemRead
<1>1. CurrentKept
  BY MemCurrent DEF MeInv
<1>2. UNCHANGED <<req, gad, dir, lceResp, lceCmd, lceDataCmd, lceSt, dataRcv, cmdSt, buf, tags,
                  dirty, data>>
  BY <1>0 DEF ctlVars, netVars, lceVars, reqFsm, cmdFsm, arrays
<1>3. ValidData'
  BY <1>0, <1>1, <1>2, ValidFrame DEF DataInv, Holds, Landing, FillPhase
<1>4. (\A l \in LCE : WbData(l)') /\ LruTag' /\ TrTag'
  BY <1>0, <1>2 DEF DataInv, WbData, LruTag, TrTag, InvPhase
<1>5. FillData'
  <2>1. CASE MemWrite
    <3>1. pc \in {"mem_resp", "transfer_mem"}
      BY <2>1 DEF MemWrite, MeInv, CoherenceInv, EngineInv, MemWriteInv
    <3>2. \A l \in LCE : lceDataCmd[l] = <<>> /\ ~(lceSt[l] = "sleep" /\ dataRcv[l])
                         /\ lceSt[l] # "coh_ack"
      BY <3>1, FillKnown DEF FillsKnown, Filling
    <3> QED
      BY <1>0, <1>2, <3>1, <3>2 DEF FillData
  <2>2. CASE MemRead
    <3>1. memCmd = <<MemCmd>> /\ memDataResp = <<>> /\ mem' = mem
      BY <2>2 DEF MemRead, MeInv, CoherenceInv, EngineInv, MemReadInv
    <3>2. Head(memCmd) = MemCmd
      BY <3>1
    <3>3. memDataResp' = <<[data |-> mem[req.tag], cmd |-> MemCmd]>>
      <4>1. \A x : Append(<<>>, x) = <<x>>
        OBVIOUS
      <4>2. MemCmd.tag = req.tag
        BY DEF MemCmd
      <4> QED
        BY <2>2, <3>1, <3>2, <4>1, <4>2 DEF MemRead
    <3>4. Head(memDataResp').data = mem[req.tag]
      BY <3>3
    <3> QED
      BY <1>0, <1>2, <3>1, <3>4 DEF DataInv, FillData
  <2> QED
    BY <2>1, <2>2
<1> QED
  BY <1>1, <1>3, <1>4, <1>5 DEF DataInv

-----------------------------------------------------------------------------
(* The LCEs.                                                               *)

LEMMA LceTagsKnown ==
  ASSUME DataInv, UNCHANGED cceVars,
         \/ pc = "coh_ack"
         \/ tags'[gad.trLce][gad.trWay].tag = tags[gad.trLce][gad.trWay].tag
  PROVE  LruTag' /\ TrTag'
BY DEF DataInv, LruTag, TrTag, cceVars, ctlVars, InvPhase, BeforeTransfer

LEMMA AskData ==
  ASSUME MeInv, DataInv, UNCHANGED <<cceVars, mem>>, NEW l \in LCE,
         SendReq(l) \/ \E t \in Tag, wr \in BOOLEAN : Miss(l, t, wr)
  PROVE  CurrentKept /\ DataInv'
<1>0. UNCHANGED <<pc, req, gad, memDataCmd, memDataResp, lceResp, lceCmd, lceDataResp, lceDataCmd,
                  cmdSt, buf, tags, dirty, data>>
  BY DEF SendReq, Miss, cmdFsm, arrays, netVars, cceVars, ctlVars, memQVars
<1>1. CurrentKept
  BY <1>0, StillCurrent DEF WritingBack, Below
<1>2. ValidData'
  BY <1>0, <1>1, ValidFrame DEF DataInv, Holds, Landing, FillPhase
<1>3. \A k \in LCE : WbData(k)'
  BY <1>0 DEF DataInv, WbData
<1>4. \A k \in LCE : lceSt'[k] = "coh_ack" => lceSt[k] = "coh_ack" /\ dataRcv'[k] = dataRcv[k]
  <2>1. CASE SendReq(l)
    BY <2>1, MessageTypes DEF SendReq, MeInv
  <2>2. CASE \E t \in Tag, wr \in BOOLEAN : Miss(l, t, wr)
    BY <2>2, MessageTypes DEF Miss, MeInv
  <2> QED
    BY <2>1, <2>2
<1>5. \A k \in LCE : lceSt'[k] = "sleep" /\ dataRcv'[k] => lceSt[k] = "sleep" /\ dataRcv[k]
  <2> SUFFICES ASSUME NEW k \in LCE, lceSt'[k] = "sleep", dataRcv'[k]
               PROVE  lceSt[k] = "sleep" /\ dataRcv[k]
    OBVIOUS
  <2>1. CASE SendReq(l)
    <3>1. FillFits(l) /\ Waiting(l)
      BY <2>1 DEF SendReq, Waiting, MeInv, MessageInv
    <3> QED
      BY <2>1, <3>1, MessageTypes DEF SendReq, FillFits, MeInv
  <2>2. CASE \E t \in Tag, wr \in BOOLEAN : Miss(l, t, wr)
    BY <2>2, MessageTypes DEF Miss, MeInv
  <2> QED
    BY <2>1, <2>2
<1>6. FillData'
  BY <1>0, <1>4, <1>5 DEF DataInv, FillData
<1> QED
  BY <1>0, <1>1, <1>2, <1>3, <1>6, LceTagsKnown DEF DataInv

\* The block that memory sent is current: nobody has written it since.
LEMMA FillCurrent ==
  ASSUME MeInv, TrTag, pc = "coh_ack", lceResp[req.lce] = <<>>
  PROVE  Current(req.tag) = mem[req.tag]
<1>1. DirtyCopies(req.tag) = {}
  <2> SUFFICES ASSUME NEW k \in LCE, NEW v \in Way, dirty[k][v], tags[k][v].tag = req.tag
               PROVE  FALSE
    BY DEF DirtyCopies
  <2>1. ~TakenAway(k, v)
    BY DEF TakenAway, InvPhase
  <2>2. dir[k][v].st # "I" /\ dir[k][v].tag = req.tag
    BY <2>1, DirtyHome
  <2>3. k = req.lce /\ v = req.way
    BY <2>2 DEF MeInv, CoherenceInv, DirInv, OwnersInv
  <2> QED
    BY <2>3 DEF MeInv, VictimState, VictimInv, FillPhase
<1>2. Writers(req.tag) = {} /\ WritebacksInFlight(req.tag) = {}
  BY OneWriter DEF MeInv, Writers, WritebacksInFlight
<1>3. memDataCmd = <<>>
  BY DEF MeInv, CoherenceInv, EngineInv, MemWriteInv
<1> QED
  BY <1>1, <1>2, <1>3 DEF Current

LEMMA CohAckData ==
  ASSUME MeInv, DataInv, UNCHANGED <<cceVars, mem>>, NEW l \in LCE, SendCohAck(l)
  PROVE  CurrentKept /\ DataInv'
<1>0. UNCHANGED <<pc, req, gad, memDataCmd, memDataResp, lceCmd, lceDataResp, lceDataCmd, dataRcv,
                  cmdSt, buf, tags, dirty, data>>
      /\ lceSt[l] = "coh_ack" /\ lceSt' = [lceSt EXCEPT ![l] = "ready"]
  BY DEF SendCohAck, cmdFsm, arrays, cceVars, ctlVars, memQVars
<1>1. CurrentKept
  BY <1>0, StillCurrent DEF WritingBack, Below
<1>2. l = req.lce /\ lceResp[l] = <<>>
  BY <1>0, FillKnown DEF FillsKnown
<1>3. pc = "coh_ack" /\ TagWritten(l)
  <2>1. RequestInv(l)
    BY DEF MeInv, CoherenceInv, LceInv
  <2> QED
    BY <1>0, <2>1 DEF RequestInv, Unserved, Served, Finishing
<1>4. data[l][req.way] = Current(req.tag)
  BY <1>0, <1>2, <1>3, FillCurrent DEF DataInv, FillData
<1>5. ValidData'
  <2> SUFFICES ASSUME NEW k \in LCE, NEW w \in Way, NEW t \in Tag, Holds(k, w, t), Landing(k, w)
               PROVE  data[k][w] = Current(t)
    <3>1. \A k \in LCE : k # l => lceResp'[k] = lceResp[k]
      BY MessageTypes DEF SendCohAck, Send, MeInv
    <3>2. \A k \in LCE, w \in Way : Landing(k, w) \/ ~Landing(k, w)
      OBVIOUS
    <3> QED
      BY <1>0, <1>1, <3>2, ValidFrame DEF DataInv, Holds
  <2>1. k = l /\ w = req.way
    BY <1>2 DEF Landing
  <2>2. t = req.tag
    BY <1>3, <2>1 DEF Holds, TagWritten
  <2> QED
    BY <1>4, <2>1, <2>2
<1>6. \A k \in LCE : WbData(k)'
  BY <1>0 DEF DataInv, WbData
<1>7. FillData'
  BY <1>0, MessageTypes DEF DataInv, FillData, MeInv
<1> QED
  BY <1>0, <1>1, <1>5, <1>6, <1>7, LceTagsKnown DEF DataInv

LEMMA RecvDataData ==
  ASSUME MeInv, DataInv, UNCHANGED <<cceVars, mem>>, NEW l \in LCE, RecvData(l)
  PROVE  CurrentKept /\ DataInv'
<1> DEFINE m == Head(lceDataCmd[l])
<1>0. /\ UNCHANGED <<pc, req, gad, memDataCmd, memDataResp, lceResp, lceCmd, lceDataResp,
                     cmdSt, buf, tags, dirty>>
      /\ lceDataCmd[l] # <<>> /\ lceDataCmd' = Drop(lceDataCmd, l)
      /\ data' = [data EXCEPT ![l][m.way] = m.data]
      /\ dataRcv' = [dataRcv EXCEPT ![l] = @ \/ lceSt[l] = "sleep"]
      /\ lceSt' = [lceSt EXCEPT ![l] = Wakeup(l, TRUE, tagSet[l])]
  BY DEF RecvData, cmdFsm, cceVars, ctlVars, memQVars
<1>1. Filling /\ l = req.lce /\ lceResp[l] = <<>>
  BY <1>0, FillKnown DEF FillsKnown
<1>2. lceSt[l] = "sleep" /\ m.way = req.way /\ Tail(lceDataCmd[l]) = <<>>
  <2>1. FillFits(l)
    BY DEF MeInv, MessageInv
  <2>2. PICK c \in DataCmdMsg : lceDataCmd[l] = <<c>> /\ c.way = req.way
    BY <1>0, <2>1 DEF FillFits
  <2> QED
    BY <1>0, <2>1, <2>2 DEF FillFits
<1>3. m.data = mem[req.tag]
  BY <1>0 DEF DataInv, FillData
<1> HIDE DEF m
<1>4. req.way \in Way /\ \A k \in LCE, w \in Way :
        data'[k][w] = IF k = l /\ w = req.way THEN mem[req.tag] ELSE data[k][w]
  BY <1>0, <1>2, <1>3, MessageTypes, DataTypes DEF MeInv
<1>5. ~dirty[l][req.way]
  BY <1>1 DEF MeInv, VictimState, VictimInv, Filling, FillPhase
<1>6. CurrentKept
  BY <1>0, <1>4, <1>5, StillCurrent DEF WritingBack, Below
<1>7. Landing(l, req.way) /\ \A k \in LCE, w \in Way : Landing(k, w)' <=> Landing(k, w)
  BY <1>0, <1>1 DEF Landing, Filling, FillPhase
<1>8. ValidData'
  BY <1>0, <1>4, <1>6, <1>7, ValidFrame DEF DataInv, Holds
<1>9. \A k \in LCE : WbData(k)'
  <2>1. \A k \in LCE : cmdSt[k] = "ready"
    BY <1>1, OneWriter DEF Filling, MeInv
  <2> QED
    BY <1>0, <2>1 DEF DataInv, WbData
<1>10. FillData'
  <2>1. lceDataCmd'[l] = <<>> /\ dataRcv'[l]
    BY <1>0, <1>2, MessageTypes DEF Drop, MeInv
  <2>2. \A k \in LCE : k # l =>
          /\ lceDataCmd'[k] = lceDataCmd[k]
          /\ dataRcv'[k] = dataRcv[k] /\ lceSt'[k] = lceSt[k]
    BY <1>0, MessageTypes DEF Drop, MeInv
  <2>3. pc # "mem_data_resp"
    BY <1>1 DEF Filling
  <2>4. ASSUME NEW k \in LCE
        PROVE  /\ lceDataCmd'[k] # <<>> => Head(lceDataCmd'[k]).data = mem[req.tag]
               /\ lceSt'[k] \in {"sleep", "coh_ack"} /\ dataRcv'[k] => data'[k][req.way] = mem[req.tag]
               /\ lceSt'[k] = "coh_ack" => dataRcv'[k]
    <3>1. CASE k = l
      BY <1>4, <2>1, <3>1
    <3>2. CASE k # l
      BY <1>4, <2>2, <3>2 DEF DataInv, FillData
    <3> QED
      BY <3>1, <3>2
  <2> QED
    BY <1>0, <2>3, <2>4 DEF FillData
<1> QED
  BY <1>0, <1>6, <1>8, <1>9, <1>10, LceTagsKnown DEF DataInv

LEMMA SetTagData ==
  ASSUME MeInv, DataInv, UNCHANGED <<cceVars, mem>>, NEW l \in LCE, SetTag(l)
  PROVE  CurrentKept /\ DataInv'
<1>0. /\ UNCHANGED <<pc, req, gad, memDataCmd, memDataResp, lceResp, lceDataResp, lceDataCmd,
                     dataRcv, cmdSt, buf, dirty, data>>
      /\ cmdSt[l] = "ready" /\ lceCmd[l] # <<>> /\ Head(lceCmd[l]).type = "ST"
      /\ lceCmd' = Drop(lceCmd, l)
      /\ tags' = [tags EXCEPT ![l][Head(lceCmd[l]).way] =
                    [tag |-> Head(lceCmd[l]).tag, st |-> Head(lceCmd[l]).st]]
      /\ lceSt' = [lceSt EXCEPT ![l] = Wakeup(l, dataRcv[l], TRUE)]
  BY DEF SetTag, Commanded, cmdFsm, cceVars, ctlVars, memQVars
<1>1. /\ pc = "coh_ack" /\ l = req.lce /\ Head(lceCmd[l]) = SetTagMsg /\ lceResp[l] = <<>>
      /\ Tail(lceCmd[l]) = <<>>
  <2>1. CommandInv(l)
    BY DEF MeInv, CoherenceInv, LceInv
  <2>2. PICK m \in CmdMsg : lceCmd[l] = <<m>> /\ MayHold(l, m) /\ lceResp[l] = <<>>
    BY <1>0, <2>1 DEF CommandInv
  <2>3. Head(lceCmd[l]) = m /\ Tail(lceCmd[l]) = <<>>
    BY <2>2
  <2> QED
    BY <1>0, <2>2, <2>3 DEF MayHold, InvMsg
<1>2. req.way \in Way /\ \A k \in LCE, w \in Way :
        tags'[k][w] = IF k = l /\ w = req.way THEN [tag |-> req.tag, st |-> "E"] ELSE tags[k][w]
  <2> DEFINE m == Head(lceCmd[l])
  <2>1. m.way = req.way /\ m.tag = req.tag /\ m.st = "E"
    BY <1>1 DEF SetTagMsg
  <2>2. tags' = [tags EXCEPT ![l][m.way] = [tag |-> m.tag, st |-> m.st]]
    BY <1>0
  <2> HIDE DEF m
  <2> QED
    BY <2>1, <2>2, MessageTypes, DataTypes DEF MeInv
<1>3. ~dirty[l][req.way]
  BY <1>1 DEF MeInv, VictimState, VictimInv, FillPhase
<1>4. \A k \in LCE : cmdSt[k] = "ready"
  BY <1>1, OneWriter DEF MeInv
<1>5. CurrentKept
  BY <1>0, <1>2, <1>3, <1>4, StillCurrent DEF WritingBack, Below
<1>6. Landing(l, req.way) /\ \A k \in LCE, w \in Way : Landing(k, w)' <=> Landing(k, w)
  BY <1>0, <1>1 DEF Landing, FillPhase
<1>7. ValidData'
  BY <1>0, <1>2, <1>5, <1>6, ValidFrame DEF DataInv, Holds
<1>8. \A k \in LCE : WbData(k)'
  <2>1. lceCmd'[l] = <<>> /\ \A k \in LCE : k # l => lceCmd'[k] = lceCmd[k] /\ tags'[k] = tags[k]
    BY <1>0, <1>1, MessageTypes, DataTypes DEF Drop, MeInv
  <2> QED
    BY <1>0, <1>4, <2>1 DEF DataInv, WbData
<1>9. FillData'
  <2>1. \A k \in LCE :
          /\ lceSt'[k] \in {"sleep", "coh_ack"} => lceSt[k] \in {"sleep", "coh_ack"}
          /\ lceSt'[k] = "coh_ack" => dataRcv[k]
    BY <1>0, MessageTypes DEF Wakeup, DataInv, FillData, MeInv
  <2> QED
    BY <1>0, <1>1, <2>1 DEF DataInv, FillData
<1> QED
  BY <1>0, <1>1, <1>5, <1>7, <1>8, <1>9, LceTagsKnown DEF DataInv

LEMMA HeadWay ==
  ASSUME TypeInv, NEW k \in LCE, lceCmd[k] # <<>>
  PROVE  Head(lceCmd[k]).way \in Way
<1>1. lceCmd[k] \in Seq(CmdMsg)
  BY MessageTypes
<1>2. Head(lceCmd[k]) \in CmdMsg
  BY <1>1
<1> QED
  BY <1>2 DEF CmdMsg

LEMMA InvTagData ==
  ASSUME MeInv, DataInv, UNCHANGED <<cceVars, mem>>, NEW l \in LCE, InvTag(l)
  PROVE  CurrentKept /\ DataInv'
<1>0. UNCHANGED <<pc, req, gad, memDataCmd, memDataResp, lceResp, lceDataResp, lceDataCmd, lceCmd,
                  lceSt, dataRcv, cmdSt, buf, dirty, data>>
  BY DEF InvTag, reqFsm, netVars, cceVars, ctlVars, memQVars
<1>1. \A k \in LCE, w \in Way :
        /\ tags'[k][w].tag = tags[k][w].tag
        /\ tags'[k][w].st # "I" => tags[k][w].st # "I"
  BY MessageTypes, DataTypes DEF InvTag, MeInv
<1>2. CurrentKept
  BY <1>0, <1>1, StillCurrent DEF WritingBack, Below
<1>3. ValidData'
  BY <1>0, <1>1, <1>2, ValidFrame DEF DataInv, Holds, Landing, FillPhase
<1>4. FillData'
  BY <1>0 DEF DataInv, FillData
<1>5. \A k \in LCE : WbData(k)'
  <2> SUFFICES ASSUME NEW k \in LCE PROVE WbData(k)'
    OBVIOUS
  <2>1. lceCmd[k] # <<>> => Head(lceCmd[k]).way \in Way
    BY HeadWay DEF MeInv
  <2> QED
    BY <1>0, <1>1, <2>1 DEF DataInv, WbData
<1>6. gad.trLce \in LCE /\ gad.trWay \in Way
  BY MessageTypes DEF MeInv
<1> QED
  BY <1>1, <1>2, <1>3, <1>4, <1>5, <1>6, LceTagsKnown DEF DataInv

LEMMA InvAckData ==
  ASSUME MeInv, DataInv, UNCHANGED <<cceVars, mem>>, NEW l \in LCE, SendInvAck(l)
  PROVE  CurrentKept /\ DataInv'
<1>0. /\ UNCHANGED <<pc, req, gad, memDataCmd, memDataResp, lceDataResp, lceDataCmd, lceSt,
                     dataRcv, cmdSt, buf, tags, dirty, data>>
      /\ cmdSt[l] = "ready" /\ lceCmd[l] # <<>> /\ Head(lceCmd[l]).type = "INV"
      /\ lceCmd' = Drop(lceCmd, l)
  BY DEF SendInvAck, Commanded, reqFsm, arrays, cceVars, ctlVars, memQVars
<1>1. InvPhase /\ Tail(lceCmd[l]) = <<>>
  <2>1. CommandInv(l)
    BY DEF MeInv, CoherenceInv, LceInv
  <2>2. PICK m \in CmdMsg : lceCmd[l] = <<m>> /\ MayHold(l, m)
    BY <1>0, <2>1 DEF CommandInv
  <2>3. Head(lceCmd[l]) = m /\ Tail(lceCmd[l]) = <<>>
    BY <2>2
  <2> QED
    BY <1>0, <2>2, <2>3 DEF MayHold, SetTagMsg
<1>2. lceCmd'[l] = <<>> /\ \A k \in LCE : k # l => lceCmd'[k] = lceCmd[k]
  BY <1>0, <1>1, MessageTypes DEF Drop, MeInv
<1>3. CurrentKept
  BY <1>0, <1>2, StillCurrent DEF WritingBack, Below
<1>4. ValidData'
  BY <1>0, <1>1, <1>3, ValidFrame DEF DataInv, Holds, Landing, FillPhase, InvPhase
<1>5. FillData' /\ \A k \in LCE : WbData(k)'
  BY <1>0, <1>2 DEF DataInv, FillData, WbData
<1> QED
  BY <1>0, <1>3, <1>4, <1>5, LceTagsKnown DEF DataInv

\* What the steps of a writeback leave alone.
LEMMA WbFrame ==
  ASSUME MeInv, DataInv, CurrentKept, UNCHANGED <<cceVars, mem, reqFsm, tags, data>>,
         UNCHANGED <<lceReq, lceResp, lceDataCmd>>
  PROVE  ValidData' /\ FillData' /\ LruTag' /\ TrTag'
<1>0. UNCHANGED <<pc, req, memDataResp, lceSt, dataRcv>>
  BY DEF reqFsm, cceVars, ctlVars, memQVars
<1>1. ValidData'
  BY <1>0, ValidFrame DEF DataInv, Holds, Landing, FillPhase
<1>2. FillData'
  BY <1>0 DEF DataInv, FillData
<1> QED
  BY <1>1, <1>2, LceTagsKnown

LEMMA WbCheckData ==
  ASSUME MeInv, DataInv, UNCHANGED <<cceVars, mem>>, NEW l \in LCE, WbCheck(l)
  PROVE  CurrentKept /\ DataInv'
<1>0. /\ UNCHANGED <<memDataCmd, lceReq, lceResp, lceDataResp, lceDataCmd, lceCmd, reqFsm, buf,
                     tags, dirty, data>>
      /\ cmdSt[l] = "ready"
      /\ cmdSt' = [cmdSt EXCEPT ![l] = IF l \notin ICache /\ dirty[l][Head(lceCmd[l]).way]
                                       THEN "wb_dirty" ELSE "wb_not_dirty"]
  BY DEF WbCheck, Commanded, netVars, arrays, cceVars, memQVars
<1>1. CurrentKept
  <2>1. \A k \in LCE : WritingBack(k)' <=> WritingBack(k)
    BY <1>0, MessageTypes DEF WritingBack, MeInv
  <2> QED
    BY <1>0, <2>1, StillCurrent DEF Below
<1>2. \A k \in LCE : WbData(k)'
  BY <1>0, MessageTypes DEF DataInv, WbData, MeInv
<1> QED
  BY <1>0, <1>1, <1>2, WbFrame DEF DataInv

\* A dirty way is read and stays the home of its block until it is clean.
LEMMA WbReadData ==
  ASSUME MeInv, DataInv, UNCHANGED <<cceVars, mem>>, NEW l \in LCE, WbRead(l)
  PROVE  CurrentKept /\ DataInv'
<1> DEFINE m == Head(lceCmd[l])
<1>0. /\ UNCHANGED <<memDataCmd, lceReq, lceResp, lceDataResp, lceDataCmd, lceCmd, reqFsm,
                     tags, dirty, data>>
      /\ cmdSt[l] = "wb_dirty" /\ cmdSt' = [cmdSt EXCEPT ![l] = "wb_read"]
      /\ buf' = [buf EXCEPT ![l] = data[l][m.way]]
  BY DEF WbRead, netVars, arrays, cceVars, memQVars
<1>1. dirty[l][m.way] /\ lceCmd[l] # <<>> /\ m.type = "WB" /\ tags[l][m.way].tag = m.tag
  BY <1>0, OneWriter DEF DataInv, WbData, MeInv
<1>2. m.way \in Way
  BY <1>1, WritebackOf, MessageTypes DEF MeInv
<1> HIDE DEF m
<1>3. /\ cmdSt'[l] = "wb_read" /\ buf'[l] = data[l][m.way]
      /\ \A k \in LCE : k # l => cmdSt'[k] = cmdSt[k] /\ buf'[k] = buf[k]
  BY <1>0, MessageTypes, DataTypes DEF MeInv
<1>4. ASSUME NEW t \in Tag PROVE Current(t)' = Current(t)
  <2>1. DirtyCopies(t)' = DirtyCopies(t)
    BY <1>0 DEF DirtyCopies
  <2>2. CASE DirtyCopies(t) # {}
    BY <1>0, <2>1, <2>2 DEF Current
  <2>3. CASE DirtyCopies(t) = {}
    <3>1. m.tag # t
      <4>1. m.tag = t => <<l, m.way>> \in DirtyCopies(t)
        BY <1>1, <1>2 DEF DirtyCopies
      <4> QED
        BY <2>3, <4>1
    <3>2. \A k \in LCE : k \in Writers(t)' <=> k \in Writers(t)
      BY <1>0, <1>3, <3>1 DEF Writers, m
    <3>3. \A k \in Writers(t) : k \in LCE /\ k # l
      BY <1>0 DEF Writers
    <3>4. Writers(t)' = Writers(t)
      BY <3>2 DEF Writers
    <3>5. WritebacksInFlight(t)' = WritebacksInFlight(t) /\ Below(t)' = Below(t)
      BY <1>0 DEF WritebacksInFlight, Below
    <3> QED
      BY <1>0, <1>3, <2>1, <3>3, <3>4, <3>5, CurrentFrame
  <2> QED
    BY <2>2, <2>3
<1>5. \A k \in LCE : WbData(k)'
  BY <1>0, <1>1, <1>3 DEF DataInv, WbData, m
<1> QED
  BY <1>0, <1>4, <1>5, WbFrame DEF DataInv, CurrentKept

\* When the dirty bit is cleared, the buffer holds the block.
LEMMA WbClearData ==
  ASSUME MeInv, DataInv, UNCHANGED <<cceVars, mem>>, NEW l \in LCE, WbClear(l)
  PROVE  CurrentKept /\ DataInv'
<1> DEFINE m == Head(lceCmd[l])
<1>0. /\ UNCHANGED <<memDataCmd, lceReq, lceResp, lceDataResp, lceDataCmd, lceCmd, reqFsm, buf,
                     tags, data>>
      /\ cmdSt[l] = "wb_read" /\ cmdSt' = [cmdSt EXCEPT ![l] = "wb_cleared"]
      /\ dirty' = [dirty EXCEPT ![l][m.way] = FALSE]
  BY DEF WbClear, netVars, cceVars, memQVars
<1>1. /\ dirty[l][m.way] /\ lceCmd[l] # <<>> /\ m.type = "WB" /\ tags[l][m.way].tag = m.tag
      /\ buf[l] = data[l][m.way]
  BY <1>0, OneWriter DEF DataInv, WbData, MeInv
<1>2. m.way \in Way
  BY <1>1, WritebackOf, MessageTypes DEF MeInv
<1> HIDE DEF m
<1>3. \A k \in LCE, w \in Way :
        dirty'[k][w] <=> dirty[k][w] /\ ~(k = l /\ w = m.way)
  BY <1>0, <1>2, DataTypes DEF MeInv
<1>4. cmdSt'[l] = "wb_cleared" /\ \A k \in LCE : k # l => cmdSt'[k] = cmdSt[k]
  BY <1>0, MessageTypes DEF MeInv
<1>5. ASSUME NEW t \in Tag PROVE Current(t)' = Current(t)
  <2>1. Writers(t)' = Writers(t)
    BY <1>0, <1>4 DEF Writers
  <2>2. CASE m.tag = t
    <3>1. DirtyCopies(t)' = {}
      <4> SUFFICES ASSUME NEW k \in LCE, NEW w \in Way, dirty'[k][w], tags'[k][w].tag = t
                   PROVE  FALSE
        BY DEF DirtyCopies
      <4>1. dirty[k][w] /\ ~(k = l /\ w = m.way) /\ tags[k][w].tag = t
        BY <1>0, <1>3
      <4> QED
        BY <1>1, <1>2, <2>2, <4>1, DirtyUnique DEF DataInv
    <3>2. l \in Writers(t) /\ \A k \in Writers(t) : k = l
      <4>1. l \in Writers(t)
        BY <1>0, <2>2 DEF Writers, m
      <4>2. ASSUME NEW k \in LCE, cmdSt[k] # "ready" PROVE k = l
        BY <1>0, <4>2, OneWriter DEF MeInv
      <4> QED
        BY <4>1, <4>2 DEF Writers
    <3>3. Current(t)' = buf[l]
      BY <1>0, <2>1, <3>1, <3>2 DEF Current
    <3>4. Current(t) = data[l][m.way]
      BY <1>1, <1>2, <2>2, DirtyIsCurrent DEF DataInv, DirtyCurrent
    <3> QED
      BY <1>1, <3>3, <3>4
  <2>3. CASE m.tag # t
    <3>1. DirtyCopies(t)' = DirtyCopies(t)
      BY <1>0, <1>1, <1>3, <2>3 DEF DirtyCopies
    <3>2. WritebacksInFlight(t)' = WritebacksInFlight(t) /\ Below(t)' = Below(t)
      BY <1>0 DEF WritebacksInFlight, Below
    <3> QED
      BY <1>0, <2>1, <3>1, <3>2, CurrentFrame
  <2> QED
    BY <2>2, <2>3
<1>6. \A k \in LCE : WbData(k)'
  <2> SUFFICES ASSUME NEW k \in LCE PROVE WbData(k)'
    OBVIOUS
  <2>1. CASE k = l
    BY <1>0, <1>1, <1>2, <1>3, <1>4, <2>1 DEF WbData, m
  <2>2. CASE k # l
    <3>1. lceCmd[k] # <<>> => Head(lceCmd[k]).way \in Way
      BY HeadWay DEF MeInv
    <3>2. cmdSt[k] = "ready"
      BY <1>0, <2>2, OneWriter DEF MeInv
    <3> QED
      BY <1>0, <1>3, <1>4, <2>2, <3>1, <3>2 DEF DataInv, WbData
  <2> QED
    BY <2>1, <2>2
<1> QED
  BY <1>0, <1>5, <1>6, WbFrame DEF DataInv, CurrentKept

LEMMA WbSentData ==
  ASSUME MeInv, DataInv, UNCHANGED <<cceVars, mem>>, NEW l \in LCE, SendWb(l) \/ SendNullWb(l)
  PROVE  CurrentKept /\ DataInv'
<1> DEFINE c == Head(lceCmd[l])
           m == [type |-> IF SendWb(l) THEN "wb" ELSE "null_wb",
                 data |-> IF SendWb(l) THEN buf[l] ELSE Zero, tag |-> c.tag]
<1>0. /\ UNCHANGED <<memDataCmd, lceReq, lceResp, lceDataCmd, reqFsm, buf, tags, dirty, data>>
      /\ cmdSt[l] = IF SendWb(l) THEN "wb_cleared" ELSE "wb_not_dirty"
      /\ cmdSt' = [cmdSt EXCEPT ![l] = "ready"]
      /\ lceCmd' = Drop(lceCmd, l) /\ lceDataResp' = Send(lceDataResp, l, m)
  BY DEF SendWb, SendNullWb, arrays, cceVars, memQVars
<1>1. \A k \in LCE : k # l => lceDataResp[k] = <<>> /\ cmdSt[k] = "ready"
  BY <1>0, OneWriter DEF MeInv
<1>2. PICK x \in CmdMsg : lceCmd[l] = <<x>> /\ lceDataResp[l] = <<>>
  <2>1. CommandInv(l)
    BY DEF MeInv, CoherenceInv, LceInv
  <2> QED
    BY <1>0, <2>1 DEF CommandInv
<1>3. m.type = (IF SendWb(l) THEN "wb" ELSE "null_wb") /\ (SendWb(l) => m.data = buf[l])
      /\ m.tag = c.tag
  OBVIOUS
<1> HIDE DEF m, c
<1>4. /\ cmdSt'[l] = "ready" /\ lceCmd'[l] = <<>> /\ lceDataResp'[l] = <<m>>
      /\ \A k \in LCE : k # l => /\ cmdSt'[k] = cmdSt[k] /\ lceCmd'[k] = lceCmd[k]
                                 /\ lceDataResp'[k] = lceDataResp[k]
  <2>1. Append(<<>>, m) = <<m>> /\ Tail(<<x>>) = <<>>
    OBVIOUS
  <2> QED
    BY <1>0, <1>2, <2>1, MessageTypes DEF Drop, Send, MeInv
<1>5. ASSUME NEW t \in Tag PROVE Current(t)' = Current(t)
  <2>1. DirtyCopies(t)' = DirtyCopies(t) /\ Writers(t)' = {} /\ WritebacksInFlight(t) = {}
    BY <1>0, <1>1, <1>2, <1>4 DEF DirtyCopies, Writers, WritebacksInFlight
  <2>2. Writers(t) = IF SendWb(l) /\ c.tag = t THEN {l} ELSE {}
    BY <1>0, <1>1 DEF Writers, c
  <2>3. WritebacksInFlight(t)' = IF SendWb(l) /\ c.tag = t THEN {l} ELSE {}
    <3>1. Head(<<m>>) = m
      OBVIOUS
    <3> QED
      BY <1>1, <1>3, <1>4, <3>1 DEF WritebacksInFlight
  <2>4. CASE DirtyCopies(t) # {}
    BY <1>0, <2>1, <2>4 DEF Current
  <2>5. CASE DirtyCopies(t) = {} /\ SendWb(l) /\ c.tag = t
    <3>1. (CHOOSE k \in Writers(t) : TRUE) = l /\ (CHOOSE k \in WritebacksInFlight(t)' : TRUE) = l
      BY <2>2, <2>3, <2>5
    <3>2. Current(t) = buf[l]
      BY <2>2, <2>5, <3>1 DEF Current
    <3>3. Current(t)' = m.data
      BY <1>4, <2>1, <2>3, <2>5, <3>1 DEF Current
    <3> QED
      BY <1>3, <2>5, <3>2, <3>3
  <2>6. CASE DirtyCopies(t) = {} /\ ~(SendWb(l) /\ c.tag = t)
    BY <1>0, <2>1, <2>2, <2>3, <2>6 DEF Current
  <2> QED
    BY <2>4, <2>5, <2>6
<1>6. \A k \in LCE : WbData(k)'
  BY <1>0, <1>1, <1>4 DEF DataInv, WbData
<1> QED
  BY <1>0, <1>5, <1>6, WbFrame DEF DataInv, CurrentKept

\* A store finds no writeback of its way under way.
LEMMA StoreWay ==
  ASSUME MeInv, NEW l \in LCE, NEW w \in Way, lceSt[l] = "ready", tags[l][w].st # "I",
         lceCmd[l] # <<>>, Head(lceCmd[l]).type = "WB"
  PROVE  Head(lceCmd[l]).way # w
<1>1. RequestInv(l) /\ TypeInv /\ CoherenceInv /\ MessageInv
  BY DEF MeInv, CoherenceInv, LceInv
<1>2. \/ pc = "replace_wb" /\ l = req.lce
      \/ pc = "transfer_wb" /\ l = gad.trLce /\ Head(lceCmd[l]).way = gad.trWay
  BY <1>1, WritebackOf
<1>3. pc = "transfer_wb"
  BY <1>1, <1>2 DEF RequestInv, Served
<1>4. gad.trLce # req.lce /\ dir[gad.trLce][gad.trWay].st = "I"
  BY <1>3 DEF MeInv, VictimState, TransferInv, BeforeTransfer
<1>5. dir[l][w].st # "I"
  BY <1>1, <1>2, <1>3, <1>4 DEF CoherenceInv, DirInv, DirectoryAccurate, FillUnderWay, InvUnderWay
<1> QED
  BY <1>2, <1>3, <1>4, <1>5

\* A store changes the contents of its block and of no other.
LEMMA StoreData ==
  ASSUME MeInv, MeInv', DataInv, UNCHANGED <<cceVars, mem>>, NEW l \in LCE, NEW t \in Tag,
         NEW v \in Value, Store(l, t, v)
  PROVE  /\ Current(t)' = v
         /\ \A u \in Tag : u # t => Current(u)' = Current(u)
         /\ DataInv'
<1>0. /\ UNCHANGED <<pc, req, gad, memDataCmd, memDataResp, lceResp, lceCmd, lceDataResp, lceDataCmd,
                     lceSt, dataRcv, cmdSt, buf, tags>>
      /\ lceSt[l] = "ready"
  BY DEF Store, reqFsm, cmdFsm, netVars, cceVars, ctlVars, memQVars
<1>1. PICK w \in Way : /\ tags[l][w] = [tag |-> t, st |-> "E"]
                       /\ dirty' = [dirty EXCEPT ![l][w] = TRUE]
                       /\ data' = [data EXCEPT ![l][w] = v]
  BY DEF Store
<1>2. tags[l][w].tag = t /\ tags[l][w].st # "I"
  BY <1>1
<1>3. \A k \in LCE, x \in Way :
        /\ dirty'[k][x] <=> dirty[k][x] \/ (k = l /\ x = w)
        /\ data'[k][x] = IF k = l /\ x = w THEN v ELSE data[k][x]
  BY <1>1, DataTypes DEF MeInv
<1>4. LruTag' /\ TrTag'
  BY <1>0, LceTagsKnown
<1>5. Current(t)' = v
  <2>1. dirty'[l][w] /\ tags'[l][w].tag = t /\ data'[l][w] = v
    BY <1>0, <1>2, <1>3
  <2> QED
    BY <1>4, <2>1, DirtyIsCurrentNext DEF DirtyCurrent
<1>6. ASSUME NEW u \in Tag, u # t PROVE Current(u)' = Current(u)
  <2>1. DirtyCopies(u)' = DirtyCopies(u)
    BY <1>0, <1>2, <1>3, <1>6 DEF DirtyCopies
  <2>2. \A x \in DirtyCopies(u) : data'[x[1]][x[2]] = data[x[1]][x[2]]
    BY <1>2, <1>3, <1>6 DEF DirtyCopies
  <2>3. /\ Writers(u)' = Writers(u) /\ WritebacksInFlight(u)' = WritebacksInFlight(u)
        /\ Below(u)' = Below(u)
    BY <1>0 DEF Writers, WritebacksInFlight, Below
  <2> QED
    BY <1>0, <2>1, <2>2, <2>3, CurrentFrame
<1>7. ValidData'
  <2> SUFFICES ASSUME NEW k \in LCE, NEW x \in Way, NEW u \in Tag, Holds(k, x, u), ~Landing(k, x)
               PROVE  data'[k][x] = Current(u)'
    BY <1>0 DEF ValidData, Holds, Landing, FillPhase
  <2>1. CASE u = t
    <3>1. k = l /\ x = w
      BY <1>2, <2>1 DEF Holds, MeInv, CoherenceInv, SingleCopy
    <3> QED
      BY <1>3, <1>5, <2>1, <3>1
  <2>2. CASE u # t
    BY <1>2, <1>3, <1>6, <2>2 DEF Holds, DataInv, ValidData
  <2> QED
    BY <2>1, <2>2
<1>8. FillData'
  <2>1. req.way \in Way
    BY MessageTypes DEF MeInv
  <2> QED
    BY <1>0, <1>3, <2>1 DEF DataInv, FillData
<1>9. \A k \in LCE : WbData(k)'
  <2> SUFFICES ASSUME NEW k \in LCE PROVE WbData(k)'
    OBVIOUS
  <2> DEFINE m == Head(lceCmd[k])
  <2>1. cmdSt[k] # "ready" => lceCmd[k] # <<>> /\ m.type = "WB"
    BY OneWriter DEF MeInv
  <2>2. CASE lceCmd[k] # <<>> /\ m.type = "WB"
    <3>1. m.way \in Way /\ ~(k = l /\ m.way = w)
      BY <1>0, <1>2, <2>2, StoreWay, HeadWay DEF MeInv
    <3> QED
      BY <1>0, <1>3, <2>2, <3>1 DEF DataInv, WbData
  <2>3. CASE ~(lceCmd[k] # <<>> /\ m.type = "WB")
    BY <1>0, <2>1, <2>3 DEF WbData
  <2> QED
    BY <2>2, <2>3
<1> QED
  BY <1>4, <1>5, <1>6, <1>7, <1>8, <1>9 DEF DataInv

LEMMA LceData ==
  ASSUME MeInv, DataInv, UNCHANGED <<cceVars, mem>>, NEW l \in LCE,
         LceStep(l) \/ \E t \in Tag, wr \in BOOLEAN : Miss(l, t, wr)
  PROVE  CurrentKept /\ DataInv'
BY AskData, CohAckData, RecvDataData, SetTagData, InvTagData, InvAckData, WbCheckData, WbReadData,
   WbClearData, WbSentData
   DEF LceStep

-----------------------------------------------------------------------------
(* The refinement.                                                         *)

Hits(l) == IF lceSt[l] = "ready" THEN {t \in Tag : LoadHit(l, t)} ELSE {}

\* Every block that a cache would load is current, and no other cache would.
ViewsCurrent ==
  /\ \A l \in LCE : View(l) = [t \in Hits(l) |-> Current(t)]
  /\ \A k, l \in LCE : k # l => Hits(k) \cap Hits(l) = {}

LEMMA ViewsAreCurrent == MeInv /\ DataInv => ViewsCurrent
<1> SUFFICES ASSUME MeInv, DataInv PROVE ViewsCurrent
  OBVIOUS
<1>1. ASSUME NEW l \in LCE PROVE View(l) = [t \in Hits(l) |-> Current(t)]
  <2> DEFINE way(t) == CHOOSE w \in Way : tags[l][w].tag = t /\ tags[l][w].st # "I"
  <2>1. ASSUME NEW t \in Hits(l) PROVE data[l][way(t)] = Current(t)
    <3>1. t \in Tag /\ lceSt[l] = "ready" /\ LoadHit(l, t)
      BY <2>1 DEF Hits
    <3>2. way(t) \in Way /\ Holds(l, way(t), t)
      BY <3>1 DEF LoadHit, Holds
    <3>3. ~Landing(l, way(t))
      BY <3>1, <3>2, LandingClosed
    <3> QED
      BY <3>1, <3>2, <3>3 DEF DataInv, ValidData
  <2>2. View(l) = [t \in Hits(l) |-> data[l][way(t)]]
    BY DEF View, Hits
  <2> HIDE DEF way
  <2> QED
    BY <2>1, <2>2
<1>2. ASSUME NEW k \in LCE, NEW l \in LCE, k # l PROVE Hits(k) \cap Hits(l) = {}
  BY <1>2 DEF Hits, LoadHit, MeInv, CoherenceInv, SingleCopy
<1> QED
  BY <1>1, <1>2 DEF ViewsCurrent

LEMMA ViewsAreCurrentNext == (MeInv /\ DataInv)' => ViewsCurrent'
BY ViewsAreCurrent, PTL

memory == [t \in Tag |-> Current(t)]
view == [l \in LCE |-> View(l)]

\* A step that keeps the contents of every block changes at most what one cache
\* is permitted to use.
LEMMA PermitStep ==
  ASSUME ViewsCurrent, ViewsCurrent', CurrentKept, NEW l \in LCE,
         \A k \in LCE : k # l => Hits(k)' = Hits(k)
  PROVE  Atomic!Next
<1> DEFINE B == Hits(l)'
<1>1. B \in SUBSET Tag
  BY DEF Hits
<1>2. UNCHANGED memory
  BY DEF memory, CurrentKept
<1>3. \A k \in LCE : DOMAIN view[k] = Hits(k) /\ view[k] = [t \in Hits(k) |-> memory[t]]
  <2>1. \A k \in LCE : Hits(k) \subseteq Tag
    BY DEF Hits
  <2> QED
    BY <2>1 DEF ViewsCurrent, view, memory
<1>4. view' = [view EXCEPT ![l] = [b \in B |-> memory[b]]]
  <2>1. \A k \in LCE : view'[k] = [t \in Hits(k)' |-> Current(t)']
    BY DEF ViewsCurrent, view
  <2>2. \A k \in LCE : \A t \in Hits(k)' : Current(t)' = memory[t]
    BY DEF Hits, CurrentKept, memory
  <2>3. \A k \in LCE : view'[k] = [t \in Hits(k)' |-> memory[t]]
    BY <2>1, <2>2
  <2>4. \A k \in LCE : k # l => view'[k] = view[k]
    BY <1>3, <2>3
  <2>5. view'[l] = [b \in B |-> memory[b]]
    BY <2>3
  <2> HIDE DEF B
  <2> QED
    BY <2>4, <2>5 DEF view
<1>5. B \cap UNION {DOMAIN view[k] : k \in LCE \ {l}} = {}
  <2>1. \A k \in LCE \ {l} : B \cap DOMAIN view[k] = {}
    BY <1>3 DEF ViewsCurrent
  <2> QED
    BY <2>1
<1> HIDE DEF B
<1>6. Atomic!Permit(l, B)
  BY <1>2, <1>4, <1>5 DEF Atomic!Permit, Atomic!Others, memory, view
<1> QED
  BY <1>1, <1>6 DEF Atomic!Next

LEMMA WriteStep ==
  ASSUME ViewsCurrent, ViewsCurrent', NEW l \in LCE, NEW t \in Tag, NEW v \in Value,
         l \notin ICache, t \in Hits(l), \A k \in LCE : Hits(k)' = Hits(k),
         Current(t)' = v, \A u \in Tag : u # t => Current(u)' = Current(u)
  PROVE  Atomic!Next
<1>1. memory' = [memory EXCEPT ![t] = v]
  BY DEF memory
<1>2. \A k \in LCE : view[k] = [u \in Hits(k) |-> Current(u)]
                     /\ view'[k] = [u \in Hits(k) |-> Current(u)']
  BY DEF ViewsCurrent, view
<1>3. \A k \in LCE : Hits(k) \subseteq Tag /\ (k # l => t \notin Hits(k))
  BY DEF Hits, ViewsCurrent
<1>4. ASSUME NEW k \in LCE, k # l PROVE view'[k] = view[k]
  <2>1. \A u \in Hits(k) : Current(u)' = Current(u)
    BY <1>3, <1>4
  <2> QED
    BY <1>2, <2>1
<1>5. view'[l] = [view[l] EXCEPT ![t] = v]
  <2>1. \A u \in Hits(l) : Current(u)' = IF u = t THEN v ELSE Current(u)
    BY <1>3
  <2>2. [view[l] EXCEPT ![t] = v] = [u \in Hits(l) |-> IF u = t THEN v ELSE Current(u)]
    BY <1>2
  <2> QED
    BY <1>2, <2>1, <2>2
<1>6. view' = [view EXCEPT ![l][t] = v]
  BY <1>4, <1>5 DEF view
<1>7. t \in DOMAIN view[l]
  BY <1>2
<1>8. Atomic!Write(l, t, v)
  BY <1>1, <1>6, <1>7 DEF Atomic!Write, memory, view
<1> QED
  BY <1>8 DEF Atomic!Next

\* An LCE's step is its own.
LEMMA OnlyOne ==
  ASSUME TypeInv, NEW l \in LCE, LceStep(l) \/ \E t \in Tag, wr \in BOOLEAN : Miss(l, t, wr)
  PROVE  \A k \in LCE : k # l => lceSt'[k] = lceSt[k] /\ tags'[k] = tags[k]
<1>1. CASE SendReq(l) \/ RecvData(l) \/ SendCohAck(l)
  BY <1>1, MessageTypes, DataTypes DEF SendReq, RecvData, SendCohAck, arrays
<1>2. CASE SetTag(l) \/ InvTag(l)
  BY <1>2, MessageTypes, DataTypes DEF SetTag, InvTag, reqFsm
<1>3. CASE SendInvAck(l) \/ WbCheck(l) \/ WbRead(l) \/ WbClear(l) \/ SendWb(l) \/ SendNullWb(l)
  BY <1>3 DEF SendInvAck, WbCheck, WbRead, WbClear, SendWb, SendNullWb, reqFsm, arrays
<1>4. CASE \E t \in Tag, wr \in BOOLEAN : Miss(l, t, wr)
  BY <1>4, MessageTypes DEF Miss, arrays
<1> QED
  BY <1>1, <1>2, <1>3, <1>4 DEF LceStep

LEMMA InitAtomic == Init => DataInv /\ Atomic!Init
<1> SUFFICES ASSUME Init PROVE DataInv /\ Atomic!Init
  OBVIOUS
<1>1. PICK t \in Tag : LceInit!(t)
  BY DEF Init, LceInit
<1>2. PICK u \in Tag : CceInit!(u)
  BY DEF Init, CceInit
<1>3. DataInv
  BY <1>1, <1>2 DEF Init, NetInit, DataInv, ValidData, Holds, FillData, WbData, LruTag, TrTag,
    InvPhase, BeforeTransfer
<1>4. \A b \in Tag : Current(b) = mem[b]
  <2> SUFFICES ASSUME NEW b \in Tag PROVE Current(b) = mem[b]
    OBVIOUS
  <2>1. DirtyCopies(b) = {} /\ Writers(b) = {} /\ WritebacksInFlight(b) = {} /\ memDataCmd = <<>>
    BY <1>1, <1>2 DEF DirtyCopies, Writers, WritebacksInFlight, Init, NetInit
  <2> QED
    BY <2>1 DEF Current
<1>5. memory \in [Tag -> Value]
  BY <1>4 DEF memory, Init
<1>6. \A l \in LCE : View(l) = [b \in {} |-> CHOOSE x \in Value : TRUE]
  <2> SUFFICES ASSUME NEW l \in LCE PROVE View(l) = [b \in {} |-> CHOOSE x \in Value : TRUE]
    OBVIOUS
  <2>1. {b \in Tag : LoadHit(l, b)} = {}
    BY <1>1 DEF LoadHit
  <2> QED
    BY <2>1 DEF View
<1> QED
  BY <1>3, <1>5, <1>6 DEF Atomic!Init, memory

MeDataInv == MeInv /\ DataInv

\* A step of the memory end keeps the invariant, and is a step of the atomic
\* memory or none.
LEMMA StepAtomic ==
  MeDataInv /\ MeInv' /\ [Next]_vars => MeDataInv' /\ [Atomic!Next]_(Atomic!vars)
<1> SUFFICES ASSUME MeInv, MeInv', DataInv, [Next]_vars
             PROVE  DataInv' /\ [Atomic!Next]_(Atomic!vars)
  BY DEF MeDataInv
<1>1. ViewsCurrent /\ (DataInv' => ViewsCurrent')
  BY ViewsAreCurrent, ViewsAreCurrentNext
<1>2. 0 \in LCE
  BY MeAssumption DEF LCE
<1>3. CASE CceNext /\ UNCHANGED <<lceVars, mem>>
  <2>1. CurrentKept /\ DataInv'
    BY <1>3, EngineData
  <2>2. \A k \in LCE : Hits(k)' = Hits(k)
    BY <1>3 DEF lceVars, reqFsm, arrays, Hits, LoadHit
  <2> QED
    BY <1>1, <1>2, <2>1, <2>2, PermitStep
<1>4. CASE MemWrite \/ MemRead
  <2>1. CurrentKept /\ DataInv'
    BY <1>4, MemData
  <2>2. \A k \in LCE : Hits(k)' = Hits(k)
    BY <1>4 DEF MemWrite, MemRead, lceVars, reqFsm, arrays, Hits, LoadHit
  <2> QED
    BY <1>1, <1>2, <2>1, <2>2, PermitStep
<1>5. CASE LceNext /\ UNCHANGED <<cceVars, mem>>
  <2> PICK l \in LCE : \/ LceStep(l)
                       \/ \E t \in Tag : \/ \E v \in Value : Store(l, t, v)
                                         \/ \E wr \in BOOLEAN : Miss(l, t, wr)
    BY <1>5 DEF LceNext
  <2>1. CASE LceStep(l) \/ \E t \in Tag, wr \in BOOLEAN : Miss(l, t, wr)
    <3>1. CurrentKept /\ DataInv'
      BY <1>5, <2>1, LceData
    <3>2. \A k \in LCE : k # l => lceSt'[k] = lceSt[k] /\ tags'[k] = tags[k]
      BY <2>1, OnlyOne DEF MeInv
    <3>3. \A k \in LCE : k # l => Hits(k)' = Hits(k)
      BY <3>2 DEF Hits, LoadHit
    <3> QED
      BY <1>1, <3>1, <3>3, PermitStep
  <2>2. ASSUME NEW t \in Tag, NEW v \in Value, Store(l, t, v)
        PROVE  DataInv' /\ Atomic!Next
    <3>1. DataInv' /\ Current(t)' = v /\ \A u \in Tag : u # t => Current(u)' = Current(u)
      BY <1>5, <2>2, StoreData
    <3>2. l \notin ICache /\ t \in Hits(l)
      BY <2>2 DEF Store, Hits, LoadHit
    <3>3. \A k \in LCE : Hits(k)' = Hits(k)
      BY <2>2 DEF Store, reqFsm, Hits, LoadHit
    <3> QED
      BY <1>1, <3>1, <3>2, <3>3, WriteStep
  <2> QED
    BY <2>1, <2>2
<1>6. CASE UNCHANGED vars
  <2>1. UNCHANGED <<pc, req, gad, dir, memDataCmd, memDataResp, lceResp, lceDataResp, lceCmd,
                    lceDataCmd, lceSt, dataRcv, cmdSt, buf, tags, dirty, data, mem>>
    BY <1>6 DEF vars, netVars, lceVars, cceVars, ctlVars, memQVars, reqFsm, cmdFsm, arrays
  <2>2. CurrentKept
    BY <2>1, StillCurrent DEF WritingBack, Below
  <2>3. ValidData'
    BY <2>1, <2>2, ValidFrame DEF DataInv, Holds, Landing, FillPhase
  <2>4. DataInv'
    BY <2>1, <2>3 DEF DataInv, FillData, WbData, LruTag, TrTag, InvPhase
  <2>5. \A k \in LCE : Hits(k)' = Hits(k)
    BY <2>1 DEF Hits, LoadHit
  <2> QED
    BY <1>1, <1>2, <2>2, <2>4, <2>5, PermitStep
<1> QED
  BY <1>3, <1>4, <1>5, <1>6 DEF Next

\* A cache that is open holds only blocks whose contents are those last stored,
\* and no block that another open cache holds.
THEOREM DataIsCurrent == Spec => [](DataInv /\ ViewsCurrent)
<1>1. Spec => []TypeInv
  BY TypeInvInit, TypeInvStep, PTL DEF Spec
<1>2. Spec => []MeInv
  BY <1>1, VictimsTracked, PTL DEF MeInv
<1>3. MeDataInv => DataInv /\ MeInv
  BY DEF MeDataInv
<1>4. MeInv /\ DataInv => MeDataInv
  BY DEF MeDataInv
<1> QED
  BY <1>2, <1>3, <1>4, InitAtomic, StepAtomic, ViewsAreCurrent, PTL DEF Spec

\* Two caches, the coherence engine running demo-v2, its queues and the memory
\* together are one memory: a store is visible to every later load, in
\* whichever cache, and no other step changes what a load returns.
THEOREM MemoryIsAtomic == Spec => ImplementsAtomicMemory
<1>1. Spec => []TypeInv
  BY TypeInvInit, TypeInvStep, PTL DEF Spec
<1>2. Spec => []MeInv
  BY <1>1, VictimsTracked, PTL DEF MeInv
<1>3. MeInv /\ DataInv => MeDataInv
  BY DEF MeDataInv
<1> QED
  BY <1>2, <1>3, InitAtomic, StepAtomic, PTL DEF Spec, ImplementsAtomicMemory, Atomic!Spec

=============================================================================
