----------------------------- MODULE MeInvariant -----------------------------
(***************************************************************************)
(* The inductive invariants behind SingleCopy, OneSharer,                  *)
(* DirectoryAccurate and NeverStalls (CoherenceInv) and behind the         *)
(* refinement of AtomicMemory (DataInv): what is in the queues, the        *)
(* registers and the arrays in each phase of the request being served.     *)
(***************************************************************************)
EXTENDS Me

InvPhase == pc \in {"inv_top", "inv_ack_top"}

FillPhase == pc \in {"transfer_wb", "transfer_mem", "read_l2_tr",
                     "mem_data_resp", "send_st", "coh_ack"}

\* The caches the invalidation routine of the current request addresses.
Targets == gad.hits \ {req.lce}

(* The engine's own registers and its memory port.                         *)

PendingInv ==
  /\ pc # "error"
  /\ pending <=> pc \in {"mem_resp", "transfer_mem", "mem_data_resp"}

\* demo-v2 only ever grants E.
ExclusiveOnly ==
  /\ \A l \in LCE, w \in Way : dir[l][w].st \in {"I", "E"}
  /\ pc # "ready" => nextCoh = "E"

RoutineInv ==
  /\ InvPhase => ~gad.uf
  /\ pc \in {"replace", "replace_wb", "mem_resp"} => gad.rf

\* A memory write in progress carries the registers of the current request.
MemWriteInv ==
  LET pl == WriteBack(req.tag, Zero).pl
  IN  IF pc \in {"mem_resp", "transfer_mem"}
      THEN \/ memDataCmd = <<>> /\ memResp = <<pl>>
           \/ /\ memResp = <<>>
              /\ \E t \in Tag, d \in Value :
                   memDataCmd = <<[tag |-> t, data |-> d, pl |-> pl]>>
      ELSE memDataCmd = <<>> /\ memResp = <<>>

MemReadInv ==
  IF pc = "mem_data_resp"
  THEN \/ memDataResp = <<>> /\ memCmd = <<MemCmd>>
       \/ /\ memCmd = <<>>
          /\ \E d \in Value : memDataResp = <<[data |-> d, cmd |-> MemCmd]>>
  ELSE memCmd = <<>> /\ memDataResp = <<>>

EngineInv ==
  PendingInv /\ ExclusiveOnly /\ RoutineInv /\ MemWriteInv /\ MemReadInv

(* Commands and their answers.                                             *)

InvMsg(l) == [type |-> "INV", tag |-> req.tag, way |-> gad.ways[l], st |-> "I"]

SetTagMsg == [type |-> "ST", tag |-> req.tag, way |-> req.way, st |-> "E"]

\* The command an LCE can have been sent in this phase.
MayHold(l, m) ==
  \/ InvPhase /\ l \in Targets /\ l < r0 /\ m = InvMsg(l)
  \/ pc = "replace_wb" /\ l = req.lce /\ m.type = "WB"
  \/ pc = "transfer_wb" /\ l = gad.trLce /\ m.type = "WB"
  \/ pc = "coh_ack" /\ l = req.lce /\ m = SetTagMsg

CommandInv(l) ==
  /\ lceCmd[l] # <<>> => /\ \E m \in CmdMsg : lceCmd[l] = <<m>> /\ MayHold(l, m)
                         /\ lceResp[l] = <<>> /\ lceDataResp[l] = <<>>
  /\ cmdSt[l] # "ready" => lceCmd[l] # <<>> /\ Head(lceCmd[l]).type = "WB"
  /\ invd[l] => lceCmd[l] # <<>> /\ Head(lceCmd[l]).type = "INV"

AnswerInv(l) ==
  /\ lceResp[l] # <<>> =>
       /\ \E m \in RespMsg : lceResp[l] = <<m>>
       /\ \/ InvPhase /\ l \in Targets /\ l < r0
          \/ pc = "coh_ack" /\ l = req.lce
  /\ lceDataResp[l] # <<>> =>
       /\ \E m \in DataRespMsg : lceDataResp[l] = <<m>>
       /\ \/ pc = "replace_wb" /\ l = req.lce
          \/ pc = "transfer_wb" /\ l = gad.trLce

\* LCEs whose invalidation has not been counted back yet.
Outstanding == {l \in LCE : lceCmd[l] # <<>> \/ lceResp[l] # <<>>}

CountInv == InvPhase => r2 = Cardinality(Outstanding)

(* The requestors.                                                         *)

\* No request of l is being served.
Unserved(l) ==
  \/ lceSt[l] = "ready" /\ lceReq[l] = <<>>
  \/ lceSt[l] = "send" /\ lceReq[l] = <<>> /\ ~tagSet[l]
  \/ lceSt[l] = "sleep" /\ lceReq[l] = <<miss[l]>> /\ ~tagSet[l]

\* The request of l is being served, the tag has not been set.
Served(l) == lceSt[l] = "sleep" /\ lceReq[l] = <<>> /\ ~tagSet[l]

TagWritten(l) == tags[l][req.way] = [tag |-> req.tag, st |-> "E"]

Finishing(l) ==
  \/ Served(l) /\ lceCmd[l] = <<SetTagMsg>> /\ lceResp[l] = <<>>
  \/ /\ \/ lceSt[l] = "coh_ack"
        \/ lceSt[l] = "sleep" /\ tagSet[l]
     /\ lceReq[l] = <<>> /\ lceCmd[l] = <<>> /\ lceResp[l] = <<>>
     /\ TagWritten(l)
  \/ Unserved(l) /\ lceCmd[l] = <<>> /\ lceResp[l] # <<>> /\ TagWritten(l)

RequestInv(l) ==
  IF pc = "ready" \/ l # req.lce THEN Unserved(l)
  ELSE IF pc = "coh_ack" THEN Finishing(l)
  ELSE Served(l)

\* A cache that waits for a block does not hold it.
AbsentInv(l) ==
  lceSt[l] = "send" \/ lceReq[l] # <<>> =>
    \A w \in Way : tags[l][w].st # "I" => tags[l][w].tag # miss[l].tag

(* The directory.                                                          *)

DirUnique ==
  \A k, l \in LCE, v, w \in Way :
    /\ dir[k][v].st # "I" /\ dir[l][w].st # "I"
    /\ dir[k][v].tag = dir[l][w].tag
    => k = l /\ v = w

\* Where the directory may still name an owner of the requested block.
OwnersInv ==
  \A l \in LCE, w \in Way :
    dir[l][w].st # "I" /\ dir[l][w].tag = req.tag =>
      \/ pc = "ready"
      \/ pc = "inv_top" /\ l \in Targets /\ l >= r0 /\ w = gad.ways[l]
      \/ FillPhase /\ l = req.lce /\ w = req.way

\* The entry of a cache that has been sent its invalidation is invalid.
ForgottenInv ==
  InvPhase => \A l \in Targets : l < r0 => dir[l][gad.ways[l]].st = "I"

FillInv ==
  FillPhase => dir[req.lce][req.way] = [tag |-> req.tag, st |-> "E"]

TagStates == \A l \in LCE, w \in Way : tags[l][w].st \in {"I", "E"}

LceInv ==
  \A l \in LCE : CommandInv(l) /\ AnswerInv(l) /\ RequestInv(l) /\ AbsentInv(l)

DirInv ==
  /\ DirUnique /\ OwnersInv /\ ForgottenInv /\ FillInv /\ TagStates
  /\ DirectoryAccurate

\* Inductive: an invalidation routine that ends has heard from every cache it
\* addressed, the engine serves a request of a sleeping LCE until that LCE has
\* the block, and the directory never names two owners (demo-v2.S:54-163 with
\* the LCE state machines).
CoherenceInv ==
  EngineInv /\ LceInv /\ CountInv /\ DirInv /\ SingleCopy

-----------------------------------------------------------------------------
(* What the arrays and the messages hold.                                  *)

\* The way that the engine is filling: its tag and its block may differ.
Landing(l, w) == FillPhase /\ l = req.lce /\ w = req.way /\ lceResp[l] = <<>>

Holds(l, w, t) == tags[l][w].st # "I" /\ tags[l][w].tag = t

\* Every valid block that is not being filled is current.
ValidData ==
  \A l \in LCE, w \in Way, t \in Tag :
    Holds(l, w, t) /\ ~Landing(l, w) => data[l][w] = Current(t)

\* The requested block on its way from memory to the requestor's array.
FillData ==
  /\ pc = "mem_data_resp" /\ memDataResp # <<>> => Head(memDataResp).data = mem[req.tag]
  /\ \A l \in LCE :
       /\ lceDataCmd[l] # <<>> => Head(lceDataCmd[l]).data = mem[req.tag]
       /\ lceSt[l] \in {"sleep", "coh_ack"} /\ dataRcv[l] => data[l][req.way] = mem[req.tag]
       /\ lceSt[l] = "coh_ack" => dataRcv[l]

\* A dirty block that is written back is the one of the command, and has been
\* read unless the array still holds it.
WbData(l) ==
  LET m == Head(lceCmd[l])
  IN  /\ lceCmd[l] # <<>> /\ m.type = "WB" /\ dirty[l][m.way] => tags[l][m.way].tag = m.tag
      /\ cmdSt[l] \in {"wb_dirty", "wb_read"} => dirty[l][m.way]
      /\ cmdSt[l] = "wb_read" => buf[l] = data[l][m.way]

BeforeTransfer == {"replace", "replace_wb", "mem_resp", "transfer", "transfer_wb"}

\* What gad has latched of the victim and of the owner stays true.
LruTag ==
  InvPhase \/ pc \in {"replace", "replace_wb"} => gad.lruTag = dir[req.lce][req.way].tag

TrTag ==
  gad.tf /\ (InvPhase \/ pc \in BeforeTransfer) => tags[gad.trLce][gad.trWay].tag = req.tag

\* Inductive with CoherenceInv: a block that a cache may use is the one last
\* stored, wherever a miss, an invalidation or a writeback of it stands
\* (demo-v2.S:54-163, bp_be_dcache_lce_cmd.v, bp_be_dcache_lce_data_cmd.v).
DataInv ==
  ValidData /\ FillData /\ (\A l \in LCE : WbData(l)) /\ LruTag /\ TrTag
=============================================================================
