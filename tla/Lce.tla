-------------------------------- MODULE Lce --------------------------------
(***************************************************************************)
(* The local cache engines and the cache arrays they manage: the miss      *)
(* state machine (bp_be_dcache_lce_req.v), the command state machine       *)
(* (bp_be_dcache_lce_cmd.v), the fill path (bp_be_dcache_lce_data_cmd.v)   *)
(* and the tag, dirty and data arrays of one set (bp_be_dcache.v).  The    *)
(* LCEs in ICache are the front end's (bp_fe_lce_req.v, bp_fe_lce_cmd.v):  *)
(* they only read and never hold a dirty block.                            *)
(***************************************************************************)
EXTENDS MeIf

VARIABLES
  lceSt,    \* state_r of lce_req
  miss,     \* the flopped miss: address, direction, victim way, its dirty bit
  dataRcv,  \* cce_data_received_r
  tagSet,   \* tag_set_r
  cmdSt,    \* state_r of lce_cmd, with the progress flags of a writeback
  invd,     \* invalidated_tag_r
  buf,      \* data_buf_r: the block a writeback has read
  tags,     \* tag_mem
  dirty,    \* the dirty bits of stat_mem
  data      \* data_mem

reqFsm == <<lceSt, miss, dataRcv, tagSet>>
cmdFsm == <<cmdSt, invd, buf>>
arrays == <<tags, dirty, data>>
lceVars == <<reqFsm, cmdFsm, arrays>>

ReqState == {"ready", "send", "sleep", "coh_ack"}

CmdState == {"ready", "wb_dirty", "wb_read", "wb_cleared", "wb_not_dirty"}

LceTypeOK ==
  /\ lceSt \in [LCE -> ReqState]
  /\ miss \in [LCE -> ReqMsg]
  /\ dataRcv \in [LCE -> BOOLEAN]
  /\ tagSet \in [LCE -> BOOLEAN]
  /\ cmdSt \in [LCE -> CmdState]
  /\ invd \in [LCE -> BOOLEAN]
  /\ buf \in [LCE -> Value]
  /\ tags \in [LCE -> [Way -> Entry]]
  /\ dirty \in [LCE -> [Way -> BOOLEAN]]
  /\ data \in [LCE -> [Way -> Value]]

\* After the set_clear and sync exchange with the CCE.
LceInit ==
  \E t \in Tag :
    /\ lceSt = [l \in LCE |-> "ready"]
    /\ miss = [l \in LCE |-> [wr |-> FALSE, tag |-> t, way |-> 0,
                              dirty |-> FALSE]]
    /\ dataRcv = [l \in LCE |-> FALSE]
    /\ tagSet = [l \in LCE |-> FALSE]
    /\ cmdSt = [l \in LCE |-> "ready"]
    /\ invd = [l \in LCE |-> FALSE]
    /\ buf = [l \in LCE |-> Zero]
    /\ tags = [l \in LCE |-> [w \in Way |-> [tag |-> t, st |-> "I"]]]
    /\ dirty = [l \in LCE |-> [w \in Way |-> FALSE]]
    /\ data = [l \in LCE |-> [w \in Way |-> Zero]]

-----------------------------------------------------------------------------
(* The processor's side: hits and misses.                                  *)

LoadHit(l, t) == \E w \in Way : tags[l][w].tag = t /\ tags[l][w].st # "I"

StoreHit(l, t) == \E w \in Way : tags[l][w] = [tag |-> t, st |-> "E"]

\* A store that hits marks the block dirty and, through the write buffer,
\* changes it.  cache_miss_o keeps the pipe closed outside the ready state.
Store(l, t, v) ==
  /\ l \notin ICache
  /\ lceSt[l] = "ready"
  /\ \E w \in Way :
       /\ tags[l][w] = [tag |-> t, st |-> "E"]
       /\ dirty' = [dirty EXCEPT ![l][w] = TRUE]
       /\ data' = [data EXCEPT ![l][w] = v]
  /\ UNCHANGED <<reqFsm, cmdFsm, tags, netVars>>

\* Invalid ways are filled first, lowest index first; otherwise the pseudo
\* LRU tree, left abstract here, may point at any way.
Victims(l) ==
  LET invalid == {w \in Way : tags[l][w].st = "I"}
  IN  IF invalid = {} THEN Way
      ELSE {w \in invalid : \A x \in invalid : w <= x}

\* A load or store misses: remember it and the victim's dirty bit.
Miss(l, t, wr) ==
  /\ lceSt[l] = "ready"
  /\ IF wr THEN l \notin ICache /\ ~StoreHit(l, t) ELSE ~LoadHit(l, t)
  /\ \E w \in Victims(l) :
       miss' = [miss EXCEPT ![l] = [wr |-> wr, tag |-> t, way |-> w,
                                    dirty |-> dirty[l][w]]]
  /\ lceSt' = [lceSt EXCEPT ![l] = "send"]
  /\ dataRcv' = [dataRcv EXCEPT ![l] = FALSE]
  /\ tagSet' = [tagSet EXCEPT ![l] = FALSE]
  /\ UNCHANGED <<cmdFsm, arrays, netVars>>

SendReq(l) ==
  /\ lceSt[l] = "send"
  /\ lceReq' = Send(lceReq, l, miss[l])
  /\ lceSt' = [lceSt EXCEPT ![l] = "sleep"]
  /\ UNCHANGED <<miss, dataRcv, tagSet, cmdFsm, arrays,
                 lceResp, lceDataResp, lceCmd, lceDataCmd>>

\* A sleeping miss is over when both data and tag have come, in any order.
Wakeup(l, rcv, set) ==
  IF lceSt[l] = "sleep" /\ rcv /\ set THEN "coh_ack" ELSE lceSt[l]

\* The fill writes the data array whatever the miss state machine does; only
\* a sleeping one takes notice.
RecvData(l) ==
  LET m == Head(lceDataCmd[l])
  IN  /\ lceDataCmd[l] # <<>>
      /\ lceDataCmd' = Drop(lceDataCmd, l)
      /\ data' = [data EXCEPT ![l][m.way] = m.data]
      /\ dataRcv' = [dataRcv EXCEPT ![l] = @ \/ lceSt[l] = "sleep"]
      /\ lceSt' = [lceSt EXCEPT ![l] = Wakeup(l, TRUE, tagSet[l])]
      /\ UNCHANGED <<miss, tagSet, cmdFsm, tags, dirty,
                     lceReq, lceResp, lceDataResp, lceCmd>>

\* Both messages are in: acknowledge and reopen the pipe.
SendCohAck(l) ==
  /\ lceSt[l] = "coh_ack"
  /\ lceResp' = Send(lceResp, l, [type |-> "coh_ack", tag |-> miss[l].tag])
  /\ lceSt' = [lceSt EXCEPT ![l] = "ready"]
  /\ UNCHANGED <<miss, dataRcv, tagSet, cmdFsm, arrays,
                 lceReq, lceDataResp, lceCmd, lceDataCmd>>

-----------------------------------------------------------------------------
(* The command state machine: the command stays at the head of its FIFO    *)
(* until the answer is accepted.                                           *)

Commanded(l, type) ==
  cmdSt[l] = "ready" /\ lceCmd[l] # <<>> /\ Head(lceCmd[l]).type = type

\* Set tag, the other half of a fill.
SetTag(l) ==
  LET m == Head(lceCmd[l])
  IN  /\ Commanded(l, "ST")
      /\ lceCmd' = Drop(lceCmd, l)
      /\ tags' = [tags EXCEPT ![l][m.way] = [tag |-> m.tag, st |-> m.st]]
      /\ tagSet' = [tagSet EXCEPT ![l] = @ \/ lceSt[l] = "sleep"]
      /\ lceSt' = [lceSt EXCEPT ![l] = Wakeup(l, dataRcv[l], TRUE)]
      /\ UNCHANGED <<miss, dataRcv, cmdFsm, dirty, data,
                     lceReq, lceResp, lceDataResp, lceDataCmd>>

\* Invalidate: the state goes, tag, dirty bit and data stay.
InvTag(l) ==
  /\ Commanded(l, "INV")
  /\ ~invd[l]
  /\ tags' = [tags EXCEPT ![l][Head(lceCmd[l]).way] =
                           [tag |-> @.tag, st |-> "I"]]
  /\ invd' = [invd EXCEPT ![l] = TRUE]
  /\ UNCHANGED <<reqFsm, cmdSt, buf, dirty, data, netVars>>

\* The miss state machine's acknowledgement goes first on the shared channel.
SendInvAck(l) ==
  /\ Commanded(l, "INV")
  /\ invd[l]
  /\ lceSt[l] # "coh_ack"
  /\ lceResp' = Send(lceResp, l, [type |-> "inv_ack",
                                  tag |-> Head(lceCmd[l]).tag])
  /\ lceCmd' = Drop(lceCmd, l)
  /\ invd' = [invd EXCEPT ![l] = FALSE]
  /\ UNCHANGED <<reqFsm, cmdSt, buf, arrays, lceReq, lceDataResp, lceDataCmd>>

\* Writeback: look up the dirty bit.  An instruction cache holds none.
WbCheck(l) ==
  /\ Commanded(l, "WB")
  /\ cmdSt' = [cmdSt EXCEPT ![l] = IF l \notin ICache
                                      /\ dirty[l][Head(lceCmd[l]).way]
                                   THEN "wb_dirty" ELSE "wb_not_dirty"]
  /\ UNCHANGED <<reqFsm, invd, buf, arrays, netVars>>

WbRead(l) ==
  /\ cmdSt[l] = "wb_dirty"
  /\ buf' = [buf EXCEPT ![l] = data[l][Head(lceCmd[l]).way]]
  /\ cmdSt' = [cmdSt EXCEPT ![l] = "wb_read"]
  /\ UNCHANGED <<reqFsm, invd, arrays, netVars>>

\* Mutation: the dirty bit survives the writeback.
WbClearLost(l) ==
  /\ cmdSt[l] = "wb_read"
  /\ cmdSt' = [cmdSt EXCEPT ![l] = "wb_cleared"]
  /\ UNCHANGED <<reqFsm, invd, buf, arrays, netVars>>

WbClear(l) ==
  /\ cmdSt[l] = "wb_read"
  /\ dirty' = [dirty EXCEPT ![l][Head(lceCmd[l]).way] = FALSE]
  /\ cmdSt' = [cmdSt EXCEPT ![l] = "wb_cleared"]
  /\ UNCHANGED <<reqFsm, invd, buf, tags, data, netVars>>

SendWb(l) ==
  /\ cmdSt[l] = "wb_cleared"
  /\ lceDataResp' = Send(lceDataResp, l, [type |-> "wb", data |-> buf[l],
                                          tag |-> Head(lceCmd[l]).tag])
  /\ lceCmd' = Drop(lceCmd, l)
  /\ cmdSt' = [cmdSt EXCEPT ![l] = "ready"]
  /\ UNCHANGED <<reqFsm, invd, buf, arrays, lceReq, lceResp, lceDataCmd>>

SendNullWb(l) ==
  /\ cmdSt[l] = "wb_not_dirty"
  /\ lceDataResp' = Send(lceDataResp, l, [type |-> "null_wb", data |-> Zero,
                                          tag |-> Head(lceCmd[l]).tag])
  /\ lceCmd' = Drop(lceCmd, l)
  /\ cmdSt' = [cmdSt EXCEPT ![l] = "ready"]
  /\ UNCHANGED <<reqFsm, invd, buf, arrays, lceReq, lceResp, lceDataCmd>>

\* The engine's own steps, as opposed to what the processor asks for.
LceStep(l) ==
  \/ SendReq(l) \/ RecvData(l) \/ SendCohAck(l)
  \/ SetTag(l) \/ InvTag(l) \/ SendInvAck(l)
  \/ WbCheck(l) \/ WbRead(l) \/ WbClear(l) \/ SendWb(l) \/ SendNullWb(l)

LceNext ==
  \E l \in LCE :
    \/ LceStep(l)
    \/ \E t \in Tag :
         \/ \E v \in Value : Store(l, t, v)
         \/ \E wr \in BOOLEAN : Miss(l, t, wr)
=============================================================================
