--------------------------------- MODULE Cce ---------------------------------
(***************************************************************************)
(* The cache coherence engine running the demo-v2 microcode: one labelled  *)
(* block of demo-v2.S up to its next queue instruction per action.  The    *)
(* instructions between two queue instructions touch only the engine's own *)
(* registers and directory, so grouping them hides no interleaving.  The   *)
(* null writeback flag and the block register are written by a pop and     *)
(* read before the next one, so they need no variable.                     *)
(***************************************************************************)
EXTENDS CceGad

VARIABLES
  pc,       \* microcode label the engine stands at
  dir,      \* wg_ram: the directory's copy of every LCE's tag set
  pending,  \* pending bit of the way group
  req,      \* req_lce, req_addr, lru_way registers and the rqf, ldf flags
  gad,      \* what the last gad instruction latched
  r0, r2,   \* general purpose registers
  nextCoh,  \* next_coh_state register
  rwbf,     \* replacement writeback flag
  memCmd, memDataCmd,    \* CCE -> memory
  memResp, memDataResp   \* memory -> CCE

ctlVars == <<dir, pending, req, gad, r0, r2, nextCoh, rwbf>>
memQVars == <<memCmd, memDataCmd, memResp, memDataResp>>
cceVars == <<pc, ctlVars, memQVars>>

Request == [lce : LCE, tag : Tag, wr : BOOLEAN, way : Way, dirty : BOOLEAN]

GadRegs == [hits : SUBSET LCE, ways : [LCE -> Way], tf : BOOLEAN, rf : BOOLEAN,
            uf : BOOLEAN, inv : BOOLEAN, trLce : LCE, trWay : Way, lruTag : Tag]

\* What a memory write carries so that its response can restore the
\* registers of the request it belongs to.
Payload == [lce : LCE, way : Way, tag : Tag, wr : BOOLEAN, trLce : LCE,
            trWay : Way, tf : BOOLEAN, rf : BOOLEAN]

MemCmdMsg == [lce : LCE, way : Way, tag : Tag, wr : BOOLEAN]

MemDataCmdMsg == [tag : Tag, data : Value, pl : Payload]

MemDataRespMsg == [data : Value, cmd : MemCmdMsg]

Labels == {"ready", "inv_top", "inv_ack_top", "replace", "replace_wb",
           "mem_resp", "transfer", "transfer_wb", "transfer_mem",
           "read_l2_tr", "read_l2", "mem_data_resp", "send_st", "coh_ack",
           "error"}

CceTypeOK ==
  /\ pc \in Labels
  /\ dir \in [LCE -> [Way -> Entry]]
  /\ pending \in BOOLEAN
  /\ req \in Request
  /\ gad \in GadRegs
  /\ r0 \in 0 .. NumLce /\ r2 \in Nat
  /\ nextCoh \in CohState
  /\ rwbf \in BOOLEAN
  /\ memCmd \in Seq(MemCmdMsg)
  /\ memDataCmd \in Seq(MemDataCmdMsg)
  /\ memResp \in Seq(Payload)
  /\ memDataResp \in Seq(MemDataRespMsg)

\* The registers as the reset loop and the hardware reset leave them.
CceInit ==
  \E t \in Tag :
    /\ pc = "ready"
    /\ dir = [l \in LCE |-> [w \in Way |-> [tag |-> t, st |-> "I"]]]
    /\ pending = FALSE
    /\ req = [lce |-> 0, tag |-> t, wr |-> FALSE, way |-> 0, dirty |-> FALSE]
    /\ gad = [hits |-> {}, ways |-> [l \in LCE |-> 0], tf |-> FALSE,
              rf |-> FALSE, uf |-> FALSE, inv |-> FALSE, trLce |-> 0,
              trWay |-> 0, lruTag |-> t]
    /\ r0 = 0 /\ r2 = 0
    /\ nextCoh = "I"
    /\ rwbf = FALSE
    /\ memCmd = <<>> /\ memDataCmd = <<>>
    /\ memResp = <<>> /\ memDataResp = <<>>

-----------------------------------------------------------------------------
TransferCheck(tf) == IF tf THEN "transfer" ELSE "read_l2"

ReplaceCheck(g) == IF g.rf THEN "replace" ELSE TransferCheck(g.tf)

UpgradeCheck(g) == IF g.uf THEN "error" ELSE ReplaceCheck(g)

\* Mutation: leave the loop with one acknowledgement outstanding.
InvAckTopEarly(n) == IF n <= 1 THEN UpgradeCheck(gad) ELSE "inv_ack_top"

InvAckTop(n) == IF n = 0 THEN UpgradeCheck(gad) ELSE "inv_ack_top"

\* Mutation: bge taken one iteration late.
InvTopLate(i, n) == IF i <= NumLce THEN "inv_top" ELSE InvAckTop(n)

InvTop(i, n) == IF i < NumLce THEN "inv_top" ELSE InvAckTop(n)

(* The directory instructions.                                             *)

\* Mutation: the write enable of the state field is never raised.
WdsLost(l, w, st) == dir' = dir

\* wds: write the state of an entry, keep its tag.
Wds(l, w, st) == dir' = [dir EXCEPT ![l][w] = [tag |-> @.tag, st |-> st]]

\* Mutation: the entry is not written.
WdeLost(l, w, t, st) == dir' = dir

\* wde: write a whole entry.
Wde(l, w, t, st) == dir' = [dir EXCEPT ![l][w] = [tag |-> t, st |-> st]]

\* Mutation: a pending bit once set is never cleared.
WdpSticky(b) == pending' = (pending \/ b)

\* wdp: write the pending bit of the way group.
Wdp(b) == pending' = b

\* Mutation: the flag inverted.
NwbfInverted(m) == m.type = "wb"

\* The null writeback flag as popq lceDataResp sets it.
Nwbf(m) == m.type = "null_wb"

\* ready, lce_req: pop a request, check the pending bit, read the directory,
\* run gad, choose E as the next state and test the invalidate flag.
LceReq(l) ==
  LET m == Head(lceReq[l])
      q == [lce |-> l, tag |-> m.tag, wr |-> m.wr, way |-> m.way,
            dirty |-> m.dirty]
      g == Gad(dir, q)
  IN  /\ pc = "ready"
      /\ lceReq[l] # <<>>
      /\ lceReq' = Drop(lceReq, l)
      /\ req' = q
      /\ IF pending
         THEN pc' = "error" /\ UNCHANGED <<gad, nextCoh, r0, r2>>
         ELSE /\ gad' = g
              /\ nextCoh' = "E"
              /\ IF g.inv
                 THEN pc' = "inv_top" /\ r0' = 0 /\ r2' = 0
                 ELSE pc' = UpgradeCheck(g) /\ UNCHANGED <<r0, r2>>
      /\ UNCHANGED <<dir, pending, rwbf, memQVars,
                     lceResp, lceDataResp, lceCmd, lceDataCmd>>

\* inv_top: LCE r0 holds the block and is not the requestor.
InvSend ==
  /\ pc = "inv_top"
  /\ r0 \in gad.hits \ {req.lce}
  /\ lceCmd' = Send(lceCmd, r0, [type |-> "INV", tag |-> req.tag,
                                 way |-> gad.ways[r0], st |-> "I"])
  /\ Wds(r0, gad.ways[r0], "I")
  /\ r2' = r2 + 1
  /\ r0' = r0 + 1
  /\ pc' = InvTop(r0 + 1, r2 + 1)
  /\ UNCHANGED <<pending, req, gad, nextCoh, rwbf, memQVars,
                 lceReq, lceResp, lceDataResp, lceDataCmd>>

\* inv_inc_lce: LCE r0 needs no invalidation.
InvSkip ==
  /\ pc = "inv_top"
  /\ r0 \notin gad.hits \ {req.lce}
  /\ r0' = r0 + 1
  /\ pc' = InvTop(r0 + 1, r2)
  /\ UNCHANGED <<dir, pending, req, gad, r2, nextCoh, rwbf,
                 memQVars, netVars>>

\* inv_ack_top: pop an acknowledgement without looking at its type.
InvAck(l) ==
  /\ pc = "inv_ack_top"
  /\ lceResp[l] # <<>>
  /\ lceResp' = Drop(lceResp, l)
  /\ r2' = r2 - 1
  /\ pc' = InvAckTop(r2 - 1)
  /\ UNCHANGED <<dir, pending, req, gad, r0, nextCoh, rwbf,
                 memQVars, lceReq, lceDataResp, lceCmd, lceDataCmd>>

\* Mutation: the writeback is asked for at the missing address.
ReplaceWrongAddr ==
  /\ pc = "replace"
  /\ lceCmd' = Send(lceCmd, req.lce, [type |-> "WB", tag |-> req.tag,
                                      way |-> req.way, st |-> "I"])
  /\ pc' = "replace_wb"
  /\ UNCHANGED <<ctlVars, memQVars, lceReq, lceResp, lceDataResp, lceDataCmd>>

\* replace: ask the requestor to write back the block it is about to evict.
Replace ==
  /\ pc = "replace"
  /\ lceCmd' = Send(lceCmd, req.lce, [type |-> "WB", tag |-> gad.lruTag,
                                      way |-> req.way, st |-> "I"])
  /\ pc' = "replace_wb"
  /\ UNCHANGED <<ctlVars, memQVars, lceReq, lceResp, lceDataResp, lceDataCmd>>

\* A memory data command: the payload lets the response restore the request.
WriteBack(t, d) ==
  [tag |-> t, data |-> d,
   pl |-> [lce |-> req.lce, way |-> req.way, tag |-> req.tag, wr |-> req.wr,
           trLce |-> gad.trLce, trWay |-> gad.trWay,
           tf |-> gad.tf, rf |-> gad.rf]]

\* replace, second half: the answer goes to memory at the evicted block's
\* address, whether or not it is a null writeback.
ReplaceWb(l) ==
  LET m == Head(lceDataResp[l])
  IN  /\ pc = "replace_wb"
      /\ lceDataResp[l] # <<>>
      /\ lceDataResp' = Drop(lceDataResp, l)
      /\ Wdp(TRUE)
      /\ memDataCmd' = Append(memDataCmd, WriteBack(gad.lruTag, m.data))
      /\ rwbf' = FALSE
      /\ pc' = "mem_resp"
      /\ UNCHANGED <<dir, req, gad, r0, r2, nextCoh, memCmd, memResp,
                     memDataResp, lceReq, lceResp, lceCmd, lceDataCmd>>

\* popq memResp: the request registers come back from the payload.
PopMemResp ==
  LET p == Head(memResp)
  IN  /\ memResp # <<>>
      /\ memResp' = Tail(memResp)
      /\ req' = [req EXCEPT !.lce = p.lce, !.tag = p.tag, !.wr = p.wr,
                            !.way = p.way]
      /\ gad' = [gad EXCEPT !.trLce = p.trLce, !.trWay = p.trWay, !.tf = p.tf]
      /\ rwbf' = p.rf
      /\ Wdp(FALSE)
      /\ UNCHANGED <<dir, r0, r2, nextCoh, memCmd, memDataCmd,
                     memDataResp, netVars>>

\* mem_resp: after a replacement the transfer check is still to come.
MemResp ==
  /\ pc = "mem_resp"
  /\ PopMemResp
  /\ pc' = IF rwbf' THEN TransferCheck(gad'.tf) ELSE "ready"

\* transfer: enter the requestor in the directory, then ask the old owner to
\* write back.
Transfer ==
  /\ pc = "transfer"
  /\ Wde(req.lce, req.way, req.tag, nextCoh)
  /\ lceCmd' = Send(lceCmd, gad.trLce, [type |-> "WB", tag |-> req.tag,
                                        way |-> gad.trWay, st |-> "I"])
  /\ pc' = "transfer_wb"
  /\ UNCHANGED <<pending, req, gad, r0, r2, nextCoh, rwbf, memQVars,
                 lceReq, lceResp, lceDataResp, lceDataCmd>>

\* transfer, second half: only a dirty block goes to memory.
TransferWb(l) ==
  LET m == Head(lceDataResp[l])
  IN  /\ pc = "transfer_wb"
      /\ lceDataResp[l] # <<>>
      /\ lceDataResp' = Drop(lceDataResp, l)
      /\ IF Nwbf(m)
         THEN pc' = "read_l2_tr" /\ UNCHANGED <<pending, rwbf, memDataCmd>>
         ELSE /\ pc' = "transfer_mem"
              /\ Wdp(TRUE)
              /\ rwbf' = FALSE
              /\ memDataCmd' = Append(memDataCmd, WriteBack(req.tag, m.data))
      /\ UNCHANGED <<dir, req, gad, r0, r2, nextCoh, memCmd, memResp,
                     memDataResp, lceReq, lceResp, lceCmd, lceDataCmd>>

TransferMem ==
  /\ pc = "transfer_mem"
  /\ PopMemResp
  /\ pc' = "read_l2_tr"

MemCmd == [lce |-> req.lce, way |-> req.way, tag |-> req.tag, wr |-> req.wr]

\* read_l2_tr: fetch the block for the requestor after a transfer.
ReadL2Tr ==
  /\ pc = "read_l2_tr"
  /\ Wdp(TRUE)
  /\ memCmd' = Append(memCmd, MemCmd)
  /\ pc' = "mem_data_resp"
  /\ UNCHANGED <<dir, req, gad, r0, r2, nextCoh, rwbf,
                 memDataCmd, memResp, memDataResp, netVars>>

\* read_l2: nobody else owns the block.
ReadL2 ==
  /\ pc = "read_l2"
  /\ Wdp(TRUE)
  /\ Wde(req.lce, req.way, req.tag, nextCoh)
  /\ memCmd' = Append(memCmd, MemCmd)
  /\ pc' = "mem_data_resp"
  /\ UNCHANGED <<req, gad, r0, r2, nextCoh, rwbf,
                 memDataCmd, memResp, memDataResp, netVars>>

\* mem_data_resp: the block goes to the requestor ...
MemDataResp ==
  LET m == Head(memDataResp)
  IN  /\ pc = "mem_data_resp"
      /\ memDataResp # <<>>
      /\ memDataResp' = Tail(memDataResp)
      /\ req' = [req EXCEPT !.lce = m.cmd.lce, !.tag = m.cmd.tag,
                            !.wr = m.cmd.wr, !.way = m.cmd.way]
      /\ Wdp(FALSE)
      /\ lceDataCmd' = Send(lceDataCmd, m.cmd.lce,
                            [tag |-> m.cmd.tag, way |-> m.cmd.way,
                             data |-> m.data])
      /\ pc' = "send_st"
      /\ UNCHANGED <<dir, gad, r0, r2, nextCoh, rwbf, memCmd, memDataCmd,
                     memResp, lceReq, lceResp, lceDataResp, lceCmd>>

\* ... and the tag follows on another channel.
SendSetTag ==
  /\ pc = "send_st"
  /\ lceCmd' = Send(lceCmd, req.lce, [type |-> "ST", tag |-> req.tag,
                                      way |-> req.way, st |-> nextCoh])
  /\ pc' = "coh_ack"
  /\ UNCHANGED <<ctlVars, memQVars, lceReq, lceResp, lceDataResp, lceDataCmd>>

\* The request ends with an acknowledgement, again of whatever type.
CohAck(l) ==
  /\ pc = "coh_ack"
  /\ lceResp[l] # <<>>
  /\ lceResp' = Drop(lceResp, l)
  /\ pc' = "ready"
  /\ UNCHANGED <<ctlVars, memQVars, lceReq, lceDataResp, lceCmd, lceDataCmd>>

CceNext ==
  \/ InvSend \/ InvSkip \/ Replace \/ MemResp \/ Transfer \/ TransferMem
  \/ ReadL2Tr \/ ReadL2 \/ MemDataResp \/ SendSetTag
  \/ \E l \in LCE : LceReq(l) \/ InvAck(l) \/ ReplaceWb(l) \/ TransferWb(l)
                    \/ CohAck(l)
=============================================================================
