------------------------------ MODULE AsmParse ------------------------------
(***************************************************************************)
(* The assembler's parser: what instruction bp_as.cc makes of the words of *)
(* one statement.                                                          *)
(*                                                                         *)
(* A statement is a sequence of words, the first one its mnemonic.  Every  *)
(* parse function of the source becomes an operator that returns the       *)
(* fields it assigns, as a record.  Where the source prints a message and  *)
(* exits, or at() and stoi() throw, a field gets the value Bad: the        *)
(* assembler goes no further, whatever the other fields are.               *)
(***************************************************************************)
EXTENDS CceInst

\* What std::stoi(w, nullptr, 0) returns for the words it accepts.
CONSTANT Stoi

ASSUME StoiAssumption ==
  /\ Stoi \in [DOMAIN Stoi -> Int]
  /\ \A n \in 0 .. 6 : LET w == <<"0", "1", "2", "3", "4", "5", "6">>[n + 1]
                      IN  w \in DOMAIN Stoi /\ Stoi[w] = n

Bad == -1

\* An exit out of a comparison chain that found no match.
Look(table, w) == IF w \in DOMAIN table THEN table[w] ELSE Bad

\* tokens->at(k): past the end of the vector it throws, and no word is empty.
At(ts, k) == IF k < Len(ts) THEN ts[k + 1] ELSE ""

Gprs == DOMAIN Gpr

-----------------------------------------------------------------------------
(* Words to codes.                                                         *)

getOp(w) ==
  CASE w \in DOMAIN MinorAlu -> Op.alu
    [] w \in DOMAIN MinorBranch -> Op.branch
    [] w \in DOMAIN MinorMov -> Op.move
    [] w \in DOMAIN MinorFlag -> Op.flag
    [] w \in DOMAIN MinorReadDir -> Op.read_dir
    [] w \in DOMAIN MinorWriteDir -> Op.write_dir
    [] w \in DOMAIN MinorMisc -> Op.misc
    [] w \in DOMAIN MinorQueue -> Op.queue
    [] OTHER -> Bad

getMinorOp(w) ==
  CASE w \in DOMAIN MinorAlu -> MinorAlu[w]
    [] w \in DOMAIN MinorBranch -> MinorBranch[w]
    [] w \in DOMAIN MinorMov -> MinorMov[w]
    [] w \in DOMAIN MinorFlag -> MinorFlag[w]
    [] w \in DOMAIN MinorReadDir -> MinorReadDir[w]
    [] w \in DOMAIN MinorWriteDir -> MinorWriteDir[w]
    [] w \in DOMAIN MinorMisc -> MinorMisc[w]
    [] w \in DOMAIN MinorQueue -> MinorQueue[w]
    [] OTHER -> Bad

parseSrcOpd(w) ==
  CASE w \in Gprs \cup FlagNames -> Src[w]
    [] w = "reqlce" -> Src.req_lce
    [] w = "acktype" -> Src.ack_type
    [] w = "shr0" -> Src.sharers_hit_r0
    [] w = "lcereq" -> Src.lce_req_ready
    [] w = "memresp" -> Src.mem_resp_ready
    [] w = "memdataresp" -> Src.mem_data_resp_ready
    [] w = "pending" -> Src.pending_ready
    [] w = "lceresp" -> Src.lce_resp_ready
    [] w = "lcedataresp" -> Src.lce_data_resp_ready
    [] OTHER -> Bad

parseDstOpd(w) ==
  CASE w \in Gprs \cup FlagNames -> Dst[w]
    [] w = "nextcohst" -> Dst.next_coh_state
    [] OTHER -> Bad

\* A number from 0 to max.
UpTo(v, max) == IF v \in 0 .. max THEN v ELSE Bad

parseImm(w) == UpTo(Look(Stoi, w), 65535)

parseCohStImm(w) ==
  UpTo(CASE w = "m" -> 3 [] w = "e" -> 2 [] w = "s" -> 1 [] w = "i" -> 0
         [] OTHER -> Look(Stoi, w), 3)

\* The constants of e_flag_* are powers of two: a mask with one bit.
parseFlagSel(w) == Look(Flag, w)

\* A label if there is one of that name, else a number.
parseTarget(labels, w) ==
  IF w \in DOMAIN labels THEN labels[w] ELSE parseImm(w)

parseDirWgSel(w) ==
  CASE w \in Gprs -> DirWgSel[w]
    [] w = "req" -> DirWgSel.req_addr
    [] w = "lru" -> DirWgSel.lru_way_addr
    [] OTHER -> Bad
parseDirLceSel(w) ==
  CASE w \in Gprs -> DirLceSel[w]
    [] w = "req" -> DirLceSel.req_lce
    [] w = "tr" -> DirLceSel.transfer_lce
    [] OTHER -> Bad
parseDirWaySel(w) ==
  CASE w \in Gprs -> DirWaySel[w]
    [] w = "req" -> DirWaySel.req_addr_way
    [] w = "lru" -> DirWaySel.lru_way_addr_way
    [] w = "shwayr0" -> DirWaySel.sh_way_r0
    [] OTHER -> Bad
parseDirTagSel(w) ==
  CASE w = "req" -> DirTagSel.req_addr
    [] w = "lru" -> DirTagSel.lru_way_addr
    [] w = "0" -> DirTagSel.const_0
    [] OTHER -> Bad
\* Any word but nextcohst is taken for an immediate, and is not looked at.
parseDirCohStSel(w) ==
  IF w = "nextcohst" THEN DirCohSel.next_coh_st ELSE DirCohSel.inst_imm

parseSrcQueue(w) ==
  Look([lcereq |-> SrcQ.lce_req, memresp |-> SrcQ.mem_resp,
        memdataresp |-> SrcQ.mem_data_resp, pending |-> SrcQ.pending,
        lceresp |-> SrcQ.lce_resp, lcedataresp |-> SrcQ.lce_data_resp], w)
parseDstQueue(w) ==
  Look([lcecmd |-> DstQ.lce_cmd, lcedatacmd |-> DstQ.lce_data_cmd,
        memcmd |-> DstQ.mem_cmd, memdatacmd |-> DstQ.mem_data_cmd], w)

parseLceCmdLceSel(w) ==
  CASE w \in Gprs -> LceCmdLce[w]
    [] w = "req" -> LceCmdLce.req_lce
    [] w = "tr" -> LceCmdLce.tr_lce
    [] OTHER -> Bad
parseLceCmdAddrSel(w) ==
  CASE w \in Gprs -> LceCmdAddr[w]
    [] w = "req" -> LceCmdAddr.req_addr
    [] w = "lru" -> LceCmdAddr.lru_way_addr
    [] OTHER -> Bad
parseLceCmdWaySel(w) ==
  Look([req |-> LceCmdWay.req_addr_way, tr |-> LceCmdWay.tr_addr_way,
        shwayr0 |-> LceCmdWay.sh_list_r0, lru |-> LceCmdWay.lru_addr_way], w)
parseMemDataCmdAddrSel(w) ==
  Look([req |-> MemDataCmdAddr.req_addr, lru |-> MemDataCmdAddr.lru_way_addr], w)

-----------------------------------------------------------------------------
(* Statements.                                                             *)

Reject == [op |-> Bad]

\* With two words (inc, dec) the register is operand and destination; the
\* number of words decides, not the mnemonic.
parseALU(ts) ==
  CASE Len(ts) = 2 -> [src_a |-> parseSrcOpd(ts[2]), src_b |-> Src.const_1,
                       dst |-> parseDstOpd(ts[2])]
    [] Len(ts) = 4 -> [src_a |-> parseSrcOpd(ts[2]), src_b |-> parseSrcOpd(ts[3]),
                       dst |-> parseDstOpd(ts[4])]
    [] OTHER -> Reject

\* bge and bgt are ble and blt with the operands swapped.  A branch with
\* another number of words is only reported: no field of it is set.
parseBranch(ts, labels) ==
  CASE Len(ts) = 2 -> [imm |-> parseTarget(labels, ts[2])]
    [] Len(ts) = 3 ->
         [src_a |-> parseSrcOpd(ts[2]),
          src_b |-> IF ts[1] \in {"bf", "bqr"} THEN Src.const_1 ELSE Src.const_0,
          imm |-> parseTarget(labels, ts[3])]
    [] Len(ts) = 4 ->
         LET swap == ts[1] \in {"bge", "bgt"}
         IN  [src_a |-> parseSrcOpd(ts[IF swap THEN 3 ELSE 2]),
              src_b |-> parseSrcOpd(ts[IF swap THEN 2 ELSE 3]),
              imm |-> parseTarget(labels, ts[4])]
    [] OTHER -> << >>

\* mov and movi have three words, sf and sfz two.  sf and sfz have the minor
\* code of movi, so with three words they are a movi.
parseMove(ts) ==
  CASE Len(ts) = 3 /\ getMinorOp(ts[1]) = MinorMov.movi ->
         LET dst == parseDstOpd(ts[3])
         IN  [dst |-> dst, src_a |-> Src.imm,
              imm |-> IF dst = Dst.next_coh_state THEN parseCohStImm(ts[2])
                                                  ELSE parseImm(ts[2])]
    [] Len(ts) = 3 /\ getMinorOp(ts[1]) = MinorMov.mov ->
         [dst |-> parseDstOpd(ts[3]), src_a |-> parseSrcOpd(ts[2])]
    [] Len(ts) = 2 /\ ts[1] \in DOMAIN MinorFlag ->
         [rqf_sel |-> RqfSel.imm0, nerldf_sel |-> NerldfSel.imm0,
          nwbf_sel |-> NwbfSel.imm0, tf_sel |-> TfSel.imm0,
          pruief_sel |-> PruiefSel.imm0, rwbf_sel |-> RwbfSel.imm0,
          flag_mask_w_v |-> parseFlagSel(ts[2]),
          imm |-> IF ts[1] = "sf" THEN 1 ELSE 0]
    [] OTHER -> Reject

parseReadDir(ts) ==
  LET wg == parseDirWgSel(At(ts, 1))
  IN  IF ts[1] \in {"rdp", "rdw"}
      THEN [dir_way_group_sel |-> wg,
            pruief_sel |-> PruiefSel.logic, flag_mask_w_v |-> Flag.pf]
      ELSE [dir_way_group_sel |-> wg,
            dir_lce_sel |-> parseDirLceSel(At(ts, 2)),
            dir_way_sel |-> parseDirWaySel(At(ts, 3))]

\* wde keeps the value of a constant state in imm, wds does not.
parseWriteDir(ts) ==
  LET wg == parseDirWgSel(At(ts, 1))
      lce == parseDirLceSel(At(ts, 2))
      way == parseDirWaySel(At(ts, 3))
      bit == parseImm(At(ts, 2))
      state(w) == IF w = "" THEN Bad ELSE parseDirCohStSel(w)
  IN  CASE ts[1] = "wdp" ->
             [dir_way_group_sel |-> wg, imm |-> IF bit = Bad THEN Bad ELSE bit % 2]
        [] ts[1] = "wde" ->
             [dir_way_group_sel |-> wg, dir_lce_sel |-> lce, dir_way_sel |-> way,
              dir_tag_sel |-> parseDirTagSel(At(ts, 4)),
              dir_coh_state_sel |-> state(At(ts, 5)),
              imm |-> IF At(ts, 5) = "nextcohst" THEN 0 ELSE parseCohStImm(At(ts, 5))]
        [] ts[1] = "wds" ->
             [dir_way_group_sel |-> wg, dir_lce_sel |-> lce, dir_way_sel |-> way,
              dir_coh_state_sel |-> state(At(ts, 4))]

parseMisc(ts) ==
  IF ts[1] = "gad"
  THEN [transfer_lce_sel |-> TrLceSel.logic, transfer_lce_w_v |-> 1,
        req_addr_way_sel |-> ReqAddrWaySel.logic, req_addr_way_w_v |-> 1,
        tf_sel |-> TfSel.logic, pruief_sel |-> PruiefSel.logic,
        flag_mask_w_v |-> Flag.tf + Flag.rf + Flag.uf + Flag.if + Flag.ef]
  ELSE << >>

-----------------------------------------------------------------------------
(* Queue instructions.                                                     *)

\* Mutation: the bits of two queues are in the order of their numbers.
WfqBitSwapped == [lcereq |-> 32, lceresp |-> 4, lcedataresp |-> 8, memresp |-> 16,
                  memdataresp |-> 2, pending |-> 1]
\* The bit of a queue in the mask of wfq.
WfqBit == [lcereq |-> 32, lceresp |-> 16, lcedataresp |-> 8, memresp |-> 4,
           memdataresp |-> 2, pending |-> 1]

\* The mask is an or of the bits: a queue that is named twice counts once.
parseWfq(ts) ==
  LET qs == {ts[k] : k \in 2 .. Len(ts)}
      bit(q) == IF q \in qs THEN WfqBit[q] ELSE 0
  IN  IF qs \subseteq DOMAIN WfqBit
      THEN [imm |-> bit("lcereq") + bit("lceresp") + bit("lcedataresp") + bit("memresp")
                    + bit("memdataresp") + bit("pending")]
      ELSE Reject

\* Besides the queue's number, the selects and write enables of every
\* register and flag that is loaded from the queue's head.
PopFields ==
  [lcereq |->
     [req_sel |-> ReqSel.lce_req, req_w_v |-> 1,
      lru_way_sel |-> LruWaySel.lce_req, lru_way_w_v |-> 1,
      rqf_sel |-> RqfSel.lce_req, nerldf_sel |-> NerldfSel.lce_req,
      flag_mask_w_v |-> Flag.rqf + Flag.nerf + Flag.ldf],
   memresp |->
     [req_sel |-> ReqSel.mem_resp, req_w_v |-> 1,
      req_addr_way_sel |-> ReqAddrWaySel.mem_resp, req_addr_way_w_v |-> 1,
      lru_way_sel |-> LruWaySel.mem_resp, lru_way_w_v |-> 1,
      transfer_lce_sel |-> TrLceSel.mem_resp, transfer_lce_w_v |-> 1,
      rqf_sel |-> RqfSel.mem_resp, rwbf_sel |-> RwbfSel.mem_resp,
      tf_sel |-> TfSel.mem_resp,
      flag_mask_w_v |-> Flag.rqf + Flag.rwbf + Flag.tf],
   memdataresp |->
     [req_sel |-> ReqSel.mem_data_resp, req_w_v |-> 1,
      req_addr_way_sel |-> ReqAddrWaySel.mem_data_resp, req_addr_way_w_v |-> 1,
      lru_way_sel |-> LruWaySel.mem_data_resp, lru_way_w_v |-> 1,
      cache_block_data_sel |-> DataSel.mem_data_resp, cache_block_data_w_v |-> 1,
      rqf_sel |-> RqfSel.mem_data_resp, flag_mask_w_v |-> Flag.rqf],
   pending |->
     [req_sel |-> ReqSel.pending, req_w_v |-> 1,
      lru_way_sel |-> LruWaySel.pending, lru_way_w_v |-> 1,
      rqf_sel |-> RqfSel.pending, nerldf_sel |-> NerldfSel.pending,
      flag_mask_w_v |-> Flag.rqf + Flag.nerf + Flag.ldf],
   lceresp |-> [ack_type_w_v |-> 1],
   lcedataresp |->
     [cache_block_data_sel |-> DataSel.lce_data_resp, cache_block_data_w_v |-> 1,
      nwbf_sel |-> NwbfSel.lce_data_resp, flag_mask_w_v |-> Flag.nwbf]]

parsePopq(ts) ==
  LET q == At(ts, 1)
  IN  IF q \in DOMAIN PopFields
      THEN [f \in DOMAIN PopFields[q] \cup {"imm"} |->
              IF f = "imm" THEN parseSrcQueue(q) ELSE PopFields[q][f]]
      ELSE Reject

\* The operands of an LCE command after the command itself are optional; the
\* selects of those left out stay at the constant zero.
parseLceCmd(ts) ==
  LET cmd == parseImm(At(ts, 2))
  IN  [imm |-> IF cmd = Bad THEN Bad ELSE 8 * DstQ.lce_cmd + (cmd % 8),
       lce_cmd_lce_sel |->
         IF Len(ts) > 3 THEN parseLceCmdLceSel(ts[4]) ELSE LceCmdLce.zero,
       lce_cmd_addr_sel |->
         IF Len(ts) > 4 THEN parseLceCmdAddrSel(ts[5]) ELSE LceCmdAddr.zero,
       lce_cmd_way_sel |->
         IF Len(ts) > 5 THEN parseLceCmdWaySel(ts[6]) ELSE LceCmdWay.zero]

parsePushq(ts) ==
  LET queue == parseDstQueue(At(ts, 1))
      plain == [imm |-> 8 * queue, lce_cmd_lce_sel |-> LceCmdLce.zero,
                lce_cmd_addr_sel |-> LceCmdAddr.zero,
                lce_cmd_way_sel |-> LceCmdWay.zero]
  IN  CASE queue = DstQ.lce_cmd -> parseLceCmd(ts)
        [] queue = DstQ.mem_data_cmd ->
             [f \in DOMAIN plain \cup {"mem_data_cmd_addr_sel"} |->
                IF f \in DOMAIN plain THEN plain[f]
                                      ELSE parseMemDataCmdAddrSel(At(ts, 2))]
        [] queue \in {DstQ.lce_data_cmd, DstQ.mem_cmd} -> plain
        [] OTHER -> Reject

parseQueue(ts) ==
  CASE ts[1] = "wfq" -> parseWfq(ts)
    [] ts[1] = "popq" -> parsePopq(ts)
    [] ts[1] = "pushq" -> parsePushq(ts)

-----------------------------------------------------------------------------
(* parseTokens, on an instruction that starts out zero.  A statement that  *)
(* was only a label has no first word, and at(0) throws.                   *)
Assigned(ts, labels) ==
  LET op == getOp(At(ts, 0))
  IN  CASE op = Op.alu -> parseALU(ts)
        [] op = Op.branch -> parseBranch(ts, labels)
        [] op = Op.move -> parseMove(ts)
        [] op = Op.read_dir -> parseReadDir(ts)
        [] op = Op.write_dir -> parseWriteDir(ts)
        [] op = Op.misc -> parseMisc(ts)
        [] op = Op.queue -> parseQueue(ts)
        [] OTHER -> Reject

parseTokens(ts, labels) ==
  LET head == [op |-> getOp(At(ts, 0)), minor_op |-> getMinorOp(At(ts, 0))]
      fields == Assigned(ts, labels)
  IN  [f \in Fields |-> CASE f \in DOMAIN fields -> fields[f]
                        [] f \in DOMAIN head \ DOMAIN fields -> head[f]
                        [] OTHER -> Zero[f]]

Rejected(inst) == \E f \in Fields : inst[f] = Bad

\* printShortField and printLongField: the low bits of a field, the highest
\* one first.
Bits(x, width) == [k \in 1 .. width |-> (x \div 2 ^ (width - k)) % 2]

\* writeInstToOutput: the line of the .mem file for an instruction.
Word(inst) ==
  FlattenSeq([k \in 1 .. Len(Layout) |-> Bits(inst[Layout[k][1]], Layout[k][2])])
=============================================================================
