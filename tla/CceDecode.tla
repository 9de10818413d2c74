----------------------------- MODULE CceDecode -----------------------------
(***************************************************************************)
(* What the CCE does with a microcode word: bp_cce_inst.vh lays the word   *)
(* out, bp_cce_inst_decode.v decodes it into the decoded instruction       *)
(* struct, and the ALU, the operand muxes (bp_cce.v) and the registers     *)
(* (bp_cce_reg.v) act on that struct.                                      *)
(*                                                                         *)
(* The data path is symbolic: what an instruction does in the cycle in     *)
(* which it completes is a set of facts, tuples of strings such as         *)
(* <<"write", "r0", "add", "r0", "1">> or <<"taken", "r0", "<", "r1">>.    *)
(***************************************************************************)
EXTENDS CceInst

Bool(b) == IF b THEN 1 ELSE 0
Value(bits) ==
  LET v[k \in 0 .. Len(bits)] == IF k = 0 THEN 0 ELSE 2 * v[k - 1] + bits[k]
  IN  v[Len(bits)]

(* The packed struct bp_cce_inst_s of bp_cce_inst.vh: the RTL's own list   *)
(* of fields, the most significant first, with the widths of its types.    *)
Packed ==
  <<<<"op", 3>>, <<"minor_op", 3>>, <<"src_a", 5>>, <<"src_b", 5>>, <<"dst", 5>>,
    <<"imm", 16>>, <<"req_sel", 2>>, <<"req_addr_way_sel", 2>>, <<"lru_way_sel", 2>>,
    <<"transfer_lce_sel", 1>>, <<"cache_block_data_sel", 1>>, <<"rqf_sel", 3>>,
    <<"nerldf_sel", 2>>, <<"nwbf_sel", 1>>, <<"tf_sel", 2>>, <<"pruief_sel", 1>>,
    <<"rwbf_sel", 1>>, <<"dir_way_group_sel", 3>>, <<"dir_lce_sel", 3>>,
    <<"dir_way_sel", 3>>, <<"dir_coh_state_sel", 1>>, <<"dir_tag_sel", 2>>,
    <<"lce_cmd_lce_sel", 3>>, <<"lce_cmd_addr_sel", 3>>, <<"lce_cmd_way_sel", 3>>,
    <<"mem_data_cmd_addr_sel", 1>>, <<"req_w_v", 1>>, <<"req_addr_way_w_v", 1>>,
    <<"lru_way_w_v", 1>>, <<"transfer_lce_w_v", 1>>, <<"cache_block_data_w_v", 1>>,
    <<"ack_type_w_v", 1>>, <<"flag_mask_w_v", 12>>>>

\* The number of bits before a field.
Offset[k \in 1 .. Len(Packed)] ==
  IF k = 1 THEN 0 ELSE Offset[k - 1] + Packed[k - 1][2]

\* For each field the place of its first bit and of its last.
Slice ==
  [f \in Fields |->
     LET k == CHOOSE j \in 1 .. Len(Packed) : Packed[j][1] = f
     IN  <<Offset[k] + 1, Offset[k] + Packed[k][2]>>]

\* inst = inst_i, "reinterpret wires as instruction struct".
Unpack(word) ==
  [f \in Fields |-> Value(SubSeq(word, Slice[f][1], Slice[f][2]))]

-----------------------------------------------------------------------------
(* The decoded instruction.                                                *)

Is(i, op, minor) == i.op = op /\ i.minor_op = minor
PopSel(i) == i.imm % 8
PushSel(i) == (i.imm \div 8) % 4

(* bp_cce_inst_decode for a valid instruction; ready is the set of output  *)
(* queues that have room.                                                  *)
Decode(i, ready) ==
  LET mov == i.op = Op.move
      alu == i.op = Op.alu
      gpr == (mov \/ alu) /\ i.dst \in 0 .. 3
      pops(q) == Bool(Is(i, Op.queue, MinorQueue.popq) /\ PopSel(i) = SrcQ[q])
      pushes(q) == Bool(/\ q \in ready
                        /\ Is(i, Op.queue, MinorQueue.pushq) /\ PushSel(i) = DstQ[q])
  IN  [alu_v |-> Bool(alu \/ i.op = Op.branch),
       dir_r_v |-> Bool(i.op = Op.read_dir),
       dir_r_cmd |-> IF i.op = Op.read_dir THEN i.minor_op ELSE 0,
       dir_w_v |-> Bool(i.op = Op.write_dir),
       dir_w_cmd |-> IF i.op = Op.write_dir THEN i.minor_op ELSE 0,
       lce_cmd_cmd |-> i.imm % 8,
       mov_dst_w_v |-> Bool(mov), alu_dst_w_v |-> Bool(alu),
       gpr_w_mask |-> IF gpr THEN 2 ^ i.dst ELSE 0, gpr_w_v |-> Bool(gpr),
       gad_op_w_v |-> Bool(Is(i, Op.misc, MinorMisc.gad)),
       rdw_op_w_v |-> Bool(Is(i, Op.read_dir, MinorReadDir.rdw)),
       rde_op_w_v |-> Bool(Is(i, Op.read_dir, MinorReadDir.rde)),
       lce_req_ready |-> pops("lce_req"), lce_resp_ready |-> pops("lce_resp"),
       lce_data_resp_ready |-> pops("lce_data_resp"),
       mem_resp_ready |-> pops("mem_resp"),
       mem_data_resp_ready |-> pops("mem_data_resp"),
       lce_cmd_v |-> pushes("lce_cmd"), lce_data_cmd_v |-> pushes("lce_data_cmd"),
       mem_cmd_v |-> pushes("mem_cmd"), mem_data_cmd_v |-> pushes("mem_data_cmd"),
       minor_op |-> i.minor_op, src_a |-> i.src_a, src_b |-> i.src_b, dst |-> i.dst,
       imm |-> i.imm, req_sel |-> i.req_sel, req_addr_way_sel |-> i.req_addr_way_sel,
       lru_way_sel |-> i.lru_way_sel, transfer_lce_sel |-> i.transfer_lce_sel,
       cache_block_data_sel |-> i.cache_block_data_sel, rqf_sel |-> i.rqf_sel,
       nerldf_sel |-> i.nerldf_sel, nwbf_sel |-> i.nwbf_sel, tf_sel |-> i.tf_sel,
       pruief_sel |-> i.pruief_sel, rwbf_sel |-> i.rwbf_sel,
       dir_way_group_sel |-> i.dir_way_group_sel, dir_lce_sel |-> i.dir_lce_sel,
       dir_way_sel |-> i.dir_way_sel, dir_coh_state_sel |-> i.dir_coh_state_sel,
       dir_tag_sel |-> i.dir_tag_sel, lce_cmd_lce_sel |-> i.lce_cmd_lce_sel,
       lce_cmd_addr_sel |-> i.lce_cmd_addr_sel, lce_cmd_way_sel |-> i.lce_cmd_way_sel,
       mem_data_cmd_addr_sel |-> i.mem_data_cmd_addr_sel, req_w_v |-> i.req_w_v,
       req_addr_way_w_v |-> i.req_addr_way_w_v, lru_way_w_v |-> i.lru_way_w_v,
       transfer_lce_w_v |-> i.transfer_lce_w_v,
       cache_block_data_w_v |-> i.cache_block_data_w_v,
       ack_type_w_v |-> i.ack_type_w_v, flag_mask_w_v |-> i.flag_mask_w_v]

\* The bits of wfq's mask, from the highest down.
WfqOrder == <<"lce_req", "lce_resp", "lce_data_resp", "mem_resp", "mem_data_resp",
              "pending">>
WfqMask(i) == {WfqOrder[k] : k \in {j \in 1 .. 6 : (i.imm \div 2 ^ (6 - j)) % 2 = 1}}

\* Mutation: only the queue instructions stall.
PcStallQueues(i, valid, ready) ==
  \/ Is(i, Op.queue, MinorQueue.wfq) /\ WfqMask(i) \cap valid = {}
  \/ /\ Is(i, Op.queue, MinorQueue.pushq)
     /\ \A q \in ready : DstQ[q] # PushSel(i)

\* pc_stall_o, when the queues of valid have a message and those of ready
\* have room.
PcStall(i, valid, ready) ==
  \/ Is(i, Op.misc, MinorMisc.stall)
  \/ Is(i, Op.queue, MinorQueue.wfq) /\ WfqMask(i) \cap valid = {}
  \/ /\ Is(i, Op.queue, MinorQueue.pushq)
     /\ \A q \in ready : DstQ[q] # PushSel(i)

-----------------------------------------------------------------------------
(* Effects.                                                                *)

\* The enumerator of a code; a mux's default for a code that has none.
NameOf(table, code) ==
  IF \E n \in DOMAIN table : table[n] = code
  THEN CHOOSE n \in DOMAIN table : table[n] = code ELSE "none"

\* Facts under an enable bit.
When(bit, facts) == IF bit = 1 THEN facts ELSE {}

LateReady == {Src.lce_resp_ready, Src.lce_data_resp_ready}

\* A number of at most two bits.
Digit(n) == <<"0", "1", "2", "3">>[n + 1]

\* An operand; the pending queue's valid signal is a constant zero.
Operand(code) ==
  CASE code \in {Src.const_0, Src.pending_ready} -> "0"
    [] code = Src.const_1 -> "1"
    [] OTHER -> NameOf(Src, code)

\* The last two alternatives of operand b's mux drive operand a instead.
OperandA(d) == Operand(IF d.src_b \in LateReady THEN d.src_b ELSE d.src_a)
OperandB(d) == IF d.src_b \in LateReady THEN "undriven" ELSE Operand(d.src_b)

\* A comparison says the same of its operands in either order.
Compare(x, rel, y) ==
  LET mirror == [e |-> "=", n |-> "#", l |-> ">", le |-> ">="]
      sign == [e |-> "=", n |-> "#", l |-> "<", le |-> "<="]
  IN  {<<"taken", x, sign[rel], y>>, <<"taken", y, mirror[rel], x>>}

\* bp_cce_alu's branch_result; the target is that of pc_branch_target_o.
BranchFacts(d) ==
  LET a == OperandA(d)
      b == OperandB(d)
      test == CASE d.minor_op = MinorBranch.beq -> Compare(a, "e", b)
                [] d.minor_op = MinorBranch.bne -> Compare(a, "n", b)
                [] d.minor_op = MinorBranch.blt -> Compare(a, "l", b)
                [] d.minor_op = MinorBranch.ble -> Compare(a, "le", b)
                [] d.minor_op = MinorBranch.bi -> {<<"taken", "always">>}
                [] OTHER -> {}
  IN  IF d.alu_v = 1 /\ test # {} THEN test \cup {<<"target", d.imm>>} ELSE {}

\* gpr_r, from bp_cce_alu's arithmetic or from mov_src, and next_coh_state_r,
\* which takes the immediate whatever the source operand is.
WriteFacts(d) ==
  LET sum == CASE d.minor_op = MinorAlu.add -> "add"
               [] d.minor_op = MinorAlu.sub -> "sub"
               [] OTHER -> "zero"
      gpr == NameOf(Gpr, d.dst)
  IN  When(d.alu_dst_w_v * d.gpr_w_v,
           {<<"write", gpr, sum, OperandA(d), OperandB(d)>>})
      \cup When(d.mov_dst_w_v * d.gpr_w_v * Bool(OperandA(d) # gpr),
                {<<"write", gpr, "copy", OperandA(d)>>})
      \cup When(d.mov_dst_w_v * d.gpr_w_v * Bool(d.src_a = Src.imm), {<<"imm", d.imm>>})
      \cup When(d.mov_dst_w_v * Bool(d.dst = Dst.next_coh_state),
                {<<"write", "next_coh_state", "copy", Digit(d.imm % 4)>>})

\* flags_n: where each flag's next value comes from.
FlagSource(d, f) ==
  LET bit == Digit(d.imm % 2)
      sel == CASE f = "rqf" -> NameOf(RqfSel, d.rqf_sel)
               [] f \in {"nerf", "ldf"} -> NameOf(NerldfSel, d.nerldf_sel)
               [] f = "nwbf" -> NameOf(NwbfSel, d.nwbf_sel)
               [] f = "rwbf" -> NameOf(RwbfSel, d.rwbf_sel)
               [] f = "tf" -> NameOf(TfSel, d.tf_sel)
               [] f = "pcf" -> "imm0"
               [] OTHER -> NameOf(PruiefSel, d.pruief_sel)
  IN  CASE sel = "imm0" -> bit
        [] sel = "pending" -> "0"
        [] sel = "logic" /\ f = "pf" -> "directory"
        [] OTHER -> sel

FlagFacts(d) ==
  {<<"flag", f, FlagSource(d, f)>> :
     f \in {g \in FlagNames : (d.flag_mask_w_v \div Flag[g]) % 2 = 1}}

\* The other registers; the pending queue's fields are constant zeros.
RegFacts(d) ==
  LET load(reg, enable, table, sel) ==
        When(enable, {<<"load", reg, NameOf(table, sel)>>})
  IN  load("req", d.req_w_v, ReqSel, d.req_sel)
      \cup load("req_addr_way", d.req_addr_way_w_v, ReqAddrWaySel, d.req_addr_way_sel)
      \cup load("lru_way", d.lru_way_w_v, LruWaySel, d.lru_way_sel)
      \cup load("transfer_lce", d.transfer_lce_w_v, TrLceSel, d.transfer_lce_sel)
      \cup load("cache_block_data", d.cache_block_data_w_v, DataSel,
                d.cache_block_data_sel)
      \cup When(d.ack_type_w_v, {<<"load", "ack_type", "lce_resp">>})
      \cup When(d.gad_op_w_v, {<<"load", reg, "logic">> :
                                reg \in {"req_coh_state", "lru_addr", "sharers"}})

\* The directory's inputs, as its command uses them.
DirFacts(d) ==
  LET wg == NameOf(DirWgSel, d.dir_way_group_sel)
      lce == NameOf(DirLceSel, d.dir_lce_sel)
      way == NameOf(DirWaySel, d.dir_way_sel)
      tag == NameOf(DirTagSel, d.dir_tag_sel)
      st == IF d.dir_coh_state_sel = DirCohSel.next_coh_st THEN "next_coh_state"
                                                           ELSE Digit(d.imm % 4)
      reads == CASE d.dir_r_cmd = MinorReadDir.rdp -> <<"rdp", wg>>
                 [] d.dir_r_cmd = MinorReadDir.rdw -> <<"rdw", wg>>
                 [] OTHER -> <<"rde", wg, lce, way>>
      writes == CASE d.dir_w_cmd = MinorWriteDir.wdp -> <<"wdp", wg, Digit(d.imm % 2)>>
                  [] d.dir_w_cmd = MinorWriteDir.wde -> <<"wde", wg, lce, way, tag, st>>
                  [] OTHER -> <<"wds", wg, lce, way, st>>
  IN  When(d.dir_r_v, {reads}) \cup When(d.dir_w_v, {writes})

\* The messages that leave and the queue whose head is taken.
QueueFacts(d) ==
  When(d.lce_cmd_v,
       {<<"push", "lce_cmd", NameOf(LceCmd, d.lce_cmd_cmd),
          NameOf(LceCmdLce, d.lce_cmd_lce_sel), NameOf(LceCmdAddr, d.lce_cmd_addr_sel),
          NameOf(LceCmdWay, d.lce_cmd_way_sel)>>})
  \cup When(d.lce_data_cmd_v, {<<"push", "lce_data_cmd">>})
  \cup When(d.mem_cmd_v, {<<"push", "mem_cmd">>})
  \cup When(d.mem_data_cmd_v,
            {<<"push", "mem_data_cmd", NameOf(MemDataCmdAddr, d.mem_data_cmd_addr_sel)>>})
  \cup When(d.lce_req_ready, {<<"pop", "lce_req">>})
  \cup When(d.lce_resp_ready, {<<"pop", "lce_resp">>})
  \cup When(d.lce_data_resp_ready, {<<"pop", "lce_data_resp">>})
  \cup When(d.mem_resp_ready, {<<"pop", "mem_resp">>})
  \cup When(d.mem_data_resp_ready, {<<"pop", "mem_data_resp">>})

\* Everything an instruction does when it completes; one that stalls the PC
\* for good, or waits, says so.
Effects(i) ==
  LET d == Decode(i, DOMAIN DstQ)
  IN  BranchFacts(d) \cup WriteFacts(d) \cup FlagFacts(d) \cup RegFacts(d)
      \cup DirFacts(d) \cup QueueFacts(d)
      \cup (IF Is(i, Op.misc, MinorMisc.stall) THEN {<<"halt">>} ELSE {})
      \cup (IF Is(i, Op.queue, MinorQueue.wfq)
            THEN {<<"wait">>} \cup {<<"wait", q>> : q \in WfqMask(i)} ELSE {})
=============================================================================
