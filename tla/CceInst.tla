------------------------------ MODULE CceInst ------------------------------
(***************************************************************************)
(* The CCE microcode instruction as the C headers define it: the codes of  *)
(* every field, and the struct with the width of each field                *)
(* (bp_cce_inst.h).  The RTL keeps a second copy of the same definitions   *)
(* in bp_cce_inst.vh; CceDecode takes a word apart by that copy.           *)
(*                                                                         *)
(* A word has 95 bits, more than TLC's integers hold: it is a sequence of  *)
(* bits, the first one the most significant.                               *)
(***************************************************************************)
EXTENDS Integers, Sequences, SequencesExt

(* Operations.  Several mnemonics share a code: inc is add, bf, bz and bqr *)
(* are beq, and sf is movi.                                                *)
Op == [alu |-> 0, branch |-> 1, move |-> 2, flag |-> 2, read_dir |-> 4,
       write_dir |-> 5, misc |-> 6, queue |-> 7]

MinorAlu == [add |-> 0, inc |-> 0, sub |-> 1, dec |-> 1]
MinorBranch == [bi |-> 7, beq |-> 2, bne |-> 3, bz |-> 2, bnz |-> 3, bf |-> 2,
                bfz |-> 2, bqr |-> 2, blt |-> 4, ble |-> 5, bgt |-> 4, bge |-> 5]
MinorMov == [mov |-> 0, movi |-> 1]
MinorFlag == [sf |-> 1, sfz |-> 1]
MinorReadDir == [rdp |-> 0, rdw |-> 1, rde |-> 2]
MinorWriteDir == [wdp |-> 0, wde |-> 1, wds |-> 2]
MinorMisc == [gad |-> 0, stall |-> 7]
MinorQueue == [wfq |-> 0, pushq |-> 1, popq |-> 2]

(* The flags, in the order of their bits in the flag register and in the   *)
(* write mask.                                                             *)
FlagOrder == <<"rqf", "nerf", "ldf", "nwbf", "tf", "rf", "rwbf", "pf", "uf",
               "if", "ef", "pcf">>
FlagNames == {FlagOrder[k] : k \in 1 .. 12}
FlagSel == [f \in FlagNames |-> (CHOOSE k \in 1 .. 12 : FlagOrder[k] = f) - 1]
Flag == [f \in FlagNames |-> 2 ^ FlagSel[f]]

(* Operands.  A field of a record cannot be called 0 or 1: const_0 and     *)
(* const_1 keep the header's names, the selects of a zero are called zero. *)
Gpr == [r0 |-> 0, r1 |-> 1, r2 |-> 2, r3 |-> 3]

Src == [r0 |-> 0, r1 |-> 1, r2 |-> 2, r3 |-> 3, rqf |-> 4, nerf |-> 5, ldf |-> 6,
        nwbf |-> 7, tf |-> 8, rf |-> 9, rwbf |-> 10, pf |-> 11, uf |-> 12,
        if |-> 13, ef |-> 14, pcf |-> 15, const_0 |-> 16, const_1 |-> 17,
        imm |-> 18, req_lce |-> 19, ack_type |-> 20, sharers_hit_r0 |-> 21,
        lce_req_ready |-> 24, mem_resp_ready |-> 25, mem_data_resp_ready |-> 26,
        pending_ready |-> 27, lce_resp_ready |-> 28, lce_data_resp_ready |-> 29]

Dst == [r0 |-> 0, r1 |-> 1, r2 |-> 2, r3 |-> 3, rqf |-> 4, nerf |-> 5, ldf |-> 6,
        nwbf |-> 7, tf |-> 8, rf |-> 9, rwbf |-> 10, pf |-> 11, uf |-> 12,
        if |-> 13, ef |-> 14, pcf |-> 15, next_coh_state |-> 16]

(* Selects of the registers that are written from a queue or from the GAD  *)
(* logic.                                                                  *)
ReqSel == [lce_req |-> 0, mem_resp |-> 1, mem_data_resp |-> 2, pending |-> 3]
ReqAddrWaySel == [logic |-> 0, mem_resp |-> 1, mem_data_resp |-> 2]
LruWaySel == [lce_req |-> 0, mem_resp |-> 1, mem_data_resp |-> 2, pending |-> 3]
DataSel == [lce_data_resp |-> 0, mem_data_resp |-> 1]
TrLceSel == [logic |-> 0, mem_resp |-> 1]

(* Selects of the directory's inputs. *)
DirWgSel == [r0 |-> 0, r1 |-> 1, r2 |-> 2, r3 |-> 3, req_addr |-> 4,
             lru_way_addr |-> 5]
DirLceSel == [r0 |-> 0, r1 |-> 1, r2 |-> 2, r3 |-> 3, req_lce |-> 4,
              transfer_lce |-> 5]
DirWaySel == [r0 |-> 0, r1 |-> 1, r2 |-> 2, r3 |-> 3, req_addr_way |-> 4,
              lru_way_addr_way |-> 5, sh_way_r0 |-> 6]
DirCohSel == [next_coh_st |-> 0, inst_imm |-> 1]
DirTagSel == [req_addr |-> 0, lru_way_addr |-> 1, const_0 |-> 2]

(* Queues. *)
SrcQ == [lce_req |-> 0, mem_resp |-> 1, mem_data_resp |-> 2, pending |-> 3,
         lce_resp |-> 4, lce_data_resp |-> 5]
DstQ == [lce_cmd |-> 0, lce_data_cmd |-> 1, mem_cmd |-> 2, mem_data_cmd |-> 3]

(* Selects of the flags' sources. *)
RqfSel == [lce_req |-> 0, mem_resp |-> 1, mem_data_resp |-> 2, pending |-> 3,
           imm0 |-> 4]
NerldfSel == [lce_req |-> 0, pending |-> 1, imm0 |-> 2]
NwbfSel == [lce_data_resp |-> 0, imm0 |-> 1]
RwbfSel == [mem_resp |-> 0, imm0 |-> 1]
TfSel == [logic |-> 0, mem_resp |-> 1, imm0 |-> 2]
PruiefSel == [logic |-> 0, imm0 |-> 1]

(* Selects of the fields of outgoing messages. *)
LceCmdLce == [r0 |-> 0, r1 |-> 1, r2 |-> 2, r3 |-> 3, req_lce |-> 4,
              tr_lce |-> 5, zero |-> 6]
LceCmdAddr == [r0 |-> 0, r1 |-> 1, r2 |-> 2, r3 |-> 3, req_addr |-> 4,
               lru_way_addr |-> 5, zero |-> 6]
LceCmdWay == [req_addr_way |-> 0, tr_addr_way |-> 1, sh_list_r0 |-> 2,
              lru_addr_way |-> 3, zero |-> 4]
MemDataCmdAddr == [lru_way_addr |-> 0, req_addr |-> 1]

(* The instruction struct: its fields in order, each with its width.       *)
Layout ==
  <<<<"op", 3>>, <<"minor_op", 3>>, <<"src_a", 5>>, <<"src_b", 5>>, <<"dst", 5>>,
    <<"imm", 16>>,
    <<"req_sel", 2>>, <<"req_addr_way_sel", 2>>, <<"lru_way_sel", 2>>,
    <<"transfer_lce_sel", 1>>, <<"cache_block_data_sel", 1>>,
    <<"rqf_sel", 3>>, <<"nerldf_sel", 2>>, <<"nwbf_sel", 1>>, <<"tf_sel", 2>>,
    <<"pruief_sel", 1>>, <<"rwbf_sel", 1>>,
    <<"dir_way_group_sel", 3>>, <<"dir_lce_sel", 3>>, <<"dir_way_sel", 3>>,
    <<"dir_coh_state_sel", 1>>, <<"dir_tag_sel", 2>>,
    <<"lce_cmd_lce_sel", 3>>, <<"lce_cmd_addr_sel", 3>>, <<"lce_cmd_way_sel", 3>>,
    <<"mem_data_cmd_addr_sel", 1>>,
    <<"req_w_v", 1>>, <<"req_addr_way_w_v", 1>>, <<"lru_way_w_v", 1>>,
    <<"transfer_lce_w_v", 1>>, <<"cache_block_data_w_v", 1>>, <<"ack_type_w_v", 1>>,
    <<"flag_mask_w_v", 12>>>>

Fields == {Layout[k][1] : k \in 1 .. Len(Layout)}

\* inst = {}: every field zero, which is the instruction add r0 r0 r0.
Zero == [f \in Fields |-> 0]

\* The CCE to LCE commands of bp_common_me_if.h.
LceCmd == [sync |-> 0, set_clear |-> 1, transfer |-> 2, writeback |-> 3,
           set_tag |-> 4, set_tag_wakeup |-> 5, invalidate_tag |-> 6]
=============================================================================
