----------------------------- MODULE CceFetch -----------------------------
(***************************************************************************)
(* bp_cce_pc.v: the CCE copies its microcode ROM into the instruction RAM, *)
(* and then fetches.  The RAM answers a cycle later, so the address of the *)
(* instruction after the next one (ram_addr_r) runs ahead of the address   *)
(* of the instruction in execution (ex_pc_r), and a stall or a taken       *)
(* branch overrides the former.                                            *)
(*                                                                         *)
(* One step is one clock cycle.  What decode and the ALU answer in a cycle *)
(* (pc_stall_i, alu_branch_res_i) are variables; they depend on the        *)
(* instruction and on queues and operands that are left open.              *)
(***************************************************************************)
EXTENDS CceDecode

CONSTANT Els         \* inst_ram_els_p
\* Addresses have clog2(Els) bits, and one at least: for any other number
\* they would not wrap at Els.
ASSUME ElsAssumption == Els \in Nat \ {0} /\ \E k \in 1 .. Els : Els = 2 ^ k

Addr == 0 .. Els - 1
PcState == {"BOOT", "BOOT_END", "FETCH"}

(* A word about which nothing is known: X in the ROM behind the last       *)
(* instruction, and the RAM's output in the cycle after a write.           *)
Unknown == <<>>

VARIABLES
  rom,                                 \* the words of the boot ROM
  pc_state, boot_rom_addr_r,
  ram_v_r, ram_w_r, ram_addr_r, ram_data_i_r,
  ex_pc_r, inst_v_r,
  ram, ram_data_o,                     \* the RAM's contents and its output
  stall, taken                         \* pc_stall_i and alu_branch_res_i
pcRegs == <<pc_state, boot_rom_addr_r, ram_v_r, ram_w_r, ram_addr_r, ram_data_i_r,
            ex_pc_r, inst_v_r>>
fetchVars == <<rom, pcRegs, ram, ram_data_o, stall, taken>>

\* boot_rom_data_i, and inst_o in state FETCH.
Rom(a) == IF a < Len(rom) THEN rom[a + 1] ELSE Unknown
Inst == ram_data_o

\* The answers of decode to a word: with some message in every queue and
\* room in all of them, or with none.  No queue is the pending queue, whose
\* valid signal is tied to zero.
Stalls(word) ==
  IF word = Unknown THEN BOOLEAN
  ELSE UNION {{PcStall(i, DOMAIN SrcQ \ {"pending"}, DOMAIN DstQ), PcStall(i, {}, {})} :
                i \in {Unpack(word)}}

\* The ALU's branch result; the operands are open, bi needs none.
Conditional == {MinorBranch.beq, MinorBranch.bne, MinorBranch.blt, MinorBranch.ble}
Takes(word, valid) ==
  IF ~valid THEN {FALSE}
  ELSE IF word = Unknown THEN BOOLEAN
  ELSE UNION {IF d.alu_v = 1 /\ d.minor_op = MinorBranch.bi THEN {TRUE}
              ELSE IF d.alu_v = 1 /\ d.minor_op \in Conditional THEN BOOLEAN
              ELSE {FALSE} : d \in {Decode(i, {}) : i \in {Unpack(word)}}}

\* pc_branch_target_o: the low bits of the immediate.
Targets(word) ==
  {a \in Addr : word = Unknown \/ \E i \in {Unpack(word)} : a = i.imm % Els}

FetchTypeOK ==
  /\ pc_state \in PcState
  /\ {boot_rom_addr_r, ram_addr_r, ex_pc_r} \subseteq Addr
  /\ {ram_v_r, ram_w_r, inst_v_r, stall, taken} \subseteq BOOLEAN
  /\ DOMAIN ram = Addr

\* In reset, with no ROM yet; the RAM holds nothing that was written to it.
FetchInit ==
  /\ rom = <<>>
  /\ pc_state = "BOOT" /\ boot_rom_addr_r = 0
  /\ ram_v_r = FALSE /\ ram_w_r = FALSE /\ ram_addr_r = 0 /\ ram_data_i_r = Unknown
  /\ ex_pc_r = 0 /\ inst_v_r = FALSE
  /\ ram = [a \in Addr |-> Unknown] /\ ram_data_o = Unknown
  /\ stall = FALSE /\ taken = FALSE

\* The RAM's one port: bsg_mem_1rw_sync.
Port(v, w, a, data) ==
  IF v /\ w THEN ram' = [ram EXCEPT ![a] = data] /\ ram_data_o' = Unknown
  ELSE ram_data_o' = (IF v THEN ram[a] ELSE ram_data_o) /\ UNCHANGED ram

\* Decode sees a zero instruction outside FETCH, and its stall output, unlike
\* the rest of the decoded instruction, does not wait for a valid one.
Answers ==
  IF pc_state' = "FETCH"
  THEN stall' \in Stalls(Inst') /\ taken' \in Takes(Inst', inst_v_r')
  ELSE stall' = FALSE /\ taken' = FALSE

\* Mutation: the address is compared with a value it never takes.
BootDoneNever == boot_rom_addr_r = Els
BootDone == boot_rom_addr_r = Els - 1

\* Mutation: the sum has a bit more than the address.
NextAddrWide(a) == a + 1
NextAddr(a) == (a + 1) % Els

Boot ==
  /\ pc_state = "BOOT"
  /\ Port(ram_v_r, ram_w_r, ram_addr_r, ram_data_i_r)
  /\ ram_v_r' = TRUE /\ ram_w_r' = TRUE
  /\ ram_addr_r' = boot_rom_addr_r /\ ram_data_i_r' = Rom(boot_rom_addr_r)
  /\ pc_state' = IF BootDone THEN "BOOT_END" ELSE "BOOT"
  /\ boot_rom_addr_r' = NextAddr(boot_rom_addr_r)
  /\ ex_pc_r' = 0 /\ inst_v_r' = FALSE
  /\ Answers /\ UNCHANGED rom

BootEnd ==
  /\ pc_state = "BOOT_END"
  /\ Port(ram_v_r, ram_w_r, ram_addr_r, ram_data_i_r)
  /\ ram_v_r' = TRUE /\ ram_w_r' = FALSE
  /\ ram_addr_r' = 0 /\ ram_data_i_r' = Unknown
  /\ pc_state' = "FETCH" /\ boot_rom_addr_r' = 0
  /\ ex_pc_r' = 0 /\ inst_v_r' = FALSE
  /\ Answers /\ UNCHANGED rom

\* Mutation: a stall does not hold the read address.
ReadAddrAhead(target) == IF taken THEN target ELSE ram_addr_r
\* ram_addr_i in FETCH: a stall comes before a branch.
ReadAddr(target) ==
  IF stall THEN ex_pc_r ELSE IF taken THEN target ELSE ram_addr_r

\* Mutation: the target itself is fetched again behind a branch.
FollowingSame(target) ==
  IF stall THEN ram_addr_r ELSE IF taken THEN target ELSE NextAddr(ram_addr_r)
\* The next value of ram_addr_r.
Following(target) ==
  IF stall THEN ram_addr_r ELSE NextAddr(IF taken THEN target ELSE ram_addr_r)

Fetch ==
  /\ pc_state = "FETCH"
  /\ \E target \in Targets(Inst) :
       /\ Port(ram_v_r, FALSE, ReadAddr(target), Unknown)
       /\ ex_pc_r' = IF stall THEN ex_pc_r ELSE IF taken THEN target ELSE ram_addr_r
       /\ ram_addr_r' = Following(target)
  /\ ram_v_r' = TRUE /\ ram_w_r' = FALSE /\ ram_data_i_r' = Unknown
  /\ inst_v_r' = TRUE
  /\ pc_state' = "FETCH" /\ boot_rom_addr_r' = 0
  /\ Answers /\ UNCHANGED rom

Clock == Boot \/ BootEnd \/ Fetch
=============================================================================
