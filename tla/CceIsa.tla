------------------------------- MODULE CceIsa -------------------------------
(***************************************************************************)
(* What a microcode statement means: the syntax that asm/microcode/inst.txt*)
(* documents, and for every statement of that syntax the facts that an     *)
(* execution of it establishes.  It knows of no encoding: the assembler,   *)
(* the word and the decoder have to agree with it together.                *)
(*                                                                         *)
(* Facts are the tuples of CceDecode.  Where inst.txt names an operand     *)
(* only, the meaning is the one the demo microcode relies on.              *)
(***************************************************************************)
EXTENDS Integers, Sequences

CONSTANT Literal    \* the value of a numeral

-----------------------------------------------------------------------------
(* Operands: the documented words, and what they stand for.                *)

Gpr == [r0 |-> "r0", r1 |-> "r1", r2 |-> "r2", r3 |-> "r3"]
FlagNames == {"rqf", "nerf", "ldf", "nwbf", "tf", "rf", "rwbf", "pf", "uf", "if", "ef",
              "pcf"}
Queue == [lcereq |-> "lce_req", lceresp |-> "lce_resp", lcedataresp |-> "lce_data_resp",
          memresp |-> "mem_resp", memdataresp |-> "mem_data_resp",
          pending |-> "pending"]
Ready == [lcereq |-> "lce_req_ready", lceresp |-> "lce_resp_ready",
          lcedataresp |-> "lce_data_resp_ready", memresp |-> "mem_resp_ready",
          memdataresp |-> "mem_data_resp_ready", pending |-> "pending_ready"]
Source == [r0 |-> "r0", r1 |-> "r1", r2 |-> "r2", r3 |-> "r3", reqlce |-> "req_lce",
           acktype |-> "ack_type", shr0 |-> "sharers_hit_r0"]
WayGroup == [r0 |-> "r0", r1 |-> "r1", r2 |-> "r2", r3 |-> "r3", req |-> "req_addr",
             lru |-> "lru_way_addr"]
EntryLce == [r0 |-> "r0", r1 |-> "r1", r2 |-> "r2", r3 |-> "r3", req |-> "req_lce",
             tr |-> "transfer_lce"]
EntryWay == [r0 |-> "r0", r1 |-> "r1", r2 |-> "r2", r3 |-> "r3",
             req |-> "req_addr_way", lru |-> "lru_way_addr_way",
             shwayr0 |-> "sh_way_r0"]
Tag == [w \in {"req", "lru", "0"} |->
          CASE w = "req" -> "req_addr" [] w = "lru" -> "lru_way_addr"
            [] w = "0" -> "const_0"]
CohState == [w \in {"nextcohst", "i", "s", "e", "m", "0", "1", "2", "3"} |->
               CASE w = "nextcohst" -> "next_coh_state"
                 [] w \in {"i", "0"} -> "0" [] w \in {"s", "1"} -> "1"
                 [] w \in {"e", "2"} -> "2" [] w \in {"m", "3"} -> "3"]
Bit == [w \in {"0", "1"} |-> w]
Command == [w \in {"0", "1", "2", "3", "4", "5", "6"} |->
              CASE w = "0" -> "sync" [] w = "1" -> "set_clear" [] w = "2" -> "transfer"
                [] w = "3" -> "writeback" [] w = "4" -> "set_tag"
                [] w = "5" -> "set_tag_wakeup" [] w = "6" -> "invalidate_tag"]
CommandLce == [r0 |-> "r0", r1 |-> "r1", r2 |-> "r2", r3 |-> "r3", req |-> "req_lce",
               tr |-> "tr_lce"]
CommandAddr == [req |-> "req_addr", lru |-> "lru_way_addr"]
CommandWay == [req |-> "req_addr_way", tr |-> "tr_addr_way", shwayr0 |-> "sh_list_r0",
               lru |-> "lru_addr_way"]

\* What the head of a queue is written to when it is popped.
Loads == [lcereq |-> {"req", "lru_way"},
          memresp |-> {"req", "req_addr_way", "lru_way", "transfer_lce"},
          memdataresp |-> {"req", "req_addr_way", "lru_way", "cache_block_data"},
          lceresp |-> {"ack_type"}, lcedataresp |-> {"cache_block_data"}]
LoadsFlags == [lcereq |-> {"rqf", "nerf", "ldf"}, memresp |-> {"rqf", "rwbf", "tf"},
               memdataresp |-> {"rqf"}, lceresp |-> {}, lcedataresp |-> {"nwbf"}]

-----------------------------------------------------------------------------
(* Statements.                                                             *)

Compares == [beq |-> "=", bne |-> "#", blt |-> "<", ble |-> "<=", bgt |-> ">",
             bge |-> ">="]
Mirror == [r \in {"=", "#", "<", "<=", ">", ">="} |->
             CASE r = "<" -> ">" [] r = ">" -> "<" [] r = "<=" -> ">="
               [] r = ">=" -> "<=" [] OTHER -> r]
Branches == DOMAIN Compares \cup {"bz", "bnz", "bf", "bfz", "bqr"}
Against == [bz |-> <<"=", "0">>, bnz |-> <<"#", "0">>]

\* The operands of every statement but wfq, pushq and popq, as the sets of
\* words each may be; targets and numerals are looked at separately.
Numerals == {w \in DOMAIN Literal : Literal[w] \in 0 .. 65535}
Target(labels) == DOMAIN labels \cup Numerals
Mnemonics == {"add", "sub", "inc", "dec", "bi", "bz", "bnz", "bf", "bfz", "bqr", "mov",
              "movi", "sf", "sfz", "rdp", "rdw", "rde", "wdp", "wde", "wds", "gad",
              "stall", "popq"} \cup DOMAIN Compares
Syntax(n, labels) ==
  LET gpr == DOMAIN Gpr
      src == DOMAIN Source
      target == Target(labels)
      wg == DOMAIN WayGroup
      lce == DOMAIN EntryLce
      way == DOMAIN EntryWay
      st == DOMAIN CohState
  IN  CASE n \in {"add", "sub"} -> <<gpr, gpr, gpr>>
        [] n \in {"inc", "dec"} -> <<gpr>>
        [] n = "bi" -> <<target>>
        [] n \in DOMAIN Compares -> <<src, src, target>>
        [] n \in DOMAIN Against -> <<src, target>>
        [] n \in {"bf", "bfz"} -> <<FlagNames, target>>
        [] n = "bqr" -> <<DOMAIN Queue, target>>
        [] n = "mov" -> <<gpr, gpr \cup {"nextcohst"}>>
        [] n = "movi" -> <<Numerals, gpr>>
        [] n \in {"sf", "sfz"} -> <<FlagNames>>
        [] n \in {"rdp", "rdw"} -> <<wg>>
        [] n = "rde" -> <<wg, lce, way>>
        [] n = "wdp" -> <<wg, DOMAIN Bit>>
        [] n = "wde" -> <<wg, lce, way, DOMAIN Tag, st>>
        [] n = "wds" -> <<wg, lce, way, st>>
        [] n \in {"gad", "stall"} -> <<>>
        [] n = "popq" -> <<DOMAIN Queue>>

Pushes ==
  {<<"pushq", "lcedatacmd">>, <<"pushq", "memcmd">>}
  \cup {<<"pushq", "memdatacmd", a>> : a \in DOMAIN CommandAddr}

(* A state name or a constant may also follow movi when the destination is *)
(* the next coherence state.  The last three operands of a command may be  *)
(* left out from the right, and are then zero.                             *)
Documented(ts, labels) ==
  /\ ts # <<>>
  /\ LET n == Head(ts)
         operands == Tail(ts)
         syntax == Syntax(n, labels)
         fits(classes) == /\ Len(operands) <= Len(classes)
                          /\ \A k \in 1 .. Len(operands) : operands[k] \in classes[k]
     IN  \/ /\ n \in Mnemonics
            /\ Len(operands) = Len(syntax) /\ fits(syntax)
         \/ /\ n = "movi" /\ Len(operands) = 2
            /\ operands[1] \in DOMAIN CohState \ {"nextcohst"}
            /\ operands[2] = "nextcohst"
         \/ /\ n = "wfq" /\ operands # <<>>
            /\ \A k \in 1 .. Len(operands) : operands[k] \in DOMAIN Queue
         \/ /\ n = "pushq" /\ Len(operands) >= 2 /\ operands[1] = "lcecmd"
            /\ fits(<<{"lcecmd"}, DOMAIN Command, DOMAIN CommandLce,
                      DOMAIN CommandAddr, DOMAIN CommandWay>>)
         \/ ts \in Pushes

Destination(labels, w) == IF w \in DOMAIN labels THEN labels[w] ELSE Literal[w]

Branch(x, rel, y, target) ==
  {<<"taken", x, rel, y>>, <<"taken", y, Mirror[rel], x>>,
   <<"target", target>>}

Operand(ts, k, table) == IF k <= Len(ts) THEN table[ts[k]] ELSE "zero"

Meaning(ts, labels) ==
  LET n == Head(ts)
      last == Destination(labels, ts[Len(ts)])
      wg == WayGroup[ts[2]]
      lce == EntryLce[ts[3]]
      way == EntryWay[ts[4]]
  IN
  CASE n \in {"add", "sub"} -> {<<"write", ts[4], n, ts[2], ts[3]>>}
    [] n = "inc" -> {<<"write", ts[2], "add", ts[2], "1">>}
    [] n = "dec" -> {<<"write", ts[2], "sub", ts[2], "1">>}
    [] n = "bi" -> {<<"taken", "always">>, <<"target", last>>}
    [] n \in DOMAIN Compares -> Branch(Source[ts[2]], Compares[n], Source[ts[3]], last)
    [] n \in DOMAIN Against ->
         Branch(Source[ts[2]], Against[n][1], Against[n][2], last)
    [] n = "bf" -> Branch(ts[2], "=", "1", last)
    [] n = "bfz" -> Branch(ts[2], "=", "0", last)
    [] n = "bqr" -> Branch(Ready[ts[2]], "=", "1", last)
    [] n = "mov" ->
         IF ts[3] = "nextcohst" THEN {<<"write", "next_coh_state", "copy", ts[2]>>}
         ELSE IF ts[2] = ts[3] THEN {} ELSE {<<"write", ts[3], "copy", ts[2]>>}
    [] n = "movi" ->
         IF ts[3] = "nextcohst"
         THEN {<<"write", "next_coh_state", "copy", CohState[ts[2]]>>}
         ELSE {<<"write", ts[3], "copy", "imm">>, <<"imm", Literal[ts[2]]>>}
    [] n = "sf" -> {<<"flag", ts[2], "1">>}
    [] n = "sfz" -> {<<"flag", ts[2], "0">>}
    [] n \in {"rdp", "rdw"} -> {<<n, wg>>, <<"flag", "pf", "directory">>}
    [] n = "rde" -> {<<n, wg, lce, way>>}
    [] n = "wdp" -> {<<n, wg, Bit[ts[3]]>>}
    [] n = "wde" -> {<<n, wg, lce, way, Tag[ts[5]], CohState[ts[6]]>>}
    [] n = "wds" -> {<<n, wg, lce, way, CohState[ts[5]]>>}
    [] n = "gad" ->
         {<<"load", r, "logic">> : r \in {"transfer_lce", "req_addr_way",
                                          "req_coh_state", "lru_addr", "sharers"}}
         \cup {<<"flag", f, "logic">> : f \in {"tf", "rf", "uf", "if", "ef"}}
    [] n = "stall" -> {<<"halt">>}
    [] n = "wfq" -> {<<"wait">>} \cup {<<"wait", Queue[ts[k]]>> : k \in 2 .. Len(ts)}
    [] n = "popq" ->
         {<<"pop", Queue[ts[2]]>>}
         \cup {<<"load", r, Queue[ts[2]]>> : r \in Loads[ts[2]]}
         \cup {<<"flag", f, Queue[ts[2]]>> : f \in LoadsFlags[ts[2]]}
    [] n = "pushq" /\ ts[2] = "lcecmd" ->
         {<<"push", "lce_cmd", Command[ts[3]], Operand(ts, 4, CommandLce),
            Operand(ts, 5, CommandAddr), Operand(ts, 6, CommandWay)>>}
    [] n = "pushq" /\ ts[2] = "memdatacmd" ->
         {<<"push", "mem_data_cmd", CommandAddr[ts[3]]>>}
    [] ts = <<"pushq", "lcedatacmd">> -> {<<"push", "lce_data_cmd">>}
    [] ts = <<"pushq", "memcmd">> -> {<<"push", "mem_cmd">>}

(* Documented statements that the code gives another meaning, each of them *)
(* an open end of this version of it:                                      *)
(*   - wds with a constant state: the assembler drops the constant, and    *)
(*     state I is written;                                                 *)
(*   - mov to the next coherence state: the register file takes the        *)
(*     immediate, not the operand;                                         *)
(*   - the pending queue, which is not built: it is never ready, and       *)
(*     popping it loads zeros.                                             *)
Departs(ts) ==
  \/ ts[1] = "wds" /\ ts[5] # "nextcohst"
  \/ ts[1] = "mov" /\ ts[3] = "nextcohst"
  \/ ts[1] \in {"bqr", "popq"} /\ ts[2] = "pending"
=============================================================================
