----------------------------- MODULE Microcode -----------------------------
(***************************************************************************)
(* From a microcode source text to the instructions a CCE executes: the    *)
(* assembler, the ROM that is generated from the memory image it writes,   *)
(* and the CCE that boots from the ROM and fetches.                        *)
(***************************************************************************)
EXTENDS AsmText, CceFetch, FiniteSets

VARIABLE power         \* whether the CCE is out of reset
vars == <<asmVars, fetchVars, power>>

Doc == INSTANCE CceIsa WITH Literal <- Stoi

TypeOK ==
  /\ AsmTypeOK /\ FetchTypeOK
  /\ power \in BOOLEAN
  /\ power => /\ mode \in {"done", "aborted"}
              /\ \E n \in 1 .. Len(image) : rom = SubSeq(image, 1, n)
              /\ mode = "done" => rom = image

Init == AsmInit /\ FetchInit /\ power = FALSE

\* roms.py makes the ROM from the image, a word per line.  It does not look
\* at the result of the command before: an assembler that gave up has left
\* the words it had written, and an exception loses what is still buffered.
Generate ==
  /\ ~power /\ mode \in {"done", "aborted"}
  /\ \E n \in 1 .. Len(image) :
       /\ mode = "done" => n = Len(image)
       /\ rom' = SubSeq(image, 1, n)
  /\ power' = TRUE
  /\ UNCHANGED <<asmVars, pcRegs, ram, ram_data_o, stall, taken>>

Assemble == AsmNext /\ UNCHANGED <<fetchVars, power>>
Run == power /\ Clock /\ UNCHANGED <<asmVars, power>>
Next == Assemble \/ Generate \/ Run

Spec == Init /\ [][Next]_vars
FairSpec == Spec /\ WF_vars(Next)

-----------------------------------------------------------------------------
(* The text, read without the assembler.                                   *)

LineEnds == {p \in DOMAIN text : text[p] = Newline}

\* The line that ends at p: its first place, all of them, and its words.
LineStart(p) == 1 + Max({0} \cup {q \in LineEnds : q < p})
LineAt(p) == LineStart(p) .. p - 1
WordsOf(lexeme) == IF lexeme = Blank THEN <<>> ELSE lexeme
Words(p) ==
  FlattenSeq([k \in 1 .. p - LineStart(p) |-> WordsOf(text[LineStart(p) + k - 1])])

\* The lines that are code: neither blank nor a comment.
CodeEnds ==
  {p \in LineEnds : \E q \in LineAt(p) :
     /\ text[q] \notin {Blank, Hash}
     /\ \A r \in LineAt(p) : r < q => text[r] = Blank}

\* The statements, with their labels.
Number(p) == Cardinality({q \in CodeEnds : q <= p})
Statements ==
  [k \in 1 .. Cardinality(CodeEnds) |-> Words(CHOOSE p \in CodeEnds : Number(p) = k)]

(* For a sequence of statements: the places of a label, the labels, what   *)
(* each stands for, and the statements without labels.                     *)
Labelled(s) == s[1] \in DOMAIN LabelKey
Places(ss, key) == {k \in DOMAIN ss : Labelled(ss[k]) /\ LabelKey[ss[k][1]] = key}
LabelsOf(ss) == {LabelKey[ss[k][1]] : k \in {j \in DOMAIN ss : Labelled(ss[j])}}
AddressOf(ss) == [key \in LabelsOf(ss) |-> (CHOOSE k \in Places(ss, key) : TRUE) - 1]
Program(ss) == [k \in DOMAIN ss |-> IF Labelled(ss[k]) THEN Tail(ss[k]) ELSE ss[k]]

\* What follows the last newline.
Rest == {text[q] : q \in {r \in DOMAIN text : \A p \in LineEnds : p < r}}

(* A text is clear if each of its lines is blank, or one statement of at   *)
(* most MAX_TOKENS words and nothing else but blanks, or a comment from    *)
(* its first character on, if nothing follows the last newline, if there   *)
(* are no more statements than addresses, and if no label stands in two    *)
(* places.                                                                 *)
Clear(ss) ==
  /\ \A p \in CodeEnds : \A q \in LineAt(p) : text[q] \notin {Hash, Semicolon}
  /\ Rest \subseteq {Blank}
  /\ Len(ss) <= AddrMod
  /\ \A k \in DOMAIN ss : Len(ss[k]) <= MaxTokens
  /\ \A key \in LabelsOf(ss) : Cardinality(Places(ss, key)) = 1

-----------------------------------------------------------------------------
(* Properties.                                                             *)

\* A clear text is assembled statement by statement: nothing is lost, split
\* or merged between readLine, tokenizeLine and parseLabels, and each label
\* stands for the address its statement gets in the image.
TextKept ==
  mode = "assemble" =>
    LET ss == Statements
    IN  Clear(ss) => tokens = Program(ss) /\ labels = AddressOf(ss)

\* What bp_as.h:48 says of labels_to_addr, a "map of labels from assembly code to
\* instruction addresses": wherever a label is written before a statement, it stands
\* for the place of that statement.  Addresses come from the count of newlines
\* (bp_as.cc:858), and a statement may end without one; a second place of a
\* label, which parseLabels means to refuse (bp_as.cc:1176-1178), keeps the first's.
LabelsAreAddresses ==
  mode = "assemble" =>
    \A k \in DOMAIN named : \A key \in named[k] : labels[key] = k - 1

\* The word that assemble has just written does, unpacked, decoded and
\* executed by the RTL, what inst.txt says of the statement: parser, header,
\* output order, struct of the RTL, decoder and muxes agree.
EffectsAsWritten ==
  LET s == tokens[at]
  IN  /\ mode = "assemble" /\ image # <<>>
      /\ Doc!Documented(s, labels) /\ ~Doc!Departs(s)
      => Effects(Unpack(Last(image))) = Doc!Meaning(s, labels)

\* An instruction that is executed is the one in the ROM at the PC.
ExecutesRom ==
  pc_state = "FETCH" /\ inst_v_r => Inst = Rom(ex_pc_r)

(* Which instruction a clock cycle leads to: the same one on a stall, else *)
(* the target of a taken branch, else the next address.  Only before the   *)
(* read address has once run ahead of the PC the same instruction comes    *)
(* again: pc_stall_i can rise on the RAM's first, unspecified output, and  *)
(* instruction 0 is then executed twice.                                   *)
NextPc ==
  pc_state = "FETCH" /\ inst_v_r =>
    /\ inst_v_r'
    /\ CASE stall -> ex_pc_r' = ex_pc_r
         [] ~stall /\ taken -> ex_pc_r' \in Targets(Rom(ex_pc_r))
         [] OTHER -> \/ ex_pc_r' = (ex_pc_r + 1) % Els
                     \/ ex_pc_r' = 0 /\ ex_pc_r = 0 /\ ram_addr_r = 0
    /\ ram_addr_r = (ex_pc_r + 1) % Els => ram_addr_r' = (ex_pc_r' + 1) % Els
FetchesInOrder == [][NextPc]_vars

(* From text to execution: a CCE that runs a clear text of which every     *)
(* statement was assembled executes them as inst.txt reads them.  stall    *)
(* never moves on, bi goes to its label, a conditional branch to its label *)
(* or to the next statement, wfq and pushq may wait, every other statement *)
(* takes one cycle; but the first one may be executed twice.               *)
StepAsWritten ==
  power /\ mode = "done" /\ pc_state = "FETCH" /\ inst_v_r =>
    LET ss == Statements
        s == Program(ss)[ex_pc_r + 1]
        labels_ == AddressOf(ss)
        follows == (ex_pc_r + 1) % Els
        target == Doc!Destination(labels_, s[Len(s)]) % Els
        may == CASE s[1] = "stall" -> {ex_pc_r}
                 [] s[1] = "bi" -> {target}
                 [] s[1] \in Doc!Branches -> {target, follows}
                 [] s[1] \in {"wfq", "pushq"} -> {ex_pc_r, follows}
                 [] OTHER -> {follows}
    IN  /\ Len(ss) <= Els /\ ex_pc_r < Len(ss)
        /\ Clear(ss) /\ Doc!Documented(s, labels_)
        => \/ ex_pc_r' \in may
           \/ ex_pc_r = 0 /\ ex_pc_r' = 0 /\ ram_addr_r = 0 /\ s[1] # "stall"
RunsAsWritten == [][StepAsWritten]_vars

(* Everything comes to an end: the assembler gives up or finishes, without *)
(* an image or with one that the CCE then boots and executes.  The one     *)
(* text it never finishes ends in a comment behind a statement.            *)
Settles ==
  <>(\/ mode = "aborted"
     \/ mode = "spin" /\ text # <<>> /\ Rest \cap {Hash} # {}
     \/ mode = "done" /\ image = <<>>
     \/ pc_state = "FETCH" /\ inst_v_r)
=============================================================================
