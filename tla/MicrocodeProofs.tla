-------------------------- MODULE MicrocodeProofs --------------------------
(***************************************************************************)
(* Proofs about Microcode, for every instruction RAM, text and argument    *)
(* list: what boot and fetch hold in each cycle, the types, that no        *)
(* statement of a clear text is lost, and that a CCE executes the          *)
(* statements in the order inst.txt gives them.  What is known of one      *)
(* instruction comes from InstProofs.                                      *)
(***************************************************************************)
EXTENDS InstProofs

-----------------------------------------------------------------------------
(* Boot and fetch.                                                         *)

\* The first n words of the ROM are in the RAM.
Copied(n) == \A a \in Addr : a < n => ram[a] = Rom(a)

\* Nothing has happened since reset.
Fresh == pc_state = "BOOT" /\ boot_rom_addr_r = 0 /\ ~ram_v_r

\* The RAM's registered inputs hold the write of the word at address a.
Writing(a) == ram_v_r /\ ram_w_r /\ ram_addr_r = a /\ ram_data_i_r = Rom(a)

(* In each state of the fetch FSM: how much of the ROM has been copied and *)
(* what is on its way, and how the RAM's output and the next read address  *)
(* relate to the PC.                                                       *)
FetchInv ==
  /\ FetchTypeOK
  /\ ~power => Fresh
  /\ pc_state = "BOOT" =>
       \/ Fresh
       \/ /\ boot_rom_addr_r > 0
          /\ Writing(boot_rom_addr_r - 1) /\ Copied(boot_rom_addr_r - 1)
  /\ pc_state = "BOOT_END" => Writing(Els - 1) /\ Copied(Els - 1)
  /\ pc_state = "FETCH" =>
       /\ Copied(Els) /\ ram_v_r
       /\ inst_v_r => ram_data_o = Rom(ex_pc_r)
       /\ \/ ram_addr_r = (ex_pc_r + 1) % Els
          \/ ram_addr_r = 0 /\ ex_pc_r = 0

LEMMA AddrFacts ==
  /\ 0 \in Addr
  /\ \A a \in Addr : NextAddr(a) \in Addr
  /\ \A a \in Addr : a # Els - 1 => NextAddr(a) = a + 1
BY ElsAssumption DEF Addr, NextAddr

LEMMA AnswersTyped == ASSUME Answers PROVE stall' \in BOOLEAN /\ taken' \in BOOLEAN
<1>1. Stalls(Inst') \subseteq BOOLEAN
  <2>1. \A i, valid, ready : PcStall(i, valid, ready) \in BOOLEAN
    BY Zenon DEF PcStall
  <2> QED BY <2>1 DEF Stalls
<1>2. Takes(Inst', inst_v_r') \subseteq BOOLEAN
  BY DEF Takes
<1> QED
  BY <1>1, <1>2 DEF Answers

\* A write of the word at address a extends what is copied.
LEMMA WriteCopies ==
  ASSUME FetchTypeOK, NEW a \in Addr, Writing(a), Copied(a), rom' = rom,
         Port(ram_v_r, ram_w_r, ram_addr_r, ram_data_i_r)
  PROVE  /\ DOMAIN ram' = Addr
         /\ \A b \in Addr : b < a + 1 => ram'[b] = Rom(b)'
<1>1. ram' = [ram EXCEPT ![a] = Rom(a)]
  BY DEF Writing, Port
<1>2. \A b \in Addr : Rom(b)' = Rom(b)
  BY DEF Rom
<1> QED
  BY <1>1, <1>2 DEF FetchTypeOK, Copied, Addr

LEMMA BootStep == ASSUME FetchInv, power, Boot, UNCHANGED power PROVE FetchInv'
<1>1. FetchTypeOK /\ boot_rom_addr_r \in Addr /\ DOMAIN ram = Addr
  BY DEF FetchInv, FetchTypeOK
<1>2. stall' \in BOOLEAN /\ taken' \in BOOLEAN
  BY AnswersTyped DEF Boot
<1>3. rom' = rom /\ \A a \in Addr : Rom(a)' = Rom(a)
  BY DEF Boot, Rom
<1>4. /\ ram_v_r' = TRUE /\ ram_w_r' = TRUE /\ inst_v_r' = FALSE /\ ex_pc_r' = 0
      /\ ram_addr_r' = boot_rom_addr_r /\ ram_data_i_r' = Rom(boot_rom_addr_r)
      /\ boot_rom_addr_r' = NextAddr(boot_rom_addr_r)
  BY <1>1, <1>3 DEF Boot
<1>5. DOMAIN ram' = Addr /\ \A a \in Addr : a < boot_rom_addr_r => ram'[a] = Rom(a)'
  <2>1. CASE Fresh
    BY <2>1, <1>1 DEF Boot, Fresh, Port, Addr
  <2>2. CASE ~Fresh
    <3>1. boot_rom_addr_r > 0 /\ Writing(boot_rom_addr_r - 1) /\ Copied(boot_rom_addr_r - 1)
      BY <2>2 DEF FetchInv, Boot
    <3>2. boot_rom_addr_r - 1 \in Addr
      BY <3>1, <1>1, ElsAssumption DEF Addr
    <3> QED
      BY <3>1, <3>2, <1>1, <1>3, WriteCopies, ElsAssumption DEF Boot, Addr
  <2> QED BY <2>1, <2>2
<1>6. FetchTypeOK'
  BY <1>1, <1>2, <1>4, <1>5, AddrFacts DEF Boot, FetchTypeOK, PcState
<1>7. CASE boot_rom_addr_r = Els - 1
  BY <1>1, <1>3, <1>4, <1>5, <1>6, <1>7, ElsAssumption
  DEF Boot, BootDone, FetchInv, Writing, Copied, Addr
<1>8. CASE boot_rom_addr_r # Els - 1
  <2>1. boot_rom_addr_r' = boot_rom_addr_r + 1 /\ pc_state' = "BOOT"
    BY <1>1, <1>4, <1>8, AddrFacts DEF Boot, BootDone
  <2> QED
    <3>1. Writing(boot_rom_addr_r - 1)' /\ Copied(boot_rom_addr_r - 1)' /\ boot_rom_addr_r' > 0
      BY <2>1, <1>1, <1>3, <1>4, <1>5 DEF Writing, Copied, Addr
    <3> QED BY <2>1, <3>1, <1>6 DEF FetchInv
<1> QED BY <1>7, <1>8

LEMMA BootEndStep == ASSUME FetchInv, power, BootEnd, UNCHANGED power PROVE FetchInv'
<1>1. FetchTypeOK /\ Writing(Els - 1) /\ Copied(Els - 1) /\ Els - 1 \in Addr
  BY ElsAssumption DEF FetchInv, BootEnd, Addr
<1>2. stall' \in BOOLEAN /\ taken' \in BOOLEAN
  BY AnswersTyped DEF BootEnd
<1>3. DOMAIN ram' = Addr /\ Copied(Els)'
  BY <1>1, WriteCopies, ElsAssumption DEF BootEnd, Copied, Addr
<1>4. FetchTypeOK'
  BY <1>1, <1>2, <1>3, AddrFacts DEF BootEnd, FetchTypeOK, PcState
<1> QED
  BY <1>3, <1>4 DEF BootEnd, FetchInv

LEMMA FollowingTyped ==
  ASSUME FetchTypeOK, NEW target \in Addr
  PROVE  Following(target) \in Addr /\ ReadAddr(target) \in Addr
BY AddrFacts DEF FetchTypeOK, Following, ReadAddr

LEMMA FetchStep == ASSUME FetchInv, power, Fetch, UNCHANGED power PROVE FetchInv'
<1>1. FetchTypeOK /\ Copied(Els) /\ ram_v_r
  BY DEF FetchInv, Fetch
<1>2. stall' \in BOOLEAN /\ taken' \in BOOLEAN
  BY AnswersTyped DEF Fetch
<1>3. PICK target \in Targets(Inst) :
        /\ Port(ram_v_r, FALSE, ReadAddr(target), Unknown)
        /\ ex_pc_r' = IF stall THEN ex_pc_r ELSE IF taken THEN target ELSE ram_addr_r
        /\ ram_addr_r' = Following(target)
  BY Zenon DEF Fetch
<1>4. target \in Addr
  BY DEF Targets
<1>5. ex_pc_r' = ReadAddr(target) /\ ReadAddr(target) \in Addr /\ ram_addr_r' \in Addr
  BY <1>1, <1>3, <1>4, FollowingTyped DEF ReadAddr
<1>6. ram' = ram /\ ram_data_o' = Rom(ex_pc_r)'
  <2>1. ram' = ram /\ ram_data_o' = ram[ReadAddr(target)]
    BY <1>1, <1>3 DEF Port
  <2> QED
    BY <2>1, <1>1, <1>5, ElsAssumption DEF Copied, Addr, Rom, Fetch
<1>7. FetchTypeOK'
  BY <1>1, <1>2, <1>5, <1>6, AddrFacts DEF Fetch, FetchTypeOK, PcState
<1>8. \/ ram_addr_r' = (ex_pc_r' + 1) % Els
      \/ ram_addr_r' = 0 /\ ex_pc_r' = 0
  BY <1>1, <1>3, <1>4 DEF FetchInv, Fetch, Following, NextAddr
<1>9. Copied(Els)'
  BY <1>1, <1>6 DEF Copied, Rom, Fetch
<1> QED
  BY <1>6, <1>7, <1>8, <1>9 DEF Fetch, FetchInv
-----------------------------------------------------------------------------
(* From the steps to the specification.                                    *)

LEMMA FetchInvInit == ASSUME Init PROVE FetchInv
BY AddrFacts DEF Init, FetchInit, FetchInv, FetchTypeOK, PcState, Fresh

\* The ROM is generated while nothing depends on its contents yet.
LEMMA GenerateStep == ASSUME FetchInv, Generate PROVE FetchInv'
<1>1. FetchTypeOK' /\ Fresh'
  BY DEF FetchInv, Generate, pcRegs, FetchTypeOK, Fresh
<1> QED
  BY <1>1 DEF FetchInv, Fresh

LEMMA FetchInvUnchanged ==
  ASSUME FetchInv, UNCHANGED <<fetchVars, power>> PROVE FetchInv'
BY DEF FetchInv, fetchVars, pcRegs, FetchTypeOK, Fresh, Writing, Copied, Rom

LEMMA FetchInvNext == ASSUME FetchInv, [Next]_vars PROVE FetchInv'
<1>1. CASE Assemble
  BY <1>1, FetchInvUnchanged DEF Assemble
<1>2. CASE Generate
  BY <1>2, GenerateStep
<1>3. CASE Run
  BY <1>3, BootStep, BootEndStep, FetchStep DEF Run, Clock
<1>4. CASE UNCHANGED vars
  BY <1>4, FetchInvUnchanged DEF vars
<1> QED
  BY <1>1, <1>2, <1>3, <1>4 DEF Next

THEOREM FetchInvHolds == Spec => []FetchInv
<1>1. Init => FetchInv BY FetchInvInit
<1>2. FetchInv /\ [Next]_vars => FetchInv' BY FetchInvNext
<1> QED BY <1>1, <1>2, PTL DEF Spec

\* Whatever is executed is the word of the ROM at the PC: boot copies every
\* word before the first fetch, and the PC stays in step with the RAM's
\* registered output through stalls and branches (bp_cce_pc.v).
THEOREM RomIsExecuted == Spec => []ExecutesRom
<1>1. FetchInv => ExecutesRom BY DEF FetchInv, ExecutesRom, Inst
<1> QED BY <1>1, FetchInvHolds, PTL

\* A CCE runs only after the assembler has ended.
TypeCore == power => mode \in {"done", "aborted"}

LEMMA AssembleNeedsMode == ASSUME AsmNext PROVE mode \notin {"done", "aborted"}
BY DEF AsmNext, TakeFormat, TakeFile, Usage, ArgsDone, SkipBlank, SkipComment, TakePhrase,
       TakeBlank, EndLine, EndComment, EndOfFile, EndOfText, AssembleOne, Finish, Option,
       Reading

LEMMA TypeCoreHolds == Spec => []TypeCore
<1>1. Init => TypeCore
  BY DEF Init, TypeCore
<1>2. ASSUME TypeCore, [Next]_vars PROVE TypeCore'
  <2>1. CASE Assemble
    BY <1>2, <2>1, AssembleNeedsMode DEF Assemble, TypeCore, fetchVars
  <2>2. CASE Generate
    BY <2>2 DEF Generate, TypeCore, asmVars
  <2>3. CASE Run
    BY <1>2, <2>3 DEF Run, Clock, Boot, BootEnd, Fetch, TypeCore, asmVars
  <2>4. CASE UNCHANGED vars
    BY <1>2, <2>4 DEF vars, TypeCore, asmVars, fetchVars
  <2> QED BY <1>2, <2>1, <2>2, <2>3, <2>4 DEF Next
<1> QED BY <1>1, <1>2, PTL DEF Spec

(* The PC goes where the instruction in execution says, cycle by cycle,    *)
(* and the read address, once it has run ahead of the PC, stays ahead by   *)
(* one (bp_cce_pc.v): only before that is instruction 0 executed twice.    *)
LEMMA FetchesNext == ASSUME FetchInv, power, Fetch PROVE NextPc
<1>1. FetchTypeOK
  BY DEF FetchInv
<1>2. PICK target \in Targets(Inst) :
        /\ ex_pc_r' = IF stall THEN ex_pc_r ELSE IF taken THEN target ELSE ram_addr_r
        /\ ram_addr_r' = Following(target)
  BY Zenon DEF Fetch
<1>3. ASSUME pc_state = "FETCH", inst_v_r
      PROVE  /\ inst_v_r'
             /\ stall => ex_pc_r' = ex_pc_r
             /\ ~stall /\ taken => ex_pc_r' \in Targets(Rom(ex_pc_r))
             /\ ~stall /\ ~taken => \/ ex_pc_r' = (ex_pc_r + 1) % Els
                                    \/ ex_pc_r' = 0 /\ ex_pc_r = 0 /\ ram_addr_r = 0
  <2>1. Inst = Rom(ex_pc_r)
    BY <1>3 DEF FetchInv, Inst
  <2>2. \/ ram_addr_r = (ex_pc_r + 1) % Els
        \/ ram_addr_r = 0 /\ ex_pc_r = 0
    BY <1>3 DEF FetchInv
  <2>3. inst_v_r' = TRUE
    BY DEF Fetch
  <2> QED BY <1>2, <2>1, <2>2, <2>3
<1>4. ram_addr_r = (ex_pc_r + 1) % Els => ram_addr_r' = (ex_pc_r' + 1) % Els
  BY <1>1, <1>2 DEF Following, NextAddr
<1> QED
  BY <1>3, <1>4 DEF NextPc

THEOREM FetchOrder == Spec => FetchesInOrder
<1>1. ASSUME FetchInv, TypeCore, [Next]_vars PROVE [NextPc]_vars
  <2>1. CASE Assemble
    BY <1>1, <2>1, AssembleNeedsMode DEF Assemble, NextPc, FetchInv, Fresh, TypeCore
  <2>2. CASE Generate
    BY <1>1, <2>2 DEF Generate, NextPc, FetchInv, Fresh
  <2>3. CASE Run
    BY <1>1, <2>3, FetchesNext DEF Run, Clock, Boot, BootEnd, NextPc
  <2> QED BY <1>1, <2>1, <2>2, <2>3 DEF Next
<1> QED
  BY <1>1, FetchInvHolds, TypeCoreHolds, PTL DEF Spec, FetchesInOrder
-----------------------------------------------------------------------------
(* The types of the assembler.                                             *)

\* A line is made of words of the text; the rest is AsmTypeOK.
AsmInv == AsmTypeOK /\ line \in Seq(DOMAIN WithEof)

LEMMA TextFacts ==
  ASSUME text \in Texts
  PROVE  /\ text \in Seq(Seq(DOMAIN WithEof) \ {<<>>}) /\ Len(text) \in Nat
         /\ \A p \in 1 .. Len(text) :
              text[p] \in Seq(DOMAIN WithEof) /\ text[p] # <<>>
<1>1. text \in Seq(Seq(DOMAIN WithEof) \ {<<>>})
  BY TextAssumption
<1> QED BY <1>1, ElementOfSeq, LenProperties

\* The place that NextSign finds.
LEMMA NextSignIs ==
  ASSUME text \in Texts, NEW signs, NEW p \in 1 .. Len(text) + 1
  PROVE  /\ NextSign(signs, p) \in p .. Len(text) + 1
         /\ NextSign(signs, p) = Len(text) + 1 \/ text[NextSign(signs, p)] \in signs
         /\ \A r \in p .. NextSign(signs, p) - 1 : text[r] \notin signs
<1> DEFINE n == Len(text)
           T == {q \in p .. n + 1 : q = n + 1 \/ text[q] \in signs}
<1>1. n \in Nat BY TextFacts
<1>2. T \in SUBSET Nat /\ n + 1 \in T BY <1>1
<1>3. PICK q \in T : \A r \in T : q <= r
  <2> HIDE DEF T
  <2> QED BY <1>2, LeastNat
<1>4. /\ q \in p .. n + 1
      /\ q = n + 1 \/ text[q] \in signs
      /\ \A r \in p .. q - 1 : text[r] \notin signs
  BY <1>1, <1>3
<1> HIDE DEF T, n
<1>5. \E x \in p .. n + 1 : /\ x = n + 1 \/ text[x] \in signs
                            /\ \A r \in p .. x - 1 : text[r] \notin signs
  BY <1>4
<1>6. NextSign(signs, p)
        = CHOOSE x \in p .. n + 1 : /\ x = n + 1 \/ text[x] \in signs
                                    /\ \A r \in p .. x - 1 : text[r] \notin signs
  BY DEF NextSign, n
<1> QED BY <1>5, <1>6 DEF n

LEMMA AddrFits == \A n \in Nat : n % AddrMod \in 0 .. AddrMod - 1
BY DEF AddrMod

LEMMA WordIsString == ASSUME NEW w \in Seq(DOMAIN WithEof) PROVE w \in Seq(STRING)
BY TextAssumption, SeqMonotonic

\* The last line with EOF in it is made of words, too.
LEMMA GarbledType ==
  ASSUME line \in Seq(DOMAIN WithEof), line # <<>>, NEW rest \in Leftover
  PROVE  Garbled \o rest \in Seq(STRING) /\ Garbled \o rest # <<>>
<1>1. line \in Seq(STRING)
  BY WordIsString
<1>5. Len(line) \in Nat \ {0}
  BY <1>1, EmptySeq
<1>6. Len(line) \in 1 .. Len(line)
  BY <1>5
<1>7. WithEof[""] \in STRING
  BY TextAssumption
<1>2. WithEof[line[Len(line)]] \in STRING
  <2>1. line[Len(line)] \in DOMAIN WithEof BY <1>6, ElementOfSeq
  <2> QED BY <2>1, TextAssumption
<1>3. Garbled \in Seq(STRING) /\ Len(Garbled) > 0
  <2>1. CASE gap
    <3>1. Garbled = Append(line, WithEof[""]) BY <2>1 DEF Garbled
    <3>2. Append(line, WithEof[""]) \in Seq(STRING)
          /\ Len(Append(line, WithEof[""])) = Len(line) + 1
      BY <1>1, <1>7, AppendProperties
    <3>3. Len(line) + 1 > 0 BY <1>5
    <3> QED BY <3>1, <3>2, <3>3
  <2>2. CASE ~gap
    <3> DEFINE w == WithEof[line[Len(line)]]
    <3>1. Garbled = [line EXCEPT ![Len(line)] = w] BY <2>2 DEF Garbled
    <3>2. w \in STRING BY <1>2
    <3> HIDE DEF w
    <3>3. Garbled \in Seq(STRING) /\ Len(Garbled) = Len(line)
      BY <1>1, <1>6, <3>1, <3>2, ExceptSeq
    <3>4. Len(line) > 0 BY <1>5
    <3> QED BY <3>3, <3>4
  <2> QED BY <2>1, <2>2
<1>4. rest \in Seq(STRING) BY TextAssumption
<1> QED BY <1>3, <1>4

\* What a statement leaves, for any words.
LEMMA StatementType ==
  ASSUME AsmInv, NEW words \in Seq(STRING), words # <<>>,
         NEW lines \in 0 .. AddrMod - 1,
         Statement(words, lines), pos' \in 1 .. Len(text) + 1
  PROVE  AsmInv'
<1>1. /\ line' = <<>> /\ gap' = FALSE /\ line_number' = lines /\ mode' \in Modes
      /\ args' = args /\ format' = format /\ text' = text /\ at' = at /\ image' = image
  BY DEF Statement, AsmInv, AsmTypeOK, Modes
<1> DEFINE key == IF words[1] \in DOMAIN LabelKey THEN {LabelKey[words[1]]} ELSE {}
<1>2. \/ UNCHANGED <<labels, tokens, named>>
      \/ /\ labels' \in {labels, Insert(labels, LabelKey[words[1]], (lines + AddrMod - 1) % AddrMod)}
         /\ tokens' \in {Append(tokens, Shorten(words)), Append(tokens, Tail(Shorten(words)))}
         /\ named' = Append(named, key)
  BY DEF Statement
<1>3. (lines + AddrMod - 1) % AddrMod \in 0 .. AddrMod - 1
  <2>1. lines + AddrMod - 1 \in Nat BY DEF AddrMod
  <2> QED BY <2>1, AddrFits
<1>4. labels' \in [DOMAIN labels' -> 0 .. AddrMod - 1]
  <2>1. labels \in [DOMAIN labels -> 0 .. AddrMod - 1] BY DEF AsmInv, AsmTypeOK
  <2> DEFINE a == (lines + AddrMod - 1) % AddrMod
             k == LabelKey[words[1]]
  <2>2. a \in 0 .. AddrMod - 1 BY <1>3
  <2>3. labels' = labels \/ labels' = Insert(labels, k, a) BY <1>2
  <2> HIDE DEF a, k
  <2> QED BY <2>1, <2>2, <2>3 DEF Insert
<1>5. Shorten(words) \in Seq(STRING) /\ Shorten(words) # <<>>
  <2>1. Len(words) > 0 /\ Len(words) \in Nat BY EmptySeq
  <2>2. CASE Len(words) > MaxTokens
    <3>1. MaxTokens \in Nat \ {0} BY TextAssumption
    <3> QED BY <2>1, <2>2, <3>1 DEF Shorten
  <2>3. CASE ~(Len(words) > MaxTokens)
    BY <2>3 DEF Shorten
  <2> QED BY <2>2, <2>3
<1>6. /\ tokens' \in Seq(Seq(STRING)) /\ at \in 0 .. Len(tokens')
      /\ named' \in Seq(SUBSET STRING) /\ Len(named') = Len(tokens')
  <2>1. /\ tokens \in Seq(Seq(STRING)) /\ at \in 0 .. Len(tokens)
        /\ named \in Seq(SUBSET STRING) /\ Len(named) = Len(tokens)
    BY DEF AsmInv, AsmTypeOK
  <2>2. Tail(Shorten(words)) \in Seq(STRING) BY <1>5
  <2>3. key \in SUBSET STRING BY TextAssumption
  <2> HIDE DEF key
  <2>4. \/ tokens' = tokens /\ named' = named
        \/ \E s \in Seq(STRING) : tokens' = Append(tokens, s) /\ named' = Append(named, key)
    BY <1>2, <1>5, <2>2
  <2>5. CASE tokens' = tokens /\ named' = named
    BY <2>1, <2>5
  <2>6. ASSUME NEW s \in Seq(STRING), tokens' = Append(tokens, s), named' = Append(named, key)
        PROVE  /\ tokens' \in Seq(Seq(STRING)) /\ Len(tokens') = Len(tokens) + 1
               /\ named' \in Seq(SUBSET STRING) /\ Len(named') = Len(named) + 1
    <3>1. tokens' \in Seq(Seq(STRING)) /\ Len(tokens') = Len(tokens) + 1
      BY <2>1, <2>6
    <3>2. named' \in Seq(SUBSET STRING) /\ Len(named') = Len(named) + 1
      BY <2>1, <2>6, <2>3, AppendProperties
    <3> QED BY <3>1, <3>2
  <2>7. Len(tokens) \in Nat BY <2>1
  <2> QED BY <2>1, <2>4, <2>5, <2>6, <2>7
<1>7. line' \in Seq(DOMAIN WithEof) /\ line' \in Seq(STRING)
  BY <1>1
<1> QED BY <1>1, <1>4, <1>6, <1>7 DEF AsmInv, AsmTypeOK

\* The words that assemble writes are not looked at.
LEMMA AssembleType == ASSUME AsmInv, AssembleOne PROVE AsmInv'
<1>1. at \in 0 .. Len(tokens) /\ at < Len(tokens) /\ tokens \in Seq(Seq(STRING))
  BY DEF AsmInv, AsmTypeOK, AssembleOne
<1>2. \/ mode' = "aborted" /\ UNCHANGED <<at, image>>
      \/ /\ \E w : image' = Append(image, w) \/ image' = image
         /\ at' = at + 1 /\ mode' = mode
  BY DEF AssembleOne
<1>3. /\ image' = [k \in 1 .. Len(image') |-> image'[k]] /\ Len(image') \in 0 .. at'
      /\ at' \in 0 .. Len(tokens)
  <2>1. image = [k \in 1 .. Len(image) |-> image[k]] /\ Len(image) \in 0 .. at
    BY DEF AsmInv, AsmTypeOK
  <2> DEFINE S == {image[k] : k \in 1 .. Len(image)}
  <2>2. image \in Seq(S)
    <3>1. Len(image) \in Nat BY <1>1, <2>1
    <3>2. image \in [1 .. Len(image) -> S] BY <2>1
    <3> HIDE DEF S
    <3> QED BY <3>1, <3>2, SeqDef
  <2>3. CASE \E w : image' = Append(image, w)
    <3>1. PICK w : image' = Append(image, w) BY <2>3
    <3>2. image \in Seq(S \cup {w}) BY <2>2, SeqMonotonic, S \subseteq S \cup {w}
    <3> HIDE DEF S
    <3>3. image' \in Seq(S \cup {w}) /\ Len(image') = Len(image) + 1 BY <3>1, <3>2
    <3>4. image' = [k \in 1 .. Len(image') |-> image'[k]] BY <3>3, LenProperties
    <3> QED BY <1>1, <1>2, <2>1, <3>3, <3>4
  <2>4. CASE image' = image
    BY <1>1, <1>2, <2>1, <2>4
  <2> QED BY <1>2, <2>3, <2>4
<1>4. /\ mode' \in Modes
      /\ UNCHANGED <<args, format, text, pos, line, gap, line_number, tokens, labels, named>>
  BY <1>2 DEF AssembleOne, AsmInv, AsmTypeOK, Modes
<1> QED BY <1>3, <1>4 DEF AsmInv, AsmTypeOK

LEMMA AsmInvInit == Init => AsmInv
<1> SUFFICES ASSUME Init PROVE AsmInv OBVIOUS
<1>1. /\ mode = "args" /\ args \in Args /\ format \in Formats
      /\ text \in Texts /\ pos = 1 /\ line = <<>> /\ gap = FALSE
      /\ line_number = 0 /\ tokens = <<>> /\ labels = << >>
      /\ at = 0 /\ image = <<>> /\ named = <<>>
  BY DEF Init, AsmInit
<1>2. args \in Seq(STRING) /\ 1 \in 1 .. Len(text) + 1
  <2>1. args \in Seq(STRING) BY <1>1, TextAssumption
  <2>2. Len(text) \in Nat BY <1>1, TextFacts
  <2> QED BY <2>1, <2>2
<1>3. labels \in [DOMAIN labels -> 0 .. AddrMod - 1]
  <2>1. labels = [k \in {} |-> 0] BY <1>1
  <2> QED BY <2>1
<1>4. /\ tokens \in Seq(Seq(STRING)) /\ line \in Seq(DOMAIN WithEof) /\ line \in Seq(STRING)
      /\ named \in Seq(SUBSET STRING)
      /\ Len(tokens) = 0 /\ Len(named) = 0 /\ Len(image) = 0
  BY <1>1
<1>5. image = [k \in 1 .. Len(image) |-> image[k]]
  BY <1>1
<1>6. mode \in Modes /\ gap \in BOOLEAN /\ line_number \in 0 .. AddrMod - 1
  <2>1. mode \in Modes BY <1>1 DEF Modes
  <2>2. line_number \in 0 .. AddrMod - 1
    <3>1. line_number = 0 BY <1>1
    <3> QED BY <3>1 DEF AddrMod
  <2>3. gap \in BOOLEAN BY <1>1
  <2> QED BY <2>1, <2>2, <2>3
<1>7. pos \in 1 .. Len(text) + 1 /\ at \in 0 .. Len(tokens) /\ Len(image) \in 0 .. at
  BY <1>1, <1>2, <1>4
<1>8. Len(named) = Len(tokens)
  BY <1>4
<1> QED BY <1>1, <1>2, <1>3, <1>4, <1>5, <1>6, <1>7, <1>8 DEF AsmInv, AsmTypeOK

LEMMA AsmInvStep == ASSUME AsmInv, AsmNext PROVE AsmInv'
<1>1. /\ text \in Texts /\ pos \in 1 .. Len(text) + 1 /\ Len(text) \in Nat
      /\ line \in Seq(DOMAIN WithEof) /\ args \in Seq(STRING)
      /\ line_number \in 0 .. AddrMod - 1
  BY TextFacts DEF AsmInv, AsmTypeOK
<1>2. CASE TakeFormat \/ TakeFile \/ Usage \/ ArgsDone
  <2>1. args # <<>> => Tail(args) \in Seq(STRING) /\ Len(Tail(args)) = Len(args) - 1
    BY <1>1, HeadTailProperties
  <2>2. Len(args) > 1 => Tail(Tail(args)) \in Seq(STRING)
    <3>1. ASSUME Len(args) > 1 PROVE args # <<>> BY <3>1
    <3>2. ASSUME Len(args) > 1 PROVE Tail(args) # <<>>
      <4>1. Len(Tail(args)) = Len(args) - 1 /\ Len(args) \in Nat BY <1>1, <2>1, <3>1, <3>2
      <4>2. Len(<<>>) = 0 OBVIOUS
      <4>3. Len(Tail(args)) # 0 BY <3>2, <4>1
      <4> QED BY <4>2, <4>3
    <3> QED BY <2>1, <3>1, <3>2, HeadTailProperties
  <2>3. args' \in {args, Tail(args), Tail(Tail(args))} /\ args' \in Seq(STRING)
    BY <1>1, <1>2, <2>1, <2>2 DEF TakeFormat, TakeFile, Usage, ArgsDone, Option
  <2>4. mode' \in {mode, "aborted", "read"} /\ format' \in {format, "binary", "dbg"}
    BY <1>2 DEF TakeFormat, TakeFile, Usage, ArgsDone
  <2>5. UNCHANGED afterArgs
    BY <1>2 DEF TakeFormat, TakeFile, Usage, ArgsDone
  <2>6. mode' \in Modes /\ format' \in Formats
    BY <2>4 DEF Modes, Formats, AsmInv, AsmTypeOK
  <2> QED BY <2>3, <2>5, <2>6 DEF afterArgs, AsmInv, AsmTypeOK
<1>3. ASSUME pos' \in 1 .. Len(text) + 1, line' \in Seq(DOMAIN WithEof), gap' \in BOOLEAN,
             mode' \in Modes, UNCHANGED readOnly
      PROVE  AsmInv'
  BY <1>3, WordIsString DEF readOnly, AsmInv, AsmTypeOK
<1>4. CASE SkipBlank \/ TakeBlank \/ EndOfText \/ Finish
  <2>1. /\ pos' = pos \/ (pos <= Len(text) /\ pos' = pos + 1)
        /\ line' = line /\ gap' \in {gap, TRUE}
        /\ mode' \in {mode, "assemble", "done"} /\ UNCHANGED readOnly
    <3>1. CASE SkipBlank BY <3>1 DEF SkipBlank, Reading
    <3>2. CASE TakeBlank BY <3>2 DEF TakeBlank, Reading
    <3>3. CASE EndOfText BY <3>3 DEF EndOfText
    <3>4. CASE Finish BY <3>4 DEF Finish
    <3> QED BY <1>4, <3>1, <3>2, <3>3, <3>4
  <2>2. mode' \in Modes /\ gap' \in BOOLEAN
    BY <2>1 DEF AsmInv, AsmTypeOK, Modes
  <2> QED BY <1>1, <1>3, <2>1, <2>2
<1>5. CASE SkipComment
  <2>1. pos' \in 1 .. Len(text) + 1
    BY <1>1, <1>5, NextSignIs DEF SkipComment
  <2> QED BY <1>1, <1>3, <1>5, <2>1 DEF SkipComment, AsmInv, AsmTypeOK
<1>6. CASE TakePhrase
  <2>1. pos \in 1 .. Len(text) /\ text[pos] \in Seq(DOMAIN WithEof)
    BY <1>1, <1>6, TextFacts DEF TakePhrase
  <2>2. line' \in Seq(DOMAIN WithEof)
    BY <1>1, <1>6, <2>1 DEF TakePhrase
  <2>3. /\ pos' \in 1 .. Len(text) + 1 /\ gap' \in BOOLEAN /\ mode' = mode
        /\ UNCHANGED readOnly
    <3>1. pos' = pos + 1 /\ gap' = FALSE /\ mode' = mode /\ UNCHANGED readOnly
      BY <1>6 DEF TakePhrase
    <3>2. pos' \in 1 .. Len(text) + 1 BY <1>1, <2>1, <3>1
    <3> QED BY <3>1, <3>2
  <2> QED BY <1>3, <2>2, <2>3 DEF AsmInv, AsmTypeOK
<1>7. CASE EndLine
  <2>1. pos' \in 1 .. Len(text) + 1 /\ line # <<>> /\ line \in Seq(STRING)
    BY <1>1, <1>7, WordIsString DEF EndLine, Reading
  <2>2. (line_number + 1) % AddrMod \in 0 .. AddrMod - 1
    <3>1. line_number + 1 \in Nat BY <1>1 DEF AddrMod
    <3> QED BY <3>1, AddrFits
  <2>3. \/ Statement(line, (line_number + 1) % AddrMod)
        \/ Statement(line, line_number)
    BY <1>7 DEF EndLine
  <2> QED BY <1>1, <2>1, <2>2, <2>3, StatementType
<1>8. CASE EndComment
  <2> DEFINE q == NextSign({Newline, Semicolon}, pos)
  <2>1. line # <<>> /\ line \in Seq(STRING) /\ q \in pos .. Len(text) + 1
    BY <1>1, <1>8, WordIsString, NextSignIs DEF EndComment
  <2>2. \/ mode' = "spin" /\ UNCHANGED <<pos, line, gap, readOnly>>
        \/ q <= Len(text) /\ pos' = q + 1 /\ Statement(line, line_number)
    BY <1>1, <1>8, <2>1 DEF EndComment
  <2> HIDE DEF q
  <2>3. CASE mode' = "spin" /\ UNCHANGED <<pos, line, gap, readOnly>>
    BY <1>1, <1>3, <2>3 DEF Modes, AsmInv, AsmTypeOK
  <2>4. CASE q <= Len(text) /\ pos' = q + 1 /\ Statement(line, line_number)
    <3>1. pos' \in 1 .. Len(text) + 1 BY <1>1, <2>1, <2>4
    <3> QED BY <1>1, <2>1, <2>4, <3>1, StatementType
  <2> QED BY <2>2, <2>3, <2>4
<1>9. CASE EndOfFile
  <2>1. PICK rest \in Leftover : Statement(Garbled \o rest, line_number)
    BY <1>9 DEF EndOfFile
  <2>2. Garbled \o rest \in Seq(STRING) /\ Garbled \o rest # <<>>
    BY <1>1, <1>9, GarbledType DEF EndOfFile
  <2>3. pos' \in 1 .. Len(text) + 1
    BY <1>1, <1>9 DEF EndOfFile
  <2> QED BY <1>1, <2>1, <2>2, <2>3, StatementType
<1>10. CASE AssembleOne
  BY <1>10, AssembleType
<1> QED BY <1>2, <1>4, <1>5, <1>6, <1>7, <1>8, <1>9, <1>10 DEF AsmNext

\* The ROM is the image, or the first words of one that was given up.
RomInv ==
  /\ power \in BOOLEAN
  /\ power => /\ mode \in {"done", "aborted"}
              /\ \E n \in 1 .. Len(image) : rom = SubSeq(image, 1, n)
              /\ mode = "done" => rom = image

LEMMA WholeImage ==
  ASSUME AsmInv PROVE SubSeq(image, 1, Len(image)) = image
<1> DEFINE n == Len(image)
           S == {image[k] : k \in 1 .. n}
<1>1. image = [k \in 1 .. n |-> image[k]] /\ n \in Nat
  <2>1. n \in 0 .. at /\ at \in 0 .. Len(tokens) /\ tokens \in Seq(Seq(STRING))
    BY DEF AsmInv, AsmTypeOK
  <2> HIDE DEF n
  <2> QED BY <2>1 DEF AsmInv, AsmTypeOK, n
<1>2. image \in Seq(S)
  <2>1. image \in [1 .. n -> S]
    <3>1. \A k \in 1 .. n : image[k] \in S OBVIOUS
    <3> HIDE DEF S, n
    <3> QED BY <1>1, <3>1
  <2> HIDE DEF S, n
  <2> QED BY <1>1, <2>1, SeqDef
<1> HIDE DEF S
<1> QED BY <1>2

\* Once the ROM is made, the assembler has no step left.
LEMMA RomInvNext == ASSUME AsmInv, RomInv, [Next]_vars PROVE RomInv'
<1>1. CASE Assemble
  <2>1. ~power BY <1>1, AssembleNeedsMode DEF Assemble, RomInv
  <2> QED BY <1>1, <2>1 DEF Assemble, RomInv
<1>2. CASE Generate
  <2>1. PICK n \in 1 .. Len(image) :
          /\ mode = "done" => n = Len(image)
          /\ rom' = SubSeq(image, 1, n)
    BY <1>2 DEF Generate
  <2>2. mode' = mode /\ image' = image /\ power' = TRUE /\ mode \in {"done", "aborted"}
    BY <1>2 DEF Generate, asmVars
  <2> QED BY <2>1, <2>2, WholeImage DEF RomInv
<1>3. CASE Run
  <2>1. mode' = mode /\ image' = image /\ power' = power
    BY <1>3 DEF Run, asmVars
  <2>2. rom' = rom
    BY <1>3 DEF Run, Clock, Boot, BootEnd, Fetch
  <2> QED BY <2>1, <2>2 DEF RomInv
<1>4. CASE UNCHANGED vars
  <2>1. mode' = mode /\ image' = image /\ power' = power /\ rom' = rom
    BY <1>4 DEF vars, asmVars, fetchVars
  <2> QED BY <2>1 DEF RomInv
<1> QED BY <1>1, <1>2, <1>3, <1>4 DEF Next

LEMMA AsmInvNext == ASSUME AsmInv, [Next]_vars PROVE AsmInv'
<1>1. CASE AsmNext
  BY <1>1, AsmInvStep
<1>2. CASE UNCHANGED asmVars
  BY <1>2 DEF asmVars, AsmInv, AsmTypeOK
<1> QED BY <1>1, <1>2 DEF Next, Assemble, Generate, Run, vars

LEMMA AsmInvHolds == Spec => []AsmInv
<1>1. AsmInv /\ [Next]_vars => AsmInv' BY AsmInvNext
<1> QED BY <1>1, AsmInvInit, PTL DEF Spec

LEMMA RomInvHolds == Spec => []RomInv
<1>1. Init => RomInv BY DEF Init, RomInv
<1>2. AsmInv /\ RomInv /\ [Next]_vars => RomInv' BY RomInvNext
<1> QED BY <1>1, <1>2, AsmInvHolds, PTL DEF Spec

\* Whatever the text, the arguments and what an uninitialised format or a stale
\* line buffer holds: every variable of the assembler and of the CCE keeps its
\* type, and a CCE out of reset has the image, or the first words of one that
\* the assembler did not finish, in its ROM (bp_as.cc, roms.py, bp_cce_pc.v).
THEOREM TypeCorrect == Spec => []TypeOK
<1>1. AsmInv /\ FetchInv /\ RomInv => TypeOK
  BY DEF AsmInv, FetchInv, RomInv, TypeOK
<1> QED BY <1>1, AsmInvHolds, FetchInvHolds, RomInvHolds, PTL

-----------------------------------------------------------------------------
(* The text: its lines, and which of them are code.                        *)

LEMMA SignsDiffer ==
  Newline # Semicolon /\ Newline # Hash /\ Newline # Blank
  /\ Semicolon # Hash /\ Semicolon # Blank /\ Hash # Blank
BY DEF Newline, Semicolon, Hash, Blank

LEMMA EndsFacts ==
  ASSUME text \in Texts
  PROVE  /\ Len(text) \in Nat /\ DOMAIN text = 1 .. Len(text)
         /\ LineEnds \subseteq 1 .. Len(text) /\ CodeEnds \subseteq LineEnds
         /\ IsFiniteSet(CodeEnds) /\ Cardinality(CodeEnds) \in Nat
<1>1. Len(text) \in Nat /\ DOMAIN text = 1 .. Len(text)
  BY TextFacts, LenProperties
<1>2. LineEnds \subseteq 1 .. Len(text) /\ CodeEnds \subseteq LineEnds
  BY <1>1 DEF LineEnds, CodeEnds
<1>3. IsFiniteSet(1 .. Len(text)) BY <1>1, FS_Interval
<1>4. IsFiniteSet(CodeEnds) BY <1>2, <1>3, FS_Subset
<1> QED BY <1>1, <1>2, <1>4, FS_CardinalityType

\* The line that holds the lexemes up to p begins at s.
LineBegins(s, p) ==
  /\ s \in 1 .. p /\ (s = 1 \/ s - 1 \in LineEnds)
  /\ \A r \in s .. p - 1 : r \notin LineEnds

\* LineStart finds the place where the line begins.
LEMMA LineStartIs ==
  ASSUME text \in Texts, NEW p \in 1 .. Len(text), NEW s, LineBegins(s, p)
  PROVE  LineStart(p) = s
<1> DEFINE S == {0} \cup {q \in LineEnds : q < p}
<1>1. p \in Nat /\ s \in 1 .. p /\ LineEnds \subseteq 1 .. Len(text)
  BY EndsFacts DEF LineBegins
<1>2. s - 1 \in S /\ \A y \in S : y \in Int /\ s - 1 >= y
  BY <1>1 DEF LineBegins
<1> HIDE DEF S
<1>3. Max(S) \in S /\ \A y \in S : Max(S) >= y
  BY <1>2 DEF Max
<1>4. Max(S) = s - 1
  <2>1. Max(S) \in Int /\ s - 1 >= Max(S) /\ Max(S) >= s - 1 BY <1>2, <1>3
  <2> QED BY <1>1, <2>1
<1> QED BY <1>1, <1>4 DEF LineStart, S

\* The words of the lexemes from s up to p.
Spoken(s, p) == FlattenSeq([k \in 1 .. p - s |-> WordsOf(text[s + k - 1])])

LEMMA SpokenNone == ASSUME NEW s \in Nat PROVE Spoken(s, s) = <<>>
<1>1. [k \in 1 .. s - s |-> WordsOf(text[s + k - 1])] = <<>>
  BY SMT
<1> QED BY <1>1, FlattenEmpty DEF Spoken

LEMMA LengthIs == \A i, j \in Nat : 1 .. i = 1 .. j => i = j
<1> SUFFICES ASSUME NEW i \in Nat, NEW j \in Nat, 1 .. i = 1 .. j PROVE i = j
  OBVIOUS
<1>1. \A k \in Int : k \in 1 .. i <=> k \in 1 .. j OBVIOUS
<1>2. ~ (i < j)
  <2>1. j \in 1 .. j => j \in 1 .. i BY <1>1
  <2> QED BY <2>1
<1>3. ~ (j < i)
  <2>1. i \in 1 .. i => i \in 1 .. j BY <1>1
  <2> QED BY <2>1
<1> QED BY <1>2, <1>3

\* One more lexeme adds its words.
LEMMA SpokenMore ==
  ASSUME text \in Texts, NEW p \in 1 .. Len(text), NEW s \in 1 .. p,
         Spoken(s, p) \in Seq(DOMAIN WithEof)
  PROVE  Spoken(s, p + 1) = Spoken(s, p) \o WordsOf(text[p])
<1> DEFINE W == DOMAIN WithEof
           e == [k \in 1 .. p - s |-> WordsOf(text[s + k - 1])]
           x == WordsOf(text[p])
<1>1. \A q \in 1 .. Len(text) : WordsOf(text[q]) \in Seq(W)
  <2>1. <<>> \in Seq(W) BY EmptySeq
  <2>2. \A q \in 1 .. Len(text) : text[q] \in Seq(W) BY TextFacts
  <2> HIDE DEF W
  <2> QED BY <2>1, <2>2 DEF WordsOf
<1>2. p \in Nat /\ s \in Nat /\ p - s \in Nat /\ Len(text) \in Nat
  BY EndsFacts
<1>3. e \in Seq(Seq(W)) /\ Len(e) = p - s
  <2>1. \A k \in 1 .. p - s : s + k - 1 \in 1 .. Len(text) BY <1>2
  <2>2. \A k \in 1 .. p - s : WordsOf(text[s + k - 1]) \in Seq(W) BY <1>1, <2>1
  <2>3. e \in [1 .. p - s -> Seq(W)] BY <2>2
  <2> HIDE DEF e, W
  <2>4. e \in Seq(Seq(W)) BY <1>2, <2>3, SeqDef
  <2>5. DOMAIN e = 1 .. p - s BY <2>3
  <2>6. DOMAIN e = 1 .. Len(e) /\ Len(e) \in Nat BY <2>4, LenProperties
  <2>7. \A i, j \in Nat : 1 .. i = 1 .. j => i = j BY LengthIs
  <2> QED BY <1>2, <2>4, <2>5, <2>6, <2>7
<1>4. x \in Seq(W) BY <1>1
<1>5. [k \in 1 .. p + 1 - s |-> WordsOf(text[s + k - 1])] = Append(e, x)
  <2> DEFINE f == [k \in 1 .. p + 1 - s |-> WordsOf(text[s + k - 1])]
  <2>1. \A k \in 1 .. p + 1 - s : s + k - 1 \in 1 .. Len(text) BY <1>2
  <2>2. \A k \in 1 .. p + 1 - s : WordsOf(text[s + k - 1]) \in Seq(W) BY <1>1, <2>1
  <2>3. f \in [1 .. p + 1 - s -> Seq(W)] BY <2>2
  <2>11. p + 1 - s \in Nat BY <1>2
  <2>4. \A k \in 1 .. p + 1 - s : f[k] = IF k = p + 1 - s THEN x ELSE e[k]
    <3>1. ASSUME NEW k \in 1 .. p + 1 - s, k = p + 1 - s PROVE s + k - 1 = p
      BY <1>2, <3>1
    <3>2. ASSUME NEW k \in 1 .. p + 1 - s, k # p + 1 - s PROVE k \in 1 .. p - s
      BY <1>2, <3>2
    <3> QED BY <3>1, <3>2
  <2> HIDE DEF f, e, x, W
  <2>5. f \in Seq(Seq(W)) BY <2>3, <2>11, SeqDef
  <2>6. Len(f) = p + 1 - s
    <3>1. DOMAIN f = 1 .. p + 1 - s BY <2>3
    <3>2. DOMAIN f = 1 .. Len(f) /\ Len(f) \in Nat BY <2>5, LenProperties
    <3> QED BY <2>11, <3>1, <3>2, LengthIs
  <2>7. /\ Append(e, x) \in Seq(Seq(W)) /\ Len(Append(e, x)) = p - s + 1
        /\ \A k \in 1 .. p + 1 - s : Append(e, x)[k] = IF k = p + 1 - s THEN x ELSE e[k]
    BY <1>2, <1>3, <1>4, AppendProperties
  <2>8. Len(f) = Len(Append(e, x)) BY <1>2, <2>6, <2>7
  <2>9. \A k \in 1 .. Len(f) : f[k] = Append(e, x)[k] BY <2>4, <2>6, <2>7
  <2>10. f = Append(e, x) BY <2>5, <2>7, <2>8, <2>9, SeqEqual
  <2> QED BY <2>10 DEF f
<1>6. Spoken(s, p + 1) = IF e = <<>> THEN x ELSE FlattenSeq(e) \o x
  <2>0. Spoken(s, p + 1)
          = FlattenSeq([k \in 1 .. p + 1 - s |-> WordsOf(text[s + k - 1])])
    BY DEF Spoken
  <2>1. Spoken(s, p + 1) = FlattenSeq(Append(e, x)) BY <1>5, <2>0
  <2> HIDE DEF e, x, W
  <2> QED BY <1>3, <1>4, <2>1, FlattenExtends
<1>7. Spoken(s, p) = FlattenSeq(e) BY DEF Spoken
<1> HIDE DEF e, x
<1>8. CASE e = <<>>
  <2>1. Spoken(s, p) = <<>> BY <1>7, <1>8, FlattenEmpty
  <2>2. <<>> \o x = x BY <1>4
  <2> QED BY <1>6, <1>8, <2>1, <2>2 DEF x
<1> QED BY <1>6, <1>7, <1>8 DEF x

\* The words and the places of the line that ends at p.
LEMMA WordsAre ==
  ASSUME text \in Texts, NEW p \in 1 .. Len(text), NEW s, LineBegins(s, p)
  PROVE  Words(p) = Spoken(s, p) /\ LineAt(p) = s .. p - 1
BY LineStartIs DEF Words, Spoken, LineAt

\* Statements are numbered in the order of their lines.
LEMMA NumberGrows ==
  ASSUME text \in Texts, NEW p \in CodeEnds, NEW q \in CodeEnds, p < q
  PROVE  Number(p) < Number(q)
<1> DEFINE A == {r \in CodeEnds : r <= p}
           B == {r \in CodeEnds : r <= q}
<1>1. CodeEnds \subseteq Int /\ IsFiniteSet(CodeEnds)
  <2>1. \A i \in Nat : 1 .. i \subseteq Int OBVIOUS
  <2> QED BY <2>1, EndsFacts
<1>2. A \subseteq B /\ q \in B /\ q \notin A
  <2>1. \A r \in CodeEnds : r \in Int BY <1>1
  <2>2. p \in Int /\ q \in Int BY <2>1
  <2>3. \A r \in CodeEnds : r <= p => r <= q BY <2>1, <2>2
  <2>4. q <= q /\ ~ (q <= p) BY <2>2
  <2> QED BY <2>3, <2>4
<1>3. IsFiniteSet(B) BY <1>1, FS_Subset
<1>4. A \in SUBSET B /\ A # B BY <1>2
<1> HIDE DEF A, B
<1>5. Cardinality(A) <= Cardinality(B) /\ Cardinality(A) # Cardinality(B)
  BY <1>3, <1>4, FS_Subset
<1>6. IsFiniteSet(A) BY <1>3, <1>4, FS_Subset
<1>7. Cardinality(A) \in Nat /\ Cardinality(B) \in Nat BY <1>3, <1>6, FS_CardinalityType
<1> QED BY <1>5, <1>7 DEF Number, A, B

\* The code before a place, and the statement that the code at it is.
CodeBefore(p) == {q \in CodeEnds : q < p}

LEMMA StatementAt ==
  ASSUME text \in Texts, NEW p \in CodeEnds, NEW n, n = Cardinality(CodeBefore(p))
  PROVE  /\ n \in Nat /\ n + 1 \in 1 .. Len(Statements) /\ Statements[n + 1] = Words(p)
         /\ Cardinality(CodeBefore(p + 1)) = n + 1
<1> DEFINE N == Cardinality(CodeEnds)
<1>1. CodeEnds \subseteq Int /\ IsFiniteSet(CodeEnds) /\ N \in Nat
  <2>1. \A i \in Nat : 1 .. i \subseteq Int OBVIOUS
  <2> QED BY <2>1, EndsFacts
<1> p \in Int BY <1>1
<1>2. IsFiniteSet(CodeBefore(p)) /\ n \in Nat
  <2>1. CodeBefore(p) \in SUBSET CodeEnds BY DEF CodeBefore
  <2> QED BY <1>1, <2>1, FS_Subset, FS_CardinalityType
<1>3. {q \in CodeEnds : q <= p} = CodeBefore(p) \cup {p} /\ p \notin CodeBefore(p)
  <2>1. \A q \in CodeEnds : q <= p <=> q < p \/ q = p BY <1>1
  <2>2. ~ (p < p) OBVIOUS
  <2> QED BY <2>1, <2>2 DEF CodeBefore
<1>4. Number(p) = n + 1
  BY <1>2, <1>3, FS_AddElement DEF Number
<1>5. CodeBefore(p + 1) = {q \in CodeEnds : q <= p}
  <2>1. \A q \in CodeEnds : q < p + 1 <=> q <= p BY <1>1
  <2> QED BY <2>1 DEF CodeBefore
<1>6. n + 1 <= N
  <2>1. {q \in CodeEnds : q <= p} \in SUBSET CodeEnds OBVIOUS
  <2> QED BY <1>1, <1>4, <2>1, FS_Subset DEF Number
<1>7. n + 1 \in 1 .. N BY <1>1, <1>2, <1>6
<1>8. \A q \in CodeEnds : Number(q) = n + 1 => q = p
  <2> SUFFICES ASSUME NEW q \in CodeEnds, Number(q) = n + 1 PROVE q = p OBVIOUS
  <2>1. q \in Int /\ p \in Int BY <1>1
  <2>2. ~ (q < p) BY <1>2, <1>4, NumberGrows
  <2>3. ~ (p < q) BY <1>2, <1>4, NumberGrows
  <2> QED BY <2>1, <2>2, <2>3
<1>9. (CHOOSE q \in CodeEnds : Number(q) = n + 1) = p
  BY <1>4, <1>8
<1>10. Statements[n + 1] = Words(p)
  BY <1>7, <1>9 DEF Statements
<1>11. Len(Statements) = N
  BY <1>1 DEF Statements
<1> QED BY <1>2, <1>4, <1>5, <1>7, <1>10, <1>11 DEF Number

-----------------------------------------------------------------------------
(* What a clear text leaves out.                                           *)

\* A line that is not the last rest of the text, up to its end.
LEMMA LineOn ==
  ASSUME text \in Texts, Rest \subseteq {Blank},
         NEW p \in 1 .. Len(text), NEW s, LineBegins(s, p), p \notin LineEnds,
         text[p] # Blank
  PROVE  \E e \in LineEnds : p < e /\ LineBegins(s, e)
<1> DEFINE T == {e \in LineEnds : p < e}
<1>1. p \in Nat /\ Len(text) \in Nat /\ DOMAIN text = 1 .. Len(text)
      /\ \A e \in LineEnds : e \in Nat
  BY EndsFacts
<1>2. T \in SUBSET Nat BY <1>1
<1>3. T # {}
  <2> SUFFICES ASSUME T = {} PROVE FALSE OBVIOUS
  <2>1. \A e \in LineEnds : e < p BY <1>1
  <2>2. text[p] \in Rest BY <1>1, <2>1 DEF Rest
  <2> QED BY <2>2
<1>4. PICK e \in T : \A y \in T : e <= y
  <2> HIDE DEF T
  <2> QED BY <1>2, <1>3, LeastNat
<1>5. e \in LineEnds /\ p < e /\ e \in Nat BY <1>1
<1>6. s \in 1 .. p /\ (s = 1 \/ s - 1 \in LineEnds) /\ \A r \in s .. p - 1 : r \notin LineEnds
  BY DEF LineBegins
<1>7. s \in 1 .. e BY <1>1, <1>5, <1>6
<1>8. ASSUME NEW r \in s .. e - 1 PROVE r \notin LineEnds
  <2>1. r \in Int /\ s \in Int BY <1>5, <1>6
  <2>2. CASE r < p BY <1>1, <1>6, <2>1, <2>2
  <2>3. CASE r = p BY <2>3
  <2>4. CASE p < r
    <3>1. r \in LineEnds => e <= r BY <1>4, <2>4
    <3> QED BY <1>5, <2>1, <3>1
  <2> QED BY <1>1, <2>1, <2>2, <2>3, <2>4
<1> QED BY <1>5, <1>6, <1>7, <1>8 DEF LineBegins

\* The line that ends at e is code if its first word is not a comment's.
LEMMA CodeLine ==
  ASSUME text \in Texts, NEW s, NEW e \in LineEnds, LineBegins(s, e)
  PROVE  e \in CodeEnds <=>
           \E q \in s .. e - 1 : /\ text[q] \notin {Blank, Hash}
                                 /\ \A r \in s .. e - 1 : r < q => text[r] = Blank
<1>1. e \in 1 .. Len(text) BY EndsFacts
<1>2. LineAt(e) = s .. e - 1 BY <1>1, WordsAre
<1> QED BY <1>2 DEF CodeEnds

\* The first lexeme that is not blank.
LEMMA FirstWord ==
  ASSUME NEW s \in Nat, NEW p \in Nat, ~ \A r \in s .. p - 1 : text[r] = Blank
  PROVE  \E q \in s .. p - 1 : /\ text[q] # Blank
                               /\ \A r \in s .. q - 1 : text[r] = Blank
<1> DEFINE T == {r \in s .. p - 1 : text[r] # Blank}
<1>1. T \in SUBSET Nat /\ T # {} OBVIOUS
<1>2. PICK q \in T : \A y \in T : q <= y
  <2> HIDE DEF T
  <2> QED BY <1>1, LeastNat
<1>3. q \in s .. p - 1 /\ text[q] # Blank OBVIOUS
<1>4. ASSUME NEW r \in s .. q - 1 PROVE text[r] = Blank
  <2>1. r \in s .. p - 1 /\ ~ (q <= r) BY <1>3
  <2> QED BY <1>2, <2>1
<1> QED BY <1>3, <1>4

\* In a clear text no line of code holds a semicolon or the sign of a comment.
LEMMA CodeSign ==
  ASSUME text \in Texts, Clear(Statements),
         NEW p \in 1 .. Len(text), NEW s, LineBegins(s, p),
         NEW q \in s .. p, text[q] \notin {Blank, Hash}, \A r \in s .. q - 1 : text[r] = Blank
  PROVE  text[p] \notin {Semicolon, Hash}
<1> SUFFICES ASSUME text[p] \in {Semicolon, Hash} PROVE FALSE OBVIOUS
<1>1. p \notin LineEnds /\ text[p] # Blank
  BY SignsDiffer DEF LineEnds
<1>2. Rest \subseteq {Blank} /\ \A e \in CodeEnds : \A r \in LineAt(e) : text[r] \notin {Hash, Semicolon}
  BY DEF Clear
<1>3. PICK e \in LineEnds : p < e /\ LineBegins(s, e)
  BY <1>1, <1>2, LineOn
<1>4. e \in 1 .. Len(text) /\ Len(text) \in Nat /\ s \in 1 .. p BY EndsFacts DEF LineBegins
<1>5. q \in s .. e - 1 /\ p \in s .. e - 1 BY <1>3, <1>4
<1>6. \A r \in s .. e - 1 : r < q => text[r] = Blank BY <1>4, <1>5
<1>7. e \in CodeEnds BY <1>3, <1>5, <1>6, CodeLine
<1>8. LineAt(e) = s .. e - 1 BY <1>3, <1>4, WordsAre
<1> QED BY <1>2, <1>5, <1>7, <1>8

\* What follows the last newline of a clear text is blank.
LEMMA RestBlank ==
  ASSUME text \in Texts, Rest \subseteq {Blank}, NEW s, LineBegins(s, Len(text) + 1)
  PROVE  \A r \in s .. Len(text) : text[r] = Blank
<1>1. Len(text) \in Nat /\ DOMAIN text = 1 .. Len(text) /\ LineEnds \subseteq 1 .. Len(text)
  BY EndsFacts
<1>2. s \in 1 .. Len(text) + 1 /\ \A r \in s .. Len(text) : r \notin LineEnds
  BY <1>1 DEF LineBegins
<1> SUFFICES ASSUME NEW r \in s .. Len(text) PROVE text[r] = Blank OBVIOUS
<1>3. r \in DOMAIN text BY <1>1, <1>2
<1>4. ASSUME NEW e \in LineEnds PROVE e < r
  <2>1. e \in 1 .. Len(text) BY <1>1
  <2>2. ~ (e >= r) BY <1>1, <1>2, <2>1
  <2> QED BY <1>1, <1>2, <2>1, <2>2
<1>5. text[r] \in Rest BY <1>3, <1>4 DEF Rest
<1> QED BY <1>5

-----------------------------------------------------------------------------
(* What the first pass has read.                                           *)

\* The tokens tk, the labels lb and the number of lines ln are those of the
\* statements before place p.
TextRead(tk, lb, ln, p) ==
  LET n == Cardinality(CodeBefore(p))
  IN  /\ Len(tk) = n /\ ln = n % AddrMod
      /\ \A k \in 1 .. n : tk[k] = IF Labelled(Statements[k]) THEN Tail(Statements[k])
                                   ELSE Statements[k]
      /\ DOMAIN lb = {LabelKey[Statements[k][1]] : k \in {j \in 1 .. n : Labelled(Statements[j])}}
      /\ \A k \in 1 .. n : Labelled(Statements[k]) => lb[LabelKey[Statements[k][1]]] = k - 1

\* The words l are those between the start of the line and place p, and
\* nothing but words and blanks is between.
LineRead(l, p) ==
  \E s : /\ LineBegins(s, p) /\ l = Spoken(s, p)
         /\ \A r \in s .. p - 1 : text[r] \notin {Newline, Semicolon, Hash}
         /\ l = <<>> <=> \A r \in s .. p - 1 : text[r] = Blank

KeptInv ==
  Clear(Statements) =>
    /\ mode \in {"args", "read"} =>
         TextRead(tokens, labels, line_number, pos) /\ LineRead(line, pos)
    /\ mode \in {"assemble", "done"} =>
         tokens = Program(Statements) /\ labels = AddressOf(Statements)

\* The text is not written to.
LEMMA SameText ==
  ASSUME text' = text
  PROVE  /\ LineEnds' = LineEnds /\ CodeEnds' = CodeEnds /\ Statements' = Statements
         /\ (Clear(Statements))' <=> Clear(Statements)
<1>1. LineEnds' = LineEnds BY DEF LineEnds
<1>2. CodeEnds' = CodeEnds BY <1>1 DEF CodeEnds, LineAt, LineStart
<1>3. Statements' = Statements BY <1>1, <1>2 DEF Statements, Number, Words, LineStart
<1>4. Rest' = Rest BY <1>1 DEF Rest
<1> QED BY <1>1, <1>2, <1>3, <1>4 DEF Clear, LineAt, LineStart, LabelsOf, Places, Labelled

LEMMA KeptNext ==
  ASSUME text' = text
  PROVE  KeptInv' <=>
    (Clear(Statements) =>
      /\ mode' \in {"args", "read"} =>
           TextRead(tokens', labels', line_number', pos') /\ LineRead(line', pos')
      /\ mode' \in {"assemble", "done"} =>
           tokens' = Program(Statements) /\ labels' = AddressOf(Statements))
<1>1. /\ LineEnds' = LineEnds /\ CodeEnds' = CodeEnds /\ Statements' = Statements
      /\ (Clear(Statements))' <=> Clear(Statements)
  BY SameText
<1>2. (TextRead(tokens, labels, line_number, pos))'
        <=> TextRead(tokens', labels', line_number', pos')
  BY <1>1 DEF TextRead, CodeBefore, Labelled
<1>3. (LineRead(line, pos))' <=> LineRead(line', pos')
  BY <1>1 DEF LineRead, LineBegins, Spoken
<1>4. (Program(Statements))' = Program(Statements)
      /\ (AddressOf(Statements))' = AddressOf(Statements)
  BY <1>1 DEF Program, AddressOf, LabelsOf, Places, Labelled
<1> QED BY <1>1, <1>2, <1>3, <1>4 DEF KeptInv

\* Where no line of code ends, the code before stays the same.
LEMMA NoStatement ==
  ASSUME text \in Texts, NEW p \in Nat, NEW q \in Nat, p <= q,
         \A r \in p .. q - 1 : r \notin CodeEnds
  PROVE  CodeBefore(q) = CodeBefore(p)
<1>1. \A r \in CodeEnds : r \in Int /\ (r < q <=> r < p)
  BY EndsFacts
<1> QED BY <1>1 DEF CodeBefore

\* A blank line.
LEMMA LineEmpty ==
  ASSUME text \in Texts, NEW p \in Nat, NEW s, p \in LineEnds, s = p + 1
  PROVE  LineBegins(s, s) /\ LineRead(<<>>, s)
<1>1. LineBegins(s, s) BY DEF LineBegins
<1>2. Spoken(s, s) = <<>> BY SpokenNone
<1>3. \A r \in s .. s - 1 : FALSE OBVIOUS
<1> QED BY <1>1, <1>2, <1>3 DEF LineRead

-----------------------------------------------------------------------------
(* The steps of the first pass.                                            *)

\* A step that takes no statement: what it leaves to show is the line.
LEMMA NoStatementStep ==
  ASSUME AsmInv, KeptInv, mode = "read", mode' = mode, UNCHANGED readOnly,
         NEW p \in Nat, pos' = p, pos <= p,
         Clear(Statements) /\ LineRead(line, pos) =>
           (\A r \in pos .. p - 1 : r \notin CodeEnds) /\ LineRead(line', p)
  PROVE  KeptInv'
<1>1. text' = text /\ tokens' = tokens /\ labels' = labels /\ line_number' = line_number
  BY DEF readOnly
<1>2. text \in Texts /\ pos \in Nat
  BY DEF AsmInv, AsmTypeOK
<1> SUFFICES ASSUME Clear(Statements)
             PROVE  TextRead(tokens, labels, line_number, p) /\ LineRead(line', p)
  BY <1>1, KeptNext
<1>3. TextRead(tokens, labels, line_number, pos) /\ LineRead(line, pos)
  BY DEF KeptInv
<1>4. CodeBefore(p) = CodeBefore(pos)
  BY <1>2, <1>3, NoStatement
<1> QED BY <1>3, <1>4 DEF TextRead

\* The place before p is on the line: a blank or a phrase is added to it.
LEMMA LineGrows ==
  ASSUME AsmInv, LineRead(line, pos), pos <= Len(text),
         text[pos] \notin {Newline, Semicolon, Hash}
  PROVE  /\ LineRead(line \o WordsOf(text[pos]), pos + 1) /\ pos \notin CodeEnds
         /\ text[pos] = Blank => line \o WordsOf(text[pos]) = line
<1>1. /\ text \in Texts /\ pos \in 1 .. Len(text) /\ Len(text) \in Nat
      /\ line \in Seq(DOMAIN WithEof)
      /\ text[pos] \in Seq(DOMAIN WithEof) /\ text[pos] # <<>>
  BY TextFacts DEF AsmInv, AsmTypeOK
<1>2. PICK s : /\ LineBegins(s, pos) /\ line = Spoken(s, pos)
               /\ \A r \in s .. pos - 1 : text[r] \notin {Newline, Semicolon, Hash}
               /\ line = <<>> <=> \A r \in s .. pos - 1 : text[r] = Blank
  BY DEF LineRead
<1>3. s \in 1 .. pos BY <1>2 DEF LineBegins
<1>4. \A r : r \in s .. (pos + 1) - 1 <=> r \in s .. pos - 1 \/ r = pos
  BY <1>1, <1>3
<1>5. pos \notin LineEnds /\ pos \notin CodeEnds
  BY DEF LineEnds, CodeEnds
<1>6. LineBegins(s, pos + 1)
  <2>1. s \in 1 .. pos + 1 BY <1>1, <1>3
  <2> QED BY <1>2, <1>4, <1>5, <2>1 DEF LineBegins
<1>7. Spoken(s, pos + 1) = line \o WordsOf(text[pos])
  BY <1>1, <1>2, <1>3, SpokenMore
<1>8. \A r \in s .. (pos + 1) - 1 : text[r] \notin {Newline, Semicolon, Hash}
  BY <1>2, <1>4
<1>9. text[pos] = Blank => line \o WordsOf(text[pos]) = line
  BY <1>1 DEF WordsOf
<1>10. line \o WordsOf(text[pos]) = <<>> <=> line = <<>> /\ text[pos] = Blank
  <2>1. CASE text[pos] = Blank BY <1>9, <2>1
  <2>2. CASE text[pos] # Blank
    <3>1. WordsOf(text[pos]) = text[pos] BY <2>2 DEF WordsOf
    <3>2. Len(line \o text[pos]) = Len(line) + Len(text[pos]) /\ Len(line) \in Nat
      BY <1>1
    <3>3. Len(text[pos]) \in Nat /\ Len(text[pos]) # 0 BY <1>1, EmptySeq
    <3>4. Len(<<>>) = 0 OBVIOUS
    <3>5. line \o text[pos] # <<>> BY <3>2, <3>3, <3>4
    <3> QED BY <2>2, <3>1, <3>5
  <2> QED BY <2>1, <2>2
<1>11. line \o WordsOf(text[pos]) = <<>> <=> \A r \in s .. (pos + 1) - 1 : text[r] = Blank
  BY <1>2, <1>4, <1>10
<1> QED BY <1>5, <1>6, <1>7, <1>8, <1>9, <1>11 DEF LineRead

\* The line that starts behind a place that ends one.
LEMMA LineDone ==
  ASSUME text \in Texts, NEW p \in Nat, p \in LineEnds
  PROVE  LineRead(<<>>, p + 1)
BY LineEmpty

\* In a clear text, a sign on a line: no statement precedes it there.
LEMMA SignOnLine ==
  ASSUME AsmInv, Clear(Statements), LineRead(line, pos), pos <= Len(text),
         text[pos] \in {Semicolon, Hash}
  PROVE  line = <<>> /\ text[pos] = Hash
<1>1. text \in Texts /\ pos \in 1 .. Len(text) /\ Len(text) \in Nat
  BY TextFacts DEF AsmInv, AsmTypeOK
<1>2. PICK s : /\ LineBegins(s, pos) /\ line = Spoken(s, pos)
               /\ \A r \in s .. pos - 1 : text[r] \notin {Newline, Semicolon, Hash}
               /\ line = <<>> <=> \A r \in s .. pos - 1 : text[r] = Blank
  BY DEF LineRead
<1>3. s \in 1 .. pos /\ s \in Nat BY <1>2 DEF LineBegins
<1>4. line = <<>>
  <2> SUFFICES ASSUME line # <<>> PROVE FALSE OBVIOUS
  <2>1. ~ \A r \in s .. pos - 1 : text[r] = Blank BY <1>2
  <2>5. pos \in Nat BY <1>1
  <2>6. \E q \in s .. pos - 1 : text[q] # Blank /\ \A r \in s .. q - 1 : text[r] = Blank
    BY <1>3, <2>1, <2>5, FirstWord
  <2>2. PICK q \in s .. pos - 1 : text[q] # Blank /\ \A r \in s .. q - 1 : text[r] = Blank
    BY <2>6
  <2>3. text[q] \notin {Blank, Hash} BY <1>2, <2>2
  <2>4. q \in s .. pos BY <1>1, <1>3
  <2> QED BY <1>1, <1>2, <2>2, <2>3, <2>4, CodeSign
<1>5. text[pos] # Semicolon
  <2> SUFFICES ASSUME text[pos] = Semicolon PROVE FALSE OBVIOUS
  <2>1. text[pos] \notin {Blank, Hash} BY SignsDiffer
  <2>2. pos \in s .. pos BY <1>1, <1>3
  <2>3. \A r \in s .. pos - 1 : text[r] = Blank BY <1>2, <1>4
  <2> QED BY <1>1, <1>2, <2>1, <2>2, <2>3, CodeSign
<1> QED BY <1>4, <1>5

LEMMA SkipBlankKeeps == ASSUME AsmInv, KeptInv, SkipBlank PROVE KeptInv'
<1>1. /\ line = <<>> /\ line' = <<>> /\ mode = "read" /\ mode' = mode /\ pos <= Len(text)
      /\ text[pos] \in {Newline, Semicolon, Blank} /\ pos' = pos + 1 /\ UNCHANGED readOnly
  BY DEF SkipBlank, Reading
<1>2. text \in Texts /\ pos \in 1 .. Len(text) /\ Len(text) \in Nat
  BY <1>1, TextFacts DEF AsmInv, AsmTypeOK
<1>3. ASSUME Clear(Statements), LineRead(line, pos)
      PROVE  pos \notin CodeEnds /\ LineRead(<<>>, pos + 1)
  <2>1. CASE text[pos] = Blank
    <3>1. text[pos] \notin {Newline, Semicolon, Hash} BY <2>1, SignsDiffer
    <3>2. LineRead(line \o WordsOf(text[pos]), pos + 1) /\ pos \notin CodeEnds
          /\ line \o WordsOf(text[pos]) = line
      BY <1>1, <1>3, <2>1, <3>1, LineGrows
    <3> QED BY <1>1, <3>2
  <2>2. CASE text[pos] = Semicolon
    BY <1>1, <1>3, <2>2, SignOnLine, SignsDiffer
  <2>3. CASE text[pos] = Newline
    <3>1. pos \in LineEnds BY <1>2, <2>3, EndsFacts DEF LineEnds
    <3>2. PICK s : /\ LineBegins(s, pos)
                   /\ line = <<>> <=> \A r \in s .. pos - 1 : text[r] = Blank
      BY <1>3 DEF LineRead
    <3>3. \A r \in s .. pos - 1 : text[r] = Blank BY <1>1, <3>2
    <3>4. pos \notin CodeEnds BY <1>2, <3>1, <3>2, <3>3, CodeLine
    <3> QED BY <1>2, <3>1, <3>4, LineDone
  <2> QED BY <1>1, <2>1, <2>2, <2>3
<1>4. pos + 1 \in Nat /\ pos <= pos + 1 /\ \A r \in pos .. (pos + 1) - 1 : r = pos
  BY <1>2
<1>5. Clear(Statements) /\ LineRead(line, pos) =>
        (\A r \in pos .. (pos + 1) - 1 : r \notin CodeEnds) /\ LineRead(line', pos + 1)
  BY <1>1, <1>3, <1>4
<1> QED BY <1>1, <1>4, <1>5, NoStatementStep

LEMMA SkipCommentKeeps == ASSUME AsmInv, KeptInv, SkipComment PROVE KeptInv'
<1> DEFINE q == NextSign({Newline}, pos)
<1>1. /\ line = <<>> /\ line' = <<>> /\ mode = "read" /\ mode' = mode /\ pos <= Len(text)
      /\ text[pos] = Hash /\ pos' = (IF q > Len(text) THEN q ELSE q + 1) /\ UNCHANGED readOnly
  BY DEF SkipComment, Reading
<1>2. text \in Texts /\ pos \in 1 .. Len(text) /\ Len(text) \in Nat
      /\ pos \in 1 .. Len(text) + 1
  BY <1>1, TextFacts DEF AsmInv, AsmTypeOK
<1>3. /\ q \in pos .. Len(text) + 1 /\ (q = Len(text) + 1 \/ text[q] \in {Newline})
      /\ \A r \in pos .. q - 1 : text[r] \notin {Newline}
  BY <1>2, NextSignIs
<1> HIDE DEF q
<1>4. ASSUME Clear(Statements), LineRead(line, pos)
      PROVE  /\ q <= Len(text) /\ (\A r \in pos .. (q + 1) - 1 : r \notin CodeEnds)
             /\ LineRead(<<>>, q + 1)
  <2>1. PICK s : /\ LineBegins(s, pos)
                 /\ line = <<>> <=> \A r \in s .. pos - 1 : text[r] = Blank
    BY <1>4 DEF LineRead
  <2>2. Rest \subseteq {Blank} BY <1>4 DEF Clear
  <2>3. pos \notin LineEnds /\ text[pos] # Blank BY <1>1, SignsDiffer DEF LineEnds
  <2>4. PICK e \in LineEnds : pos < e /\ LineBegins(s, e)
    BY <1>2, <2>1, <2>2, <2>3, LineOn
  <2>5. e \in 1 .. Len(text) /\ text[e] = Newline /\ s \in 1 .. pos
    BY <2>1, EndsFacts, <1>2 DEF LineEnds, LineBegins
  <2>6. q <= e /\ q \in Nat
    <3>1. ~ (e \in pos .. q - 1) BY <1>3, <2>5
    <3> QED BY <1>2, <1>3, <2>4, <2>5, <3>1
  <2>7. q = e
    <3>1. q # Len(text) + 1 BY <1>2, <2>5, <2>6
    <3>2. q \in LineEnds BY <1>2, <1>3, <2>5, <2>6, <3>1, EndsFacts DEF LineEnds
    <3>3. \A r \in s .. e - 1 : r \notin LineEnds BY <2>4 DEF LineBegins
    <3>4. ~ (q \in s .. e - 1) BY <3>2, <3>3
    <3> QED BY <1>2, <1>3, <2>5, <2>6, <3>4
  <2>8. e \notin CodeEnds
    <3>1. \A r \in s .. pos - 1 : text[r] = Blank BY <1>1, <2>1
    <3> SUFFICES ASSUME NEW r \in s .. e - 1, text[r] \notin {Blank, Hash},
                        \A x \in s .. e - 1 : x < r => text[x] = Blank
                 PROVE  FALSE
      BY <1>2, <2>4, CodeLine
    <3>2. ~ (r \in s .. pos - 1) BY <3>1
    <3>3. r # pos BY <1>1
    <3>4. pos \in s .. e - 1 /\ pos < r BY <1>2, <2>4, <2>5, <3>2, <3>3
    <3> QED BY <2>3, <3>4
  <2>9. \A r \in pos .. (q + 1) - 1 : r \notin CodeEnds
    <3>1. \A r \in pos .. (q + 1) - 1 : r = e \/ r \in pos .. q - 1 BY <1>2, <2>5, <2>7
    <3> QED BY <1>3, <2>8, <3>1 DEF CodeEnds, LineEnds
  <2>10. LineRead(<<>>, q + 1) BY <1>2, <2>6, <2>7, LineDone
  <2> QED BY <1>2, <2>5, <2>7, <2>9, <2>10
<1>5. q \in Nat BY <1>2, <1>3
<1>6. CASE Clear(Statements) /\ LineRead(line, pos)
  <2>1. pos' = q + 1 /\ q + 1 \in Nat /\ pos <= q + 1
    BY <1>1, <1>2, <1>3, <1>4, <1>5, <1>6
  <2>2. Clear(Statements) /\ LineRead(line, pos) =>
        (\A r \in pos .. (q + 1) - 1 : r \notin CodeEnds) /\ LineRead(line', q + 1)
    BY <1>1, <1>4
  <2> QED BY <1>1, <2>1, <2>2, NoStatementStep
<1>7. CASE ~ (Clear(Statements) /\ LineRead(line, pos))
  <2>1. pos' \in Nat /\ pos <= pos'
    BY <1>1, <1>2, <1>3, <1>5
  <2> QED BY <1>1, <1>7, <2>1, NoStatementStep
<1> QED BY <1>6, <1>7

LEMMA TakeKeeps == ASSUME AsmInv, KeptInv, TakePhrase \/ TakeBlank PROVE KeptInv'
<1>1. /\ mode = "read" /\ mode' = mode /\ pos <= Len(text) /\ pos' = pos + 1
      /\ UNCHANGED readOnly
      /\ \/ text[pos] \notin Signs /\ line' = line \o text[pos]
         \/ text[pos] = Blank /\ line' = line
  BY DEF TakePhrase, TakeBlank, Reading
<1>2. text \in Texts /\ pos \in 1 .. Len(text) /\ Len(text) \in Nat
  BY <1>1, TextFacts DEF AsmInv, AsmTypeOK
<1>3. text[pos] \notin {Newline, Semicolon, Hash}
  BY <1>1, SignsDiffer DEF Signs
<1>4. ASSUME LineRead(line, pos)
      PROVE  pos \notin CodeEnds /\ LineRead(line', pos + 1)
  <2>1. /\ LineRead(line \o WordsOf(text[pos]), pos + 1) /\ pos \notin CodeEnds
        /\ text[pos] = Blank => line \o WordsOf(text[pos]) = line
    BY <1>1, <1>3, <1>4, LineGrows
  <2>2. CASE text[pos] \notin Signs /\ line' = line \o text[pos]
    <3>1. text[pos] # Blank BY <2>2 DEF Signs
    <3>2. WordsOf(text[pos]) = text[pos] BY <3>1 DEF WordsOf
    <3> QED BY <2>1, <2>2, <3>2
  <2>3. CASE text[pos] = Blank /\ line' = line BY <2>1, <2>3
  <2> QED BY <1>1, <2>2, <2>3
<1>5. pos + 1 \in Nat /\ pos <= pos + 1 /\ \A r \in pos .. (pos + 1) - 1 : r = pos
  BY <1>2
<1>6. Clear(Statements) /\ LineRead(line, pos) =>
        (\A r \in pos .. (pos + 1) - 1 : r \notin CodeEnds) /\ LineRead(line', pos + 1)
  BY <1>4, <1>5
<1> QED BY <1>1, <1>5, <1>6, NoStatementStep

\* The address of a statement, from the number of lines up to it.
LEMMA LinesBack ==
  ASSUME NEW n \in Nat, n + 1 <= AddrMod
  PROVE  n % AddrMod = n /\ (((n + 1) % AddrMod) + AddrMod - 1) % AddrMod = n
<1>1. CASE n + 1 = AddrMod BY <1>1 DEF AddrMod
<1>2. CASE n + 1 < AddrMod BY <1>2 DEF AddrMod
<1> QED BY <1>1, <1>2 DEF AddrMod

\* A statement that a newline ends: the next of the text, with its label.
LEMMA StatementKept ==
  ASSUME AsmInv, Clear(Statements), NEW p \in CodeEnds, Words(p) \in Seq(DOMAIN WithEof),
         TextRead(tokens, labels, line_number, p),
         Statement(Words(p), (line_number + 1) % AddrMod),
         mode' # "aborted"
  PROVE  TextRead(tokens', labels', line_number', p + 1)
<1> DEFINE n == Cardinality(CodeBefore(p))
           w == Words(p)
           key == LabelKey[w[1]]
<1>1. text \in Texts /\ labels \in [DOMAIN labels -> 0 .. AddrMod - 1]
      /\ tokens \in Seq(Seq(STRING))
  BY DEF AsmInv, AsmTypeOK
<1>2. /\ n \in Nat /\ n + 1 \in 1 .. Len(Statements) /\ Statements[n + 1] = w
      /\ Cardinality(CodeBefore(p + 1)) = n + 1
  BY <1>1, StatementAt
<1>3. /\ Len(tokens) = n /\ line_number = n % AddrMod
      /\ \A k \in 1 .. n : tokens[k] = IF Labelled(Statements[k]) THEN Tail(Statements[k])
                                       ELSE Statements[k]
      /\ DOMAIN labels
           = {LabelKey[Statements[k][1]] : k \in {j \in 1 .. n : Labelled(Statements[j])}}
      /\ \A k \in 1 .. n : Labelled(Statements[k]) => labels[LabelKey[Statements[k][1]]] = k - 1
  BY DEF TextRead
<1>4. /\ DOMAIN Statements = 1 .. Len(Statements) /\ Len(Statements) \in Nat
      /\ Len(Statements) <= AddrMod /\ \A k \in DOMAIN Statements : Len(Statements[k]) <= MaxTokens
      /\ \A x \in LabelsOf(Statements) : Cardinality(Places(Statements, x)) = 1
  <2>1. DOMAIN Statements = 1 .. Len(Statements) /\ Len(Statements) \in Nat
    BY <1>1, EndsFacts DEF Statements
  <2> QED BY <2>1 DEF Clear
<1>5. Len(w) <= MaxTokens BY <1>2, <1>4
<1>6. Shorten(w) = w
  <2>1. ~ (Len(w) > MaxTokens)
    <3>1. MaxTokens \in Nat BY TextAssumption
    <3>2. Len(w) \in Nat BY LenProperties
    <3> QED BY <1>5, <3>1, <3>2
  <2> QED BY <2>1 DEF Shorten
<1>7. /\ line_number' = (line_number + 1) % AddrMod
      /\ tokens' = Append(tokens, IF Labelled(w) THEN Tail(w) ELSE w)
      /\ labels' = IF Labelled(w)
                   THEN Insert(labels, key, (((line_number + 1) % AddrMod) + AddrMod - 1) % AddrMod)
                   ELSE labels
  BY <1>6 DEF Statement, Labelled
<1>8. /\ n + 1 <= AddrMod
      /\ (line_number + 1) % AddrMod = (n + 1) % AddrMod
      /\ (((line_number + 1) % AddrMod) + AddrMod - 1) % AddrMod = n
  <2>1. n + 1 <= AddrMod BY <1>2, <1>4 DEF AddrMod
  <2>2. /\ n % AddrMod = n
        /\ (((n + 1) % AddrMod) + AddrMod - 1) % AddrMod = n
    BY <1>2, <2>1, LinesBack
  <2>3. line_number = n BY <1>3, <2>2
  <2> QED BY <2>1, <2>2, <2>3
<1> HIDE DEF n, w, key
<1>9. \A k : k \in 1 .. n + 1 <=> k \in 1 .. n \/ k = n + 1
  BY <1>2
<1>10. /\ Len(tokens') = n + 1
       /\ \A k \in 1 .. n + 1 : tokens'[k] = IF Labelled(Statements[k]) THEN Tail(Statements[k])
                                             ELSE Statements[k]
  <2> DEFINE t == IF Labelled(w) THEN Tail(w) ELSE w
  <2>1. tokens' = Append(tokens, t) BY <1>7
  <2>2. t = IF Labelled(Statements[n + 1]) THEN Tail(Statements[n + 1]) ELSE Statements[n + 1]
    BY <1>2
  <2> HIDE DEF t
  <2>3. /\ Len(tokens') = n + 1 /\ tokens'[n + 1] = t
        /\ \A k \in 1 .. n : tokens'[k] = tokens[k]
    <3>1. tokens \in Seq(Seq(STRING) \cup {t})
      <4>1. Seq(STRING) \subseteq Seq(STRING) \cup {t} OBVIOUS
      <4> QED BY <1>1, <4>1, SeqMonotonic
    <3>2. t \in Seq(STRING) \cup {t} OBVIOUS
    <3> QED BY <1>2, <1>3, <2>1, <3>1, <3>2, AppendProperties
  <2> QED BY <1>3, <1>9, <2>2, <2>3
<1>11. CASE ~Labelled(w)
  <2>1. ~Labelled(Statements[n + 1]) BY <1>2, <1>11
  <2>2. {j \in 1 .. n + 1 : Labelled(Statements[j])} = {j \in 1 .. n : Labelled(Statements[j])}
    BY <1>9, <2>1
  <2>3. labels' = labels BY <1>7, <1>11
  <2>4. \A k \in 1 .. n + 1 :
          Labelled(Statements[k]) => labels'[LabelKey[Statements[k][1]]] = k - 1
    BY <1>3, <1>9, <2>1, <2>3
  <2>5. DOMAIN labels'
          = {LabelKey[Statements[k][1]] : k \in {j \in 1 .. n + 1 : Labelled(Statements[j])}}
    BY <1>3, <2>2, <2>3
  <2> QED BY <1>2, <1>7, <1>8, <1>10, <2>4, <2>5 DEF TextRead
<1>12. CASE Labelled(w)
  <2>1. Labelled(Statements[n + 1]) /\ key = LabelKey[Statements[n + 1][1]]
    BY <1>2, <1>12 DEF key
  <2>2. {j \in 1 .. n + 1 : Labelled(Statements[j])}
          = {j \in 1 .. n : Labelled(Statements[j])} \cup {n + 1}
    BY <1>9, <2>1
  <2>3. ASSUME NEW k \in 1 .. n, Labelled(Statements[k]) PROVE LabelKey[Statements[k][1]] # key
    <3> SUFFICES ASSUME LabelKey[Statements[k][1]] = key PROVE FALSE OBVIOUS
    <3>1. k \in DOMAIN Statements /\ n + 1 \in DOMAIN Statements /\ k # n + 1
      BY <1>2, <1>4
    <3>2. key \in LabelsOf(Statements) BY <2>1, <3>1 DEF LabelsOf
    <3>3. {k, n + 1} \subseteq Places(Statements, key)
      BY <2>1, <2>3, <3>1 DEF Places
    <3>4. Cardinality(Places(Statements, key)) = 1 BY <1>4, <3>2
    <3>5. IsFiniteSet(Places(Statements, key))
      <4>1. Places(Statements, key) \in SUBSET (1 .. Len(Statements)) BY <1>4 DEF Places
      <4>2. IsFiniteSet(1 .. Len(Statements)) BY <1>4, FS_Interval
      <4> QED BY <4>1, <4>2, FS_Subset
    <3>6. PICK x : Places(Statements, key) = {x} BY <3>4, <3>5, FS_Singleton
    <3> QED BY <3>1, <3>3, <3>6
  <2>4. key \notin DOMAIN labels BY <1>3, <2>3
  <2>5. labels' = [j \in DOMAIN labels \cup {key} |-> IF j = key THEN n ELSE labels[j]]
    BY <1>7, <1>8, <1>12, <2>4 DEF Insert
  <2>6. DOMAIN labels'
          = {LabelKey[Statements[k][1]] : k \in {j \in 1 .. n + 1 : Labelled(Statements[j])}}
    <3>1. DOMAIN labels' = DOMAIN labels \cup {key} BY <2>5
    <3> QED BY <1>3, <2>1, <2>2, <3>1
  <2>7. ASSUME NEW k \in 1 .. n + 1, Labelled(Statements[k])
        PROVE  labels'[LabelKey[Statements[k][1]]] = k - 1
    <3>1. CASE k = n + 1 BY <1>2, <2>1, <2>5, <3>1
    <3>2. CASE k \in 1 .. n
      <4>1. LabelKey[Statements[k][1]] \in DOMAIN labels BY <1>3, <2>7, <3>2
      <4> QED BY <1>3, <2>3, <2>5, <2>7, <3>2, <4>1
    <3> QED BY <1>9, <3>1, <3>2
  <2> QED BY <1>2, <1>7, <1>8, <1>10, <2>6, <2>7 DEF TextRead
<1> QED BY <1>11, <1>12

LEMMA EndLineKeeps == ASSUME AsmInv, KeptInv, EndLine PROVE KeptInv'
<1>1. /\ line # <<>> /\ mode = "read" /\ pos <= Len(text) /\ pos' = pos + 1
      /\ text[pos] \in {Newline, Semicolon}
  BY DEF EndLine, Reading
<1>2. text \in Texts /\ pos \in 1 .. Len(text) /\ Len(text) \in Nat
      /\ line \in Seq(DOMAIN WithEof)
  BY <1>1, TextFacts DEF AsmInv, AsmTypeOK
<1>3. text' = text /\ mode' \in {"read", "aborted"} /\ line' = <<>>
  BY <1>1 DEF EndLine, Statement
<1> SUFFICES ASSUME Clear(Statements), mode' # "aborted"
             PROVE  /\ TextRead(tokens', labels', line_number', pos')
                    /\ LineRead(line', pos')
  BY <1>3, KeptNext
<1>4. TextRead(tokens, labels, line_number, pos) /\ LineRead(line, pos)
  BY <1>1 DEF KeptInv
<1>5. text[pos] = Newline
  BY <1>1, <1>4, SignOnLine
<1>6. pos \in LineEnds BY <1>2, <1>5, EndsFacts DEF LineEnds
<1>7. PICK s : /\ LineBegins(s, pos) /\ line = Spoken(s, pos)
               /\ \A r \in s .. pos - 1 : text[r] \notin {Newline, Semicolon, Hash}
               /\ line = <<>> <=> \A r \in s .. pos - 1 : text[r] = Blank
  BY <1>4 DEF LineRead
<1>8. pos \in CodeEnds
  <2>1. s \in Nat /\ s \in 1 .. pos /\ pos \in Nat BY <1>2, <1>7 DEF LineBegins
  <2>2. \E q \in s .. pos - 1 : text[q] # Blank /\ \A r \in s .. q - 1 : text[r] = Blank
    BY <1>1, <1>7, <2>1, FirstWord
  <2>3. PICK q \in s .. pos - 1 : text[q] # Blank /\ \A r \in s .. q - 1 : text[r] = Blank
    BY <2>2
  <2>4. text[q] \notin {Blank, Hash} BY <1>7, <2>3
  <2>5. \A r \in s .. pos - 1 : r < q => text[r] = Blank BY <2>1, <2>3
  <2> QED BY <1>2, <1>6, <1>7, <2>3, <2>4, <2>5, CodeLine
<1>9. Words(pos) = line BY <1>2, <1>7, WordsAre
<1>10. Statement(Words(pos), (line_number + 1) % AddrMod)
  BY <1>5, <1>9 DEF EndLine
<1>11. TextRead(tokens', labels', line_number', pos + 1)
  BY <1>2, <1>4, <1>8, <1>9, <1>10, StatementKept
<1>12. LineRead(<<>>, pos + 1) BY <1>2, <1>6, LineDone
<1> QED BY <1>1, <1>3, <1>11, <1>12

\* No clear text comes to a comment behind a statement, or to a last line
\* without a newline.
LEMMA UnclearKeeps == ASSUME AsmInv, KeptInv, EndComment \/ EndOfFile PROVE KeptInv'
<1>1. /\ line # <<>> /\ mode = "read" /\ text' = text
      /\ (pos <= Len(text) /\ text[pos] = Hash) \/ pos > Len(text)
  BY DEF EndComment, EndOfFile, Statement, Reading, readOnly
<1>2. text \in Texts /\ pos \in 1 .. Len(text) + 1 /\ Len(text) \in Nat
  BY TextFacts DEF AsmInv, AsmTypeOK
<1> SUFFICES ASSUME Clear(Statements) PROVE FALSE
  BY <1>1, KeptNext
<1>3. LineRead(line, pos) BY <1>1 DEF KeptInv
<1>4. CASE pos <= Len(text) /\ text[pos] = Hash
  BY <1>1, <1>3, <1>4, SignOnLine
<1>5. CASE pos > Len(text)
  <2>1. pos = Len(text) + 1 BY <1>2, <1>5
  <2>2. PICK s : /\ LineBegins(s, pos)
                 /\ line = <<>> <=> \A r \in s .. pos - 1 : text[r] = Blank
    BY <1>3 DEF LineRead
  <2>3. \A r \in s .. Len(text) : text[r] = Blank
    BY <1>2, <2>1, <2>2, RestBlank DEF Clear
  <2>4. pos - 1 = Len(text) BY <1>2, <2>1
  <2> QED BY <1>1, <2>2, <2>3, <2>4
<1> QED BY <1>1, <1>4, <1>5

\* At the end of the text, every statement and every label has been read.
LEMMA EndOfTextKeeps == ASSUME AsmInv, KeptInv, EndOfText PROVE KeptInv'
<1> DEFINE n == Len(Statements)
<1>1. /\ mode = "read" /\ pos > Len(text) /\ mode' = "assemble"
      /\ text' = text /\ tokens' = tokens /\ labels' = labels
  BY DEF EndOfText, readOnly
<1>2. text \in Texts /\ pos \in 1 .. Len(text) + 1 /\ Len(text) \in Nat
      /\ labels \in [DOMAIN labels -> 0 .. AddrMod - 1] /\ tokens \in Seq(Seq(STRING))
  BY TextFacts DEF AsmInv, AsmTypeOK
<1> SUFFICES ASSUME Clear(Statements)
             PROVE  tokens = Program(Statements) /\ labels = AddressOf(Statements)
  BY <1>1, KeptNext
<1>3. TextRead(tokens, labels, line_number, pos) BY <1>1 DEF KeptInv
<1>4. CodeBefore(pos) = CodeEnds
  <2>1. \A q \in CodeEnds : q \in 1 .. Len(text) BY <1>2, EndsFacts
  <2>2. \A q \in CodeEnds : q < pos BY <1>1, <1>2, <2>1
  <2> QED BY <2>2 DEF CodeBefore
<1>5. /\ n = Cardinality(CodeBefore(pos)) /\ n \in Nat /\ DOMAIN Statements = 1 .. n
  BY <1>2, <1>4, EndsFacts DEF Statements
<1> HIDE DEF n
<1>6. /\ Len(tokens) = n
      /\ \A k \in 1 .. n : tokens[k] = IF Labelled(Statements[k]) THEN Tail(Statements[k])
                                       ELSE Statements[k]
      /\ DOMAIN labels
           = {LabelKey[Statements[k][1]] : k \in {j \in 1 .. n : Labelled(Statements[j])}}
      /\ \A k \in 1 .. n : Labelled(Statements[k]) => labels[LabelKey[Statements[k][1]]] = k - 1
  BY <1>3, <1>5 DEF TextRead
<1>7. tokens = Program(Statements)
  <2>1. DOMAIN tokens = 1 .. n /\ tokens = [k \in DOMAIN tokens |-> tokens[k]]
    BY <1>2, <1>6, LenProperties
  <2> QED BY <1>5, <1>6, <2>1 DEF Program
<1>8. labels = AddressOf(Statements)
  <2>1. DOMAIN labels = LabelsOf(Statements) BY <1>5, <1>6 DEF LabelsOf
  <2>2. ASSUME NEW key \in LabelsOf(Statements)
        PROVE  labels[key] = (CHOOSE k \in Places(Statements, key) : TRUE) - 1
    <3>1. PICK k \in 1 .. n : Labelled(Statements[k]) /\ key = LabelKey[Statements[k][1]]
      BY <1>5, <2>2 DEF LabelsOf
    <3>2. \E j \in Places(Statements, key) : TRUE BY <1>5, <3>1 DEF Places
    <3>3. (CHOOSE j \in Places(Statements, key) : TRUE) \in Places(Statements, key)
      BY <3>2
    <3>4. ASSUME NEW j \in Places(Statements, key) PROVE labels[key] = j - 1
      <4>1. j \in 1 .. n /\ Labelled(Statements[j]) /\ LabelKey[Statements[j][1]] = key
        BY <1>5, <3>4 DEF Places
      <4> QED BY <1>6, <4>1
    <3> QED BY <3>3, <3>4
  <2>3. labels = [key \in LabelsOf(Statements) |-> labels[key]] BY <1>2, <2>1
  <2> QED BY <2>2, <2>3 DEF AddressOf
<1> QED BY <1>7, <1>8

LEMMA KeptInit == Init => KeptInv
<1> SUFFICES ASSUME Init PROVE KeptInv OBVIOUS
<1>1. /\ mode = "args" /\ text \in Texts /\ pos = 1 /\ line = <<>> /\ tokens = <<>>
      /\ labels = << >> /\ line_number = 0
  BY DEF Init, AsmInit
<1>2. CodeBefore(1) = {}
  <2>1. \A q \in CodeEnds : q \in 1 .. Len(text) BY <1>1, EndsFacts
  <2>2. \A q \in CodeEnds : ~ (q < 1) BY <1>1, <2>1, EndsFacts
  <2> QED BY <2>2 DEF CodeBefore
<1>3. Cardinality(CodeBefore(1)) = 0 BY <1>2, FS_EmptySet
<1>4. TextRead(tokens, labels, line_number, 1)
  <2>1. Len(tokens) = 0 /\ 0 % AddrMod = 0 BY <1>1 DEF AddrMod
  <2>2. 1 .. 0 = {} OBVIOUS
  <2>3. DOMAIN labels = {} BY <1>1
  <2> QED BY <1>1, <1>3, <2>1, <2>2, <2>3 DEF TextRead
<1>5. LineRead(line, 1)
  <2>1. LineBegins(1, 1) BY DEF LineBegins
  <2>2. Spoken(1, 1) = <<>> BY SpokenNone
  <2>3. 1 .. 1 - 1 = {} OBVIOUS
  <2> QED BY <1>1, <2>1, <2>2, <2>3 DEF LineRead
<1> QED BY <1>1, <1>4, <1>5 DEF KeptInv

\* Every step of assembler and CCE keeps it.
LEMMA KeptInvNext == ASSUME AsmInv, KeptInv, [Next]_vars PROVE KeptInv'
<1>1. ASSUME UNCHANGED <<text, pos, line, line_number, tokens, labels>>,
             \/ mode' = mode
             \/ mode' \notin {"args", "read", "assemble", "done"}
             \/ mode = "assemble" /\ mode' = "done"
             \/ mode \in {"args", "read"} /\ mode' \in {"args", "read"}
      PROVE  KeptInv'
  BY <1>1, KeptNext DEF KeptInv
<1>2. CASE TakeFormat \/ TakeFile \/ Usage \/ ArgsDone
  BY <1>1, <1>2 DEF TakeFormat, TakeFile, Usage, ArgsDone, afterArgs
<1>3. CASE AssembleOne \/ Finish
  BY <1>1, <1>3 DEF AssembleOne, Finish, readOnly
<1>4. CASE UNCHANGED asmVars
  BY <1>1, <1>4 DEF asmVars
<1>5. CASE AsmNext
  BY <1>2, <1>3, <1>5, SkipBlankKeeps, SkipCommentKeeps, TakeKeeps, EndLineKeeps,
     UnclearKeeps, EndOfTextKeeps DEF AsmNext
<1> QED BY <1>4, <1>5 DEF Next, Assemble, Generate, Run, vars

\* Whatever clear text is read, under whatever arguments: the assembler's
\* second pass gets each statement once, in order and with its own words, and
\* each label stands for the address of its statement (readLine, tokenizeLine
\* and parseLabels in bp_as.cc).
THEOREM TextIsKept == Spec => []TextKept
<1>1. AsmInv /\ KeptInv /\ [Next]_vars => KeptInv' BY KeptInvNext
<1>2. KeptInv => TextKept BY DEF KeptInv, TextKept
<1> QED BY <1>1, <1>2, KeptInit, AsmInvHolds, PTL DEF Spec

-----------------------------------------------------------------------------
(* From statements to execution.                                           *)

(* The image holds the words of the first statements, none of which was    *)
(* rejected, or nothing; all of them when the assembler is done.           *)
Image(im, n, tk, lb, fm) ==
  IF fm = "binary"
  THEN /\ Len(im) = n
       /\ \A k \in 1 .. n : /\ ~Rejected(parseTokens(tk[k], lb))
                            /\ im[k] = Word(parseTokens(tk[k], lb))
  ELSE im = <<>>
ImageInv ==
  /\ mode \in {"args", "read", "spin"} => at = 0 /\ image = <<>>
  /\ mode = "done" => at = Len(tokens)
  /\ Image(image, at, tokens, labels, format)

LEMMA ImageStart == ASSUME NEW tk, NEW lb, NEW fm PROVE Image(<<>>, 0, tk, lb, fm)
<1>1. Len(<<>>) = 0 /\ 1 .. 0 = {} OBVIOUS
<1> QED BY <1>1 DEF Image

LEMMA ImageAssemble == ASSUME AsmInv, ImageInv, AssembleOne PROVE ImageInv'
<1> DEFINE inst == parseTokens(tokens[at + 1], labels)
<1>1. /\ mode = "assemble" /\ at \in Nat /\ UNCHANGED <<format, tokens, labels>>
      /\ tokens \in Seq(Seq(STRING)) /\ Image(image, at, tokens, labels, format)
  BY DEF AssembleOne, AsmInv, AsmTypeOK, ImageInv
<1>2. \/ Rejected(inst) /\ mode' = "aborted" /\ UNCHANGED <<at, image>>
      \/ /\ ~Rejected(inst) /\ at' = at + 1 /\ mode' = mode
         /\ image' = IF format = "binary" THEN Append(image, Word(inst)) ELSE image
  BY DEF AssembleOne
<1>3. CASE Rejected(inst) /\ mode' = "aborted" /\ UNCHANGED <<at, image>>
  BY <1>1, <1>3 DEF ImageInv
<1>4. CASE /\ ~Rejected(inst) /\ at' = at + 1 /\ mode' = mode
           /\ image' = IF format = "binary" THEN Append(image, Word(inst)) ELSE image
  <2>1. CASE format = "binary"
    <3>1. /\ Len(image) = at
          /\ \A k \in 1 .. at : /\ ~Rejected(parseTokens(tokens[k], labels))
                                /\ image[k] = Word(parseTokens(tokens[k], labels))
      BY <1>1, <2>1 DEF Image
    <3> DEFINE S == {image[k] : k \in 1 .. at}
    <3>2. image \in Seq(S)
      <4>1. image = [k \in 1 .. at |-> image[k]] BY <3>1 DEF AsmInv, AsmTypeOK
      <4>2. image \in [1 .. at -> S] BY <4>1
      <4> HIDE DEF S
      <4> QED BY <1>1, <4>2, SeqDef
    <3>3. image \in Seq(S \cup {Word(inst)}) BY <3>2, SeqMonotonic, S \subseteq S \cup {Word(inst)}
    <3> HIDE DEF S
    <3>4. /\ Len(image') = at + 1 /\ image'[at + 1] = Word(inst)
          /\ \A k \in 1 .. at : image'[k] = image[k]
      BY <1>1, <1>4, <2>1, <3>1, <3>3, AppendProperties
    <3>5. ASSUME NEW k \in 1 .. at + 1
          PROVE  /\ ~Rejected(parseTokens(tokens[k], labels))
                 /\ image'[k] = Word(parseTokens(tokens[k], labels))
      <4>1. CASE k = at + 1 BY <1>4, <3>4, <4>1
      <4>2. CASE k \in 1 .. at BY <3>1, <3>4, <4>2
      <4> QED BY <1>1, <4>1, <4>2
    <3>6. Image(image', at', tokens', labels', format')
      BY <1>1, <1>4, <2>1, <3>4, <3>5 DEF Image
    <3> QED BY <1>1, <1>4, <3>6 DEF ImageInv
  <2>2. CASE format # "binary"
    BY <1>1, <1>4, <2>2 DEF ImageInv, Image
  <2> QED BY <2>1, <2>2
<1> QED BY <1>2, <1>3, <1>4

LEMMA ImageInvNext == ASSUME AsmInv, ImageInv, [Next]_vars PROVE ImageInv'
<1>1. ASSUME UNCHANGED <<mode, format, tokens, labels, at, image>> PROVE ImageInv'
  BY <1>1 DEF ImageInv
<1>2. ASSUME mode \in {"args", "read"}, UNCHANGED <<at, image>>, mode' # "done"
      PROVE  ImageInv'
  <2>1. at' = 0 /\ image' = <<>> BY <1>2 DEF ImageInv
  <2> QED BY <1>2, <2>1, ImageStart DEF ImageInv
<1>3. CASE TakeFormat \/ TakeFile \/ Usage \/ ArgsDone
  BY <1>2, <1>3 DEF TakeFormat, TakeFile, Usage, ArgsDone, Option, afterArgs
<1>4. ASSUME NEW words, NEW lines, Statement(words, lines), mode = "read"
      PROVE  ImageInv'
  BY <1>2, <1>4 DEF Statement
<1>5. CASE SkipBlank \/ SkipComment \/ TakePhrase \/ TakeBlank \/ EndOfText
  BY <1>2, <1>5 DEF SkipBlank, SkipComment, TakePhrase, TakeBlank, EndOfText, Reading,
                    readOnly
<1>6. CASE EndLine BY <1>4, <1>6 DEF EndLine, Reading
<1>7. CASE EndComment
  <2>1. \/ mode' = "spin" /\ UNCHANGED readOnly
        \/ Statement(line, line_number)
    BY <1>7 DEF EndComment
  <2> QED BY <1>2, <1>4, <1>7, <2>1 DEF EndComment, Reading, readOnly
<1>8. CASE EndOfFile BY <1>4, <1>8 DEF EndOfFile
<1>9. CASE Finish BY <1>9 DEF Finish, ImageInv, readOnly
<1>10. CASE AssembleOne BY <1>10, ImageAssemble
<1>11. CASE UNCHANGED asmVars BY <1>1, <1>11 DEF asmVars
<1>12. CASE AsmNext
  BY <1>3, <1>5, <1>6, <1>7, <1>8, <1>9, <1>10, <1>12 DEF AsmNext
<1> QED BY <1>11, <1>12 DEF Next, Assemble, Generate, Run, vars

LEMMA ImageInvHolds == Spec => []ImageInv
<1>1. Init => ImageInv
  <2> SUFFICES ASSUME Init PROVE ImageInv OBVIOUS
  <2>1. mode = "args" /\ at = 0 /\ image = <<>> BY DEF Init, AsmInit
  <2> QED BY <2>1, ImageStart DEF ImageInv
<1>2. AsmInv /\ ImageInv /\ [Next]_vars => ImageInv' BY ImageInvNext
<1> QED BY <1>1, <1>2, AsmInvHolds, PTL DEF Spec

\* What decode and the ALU answer is an answer to the RAM's output.
AnswersInv ==
  pc_state = "FETCH" => stall \in Stalls(Inst) /\ taken \in Takes(Inst, inst_v_r)

LEMMA AnswersInvHolds == Spec => []AnswersInv
<1>1. Init => AnswersInv BY DEF Init, FetchInit, AnswersInv
<1>2. ASSUME AnswersInv, [Next]_vars PROVE AnswersInv'
  <2>1. CASE Run
    <3>1. Answers BY <2>1 DEF Run, Clock, Boot, BootEnd, Fetch
    <3> QED BY <3>1 DEF Answers, AnswersInv
  <2>2. CASE Generate \/ Assemble \/ UNCHANGED vars
    <3>1. UNCHANGED <<pc_state, stall, taken, ram_data_o, inst_v_r>>
      BY <2>2 DEF Generate, Assemble, vars, fetchVars, pcRegs
    <3> QED BY <1>2, <3>1 DEF AnswersInv, Inst
  <2> QED BY <1>2, <2>1, <2>2 DEF Next
<1> QED BY <1>1, <1>2, PTL DEF Spec

\* A statement is sequence of words.
LEMMA StatementWords ==
  ASSUME AsmInv, NEW k \in 1 .. Len(tokens)
  PROVE  tokens[k] \in Seq(STRING)
<1>1. tokens \in Seq(Seq(STRING)) BY DEF AsmInv, AsmTypeOK
<1> QED BY <1>1, ElementOfSeq

LEMMA LabelsFit == ASSUME AsmInv PROVE labels \in [DOMAIN labels -> Immediates]
<1>1. 0 .. AddrMod - 1 = Immediates BY SMT DEF Immediates, AddrMod
<1> QED BY <1>1 DEF AsmInv, AsmTypeOK

\* The statement at the PC of a CCE that runs a clear text, and the word that
\* stands for it.
LEMMA StatementAtPc ==
  ASSUME AsmInv, FetchInv, RomInv, KeptInv, ImageInv,
         power, mode = "done", pc_state = "FETCH", inst_v_r,
         ex_pc_r < Len(Statements), Clear(Statements)
  PROVE  LET s == Program(Statements)[ex_pc_r + 1]
         IN  /\ s \in Seq(STRING) /\ labels = AddressOf(Statements)
             /\ ~Rejected(parseTokens(s, labels))
             /\ Inst = Rom(ex_pc_r) /\ Inst # Unknown
             /\ Unpack(Inst) = parseTokens(s, labels)
<1> DEFINE k == ex_pc_r + 1
           s == tokens[k]
<1>1. tokens = Program(Statements) /\ labels = AddressOf(Statements) BY DEF KeptInv
<1>2. rom = image /\ Len(image) # 0
  <2>1. rom = image /\ \E n \in 1 .. Len(image) : TRUE BY DEF RomInv
  <2>2. Len(image) \in 0 .. at /\ at \in 0 .. Len(tokens) /\ tokens \in Seq(Seq(STRING))
    BY DEF AsmInv, AsmTypeOK
  <2> QED BY <2>1, <2>2
<1>3. format = "binary"
  <2>1. Image(image, at, tokens, labels, format) BY DEF ImageInv
  <2>2. Len(<<>>) = 0 OBVIOUS
  <2> QED BY <1>2, <2>1, <2>2 DEF Image
<1>4. /\ Len(image) = Len(tokens)
      /\ \A j \in 1 .. Len(tokens) : /\ ~Rejected(parseTokens(tokens[j], labels))
                                     /\ image[j] = Word(parseTokens(tokens[j], labels))
  BY <1>3 DEF ImageInv, Image
<1>5. Len(tokens) = Len(Statements)
  <2>1. DOMAIN tokens = DOMAIN Statements BY <1>1 DEF Program
  <2>2. tokens \in Seq(Seq(STRING)) BY DEF AsmInv, AsmTypeOK
  <2>3. DOMAIN tokens = 1 .. Len(tokens) /\ Len(tokens) \in Nat BY <2>2
  <2>4. text \in Texts BY DEF AsmInv, AsmTypeOK
  <2>5. DOMAIN Statements = 1 .. Len(Statements) /\ Len(Statements) \in Nat
    BY <2>4, EndsFacts DEF Statements
  <2> QED BY <2>1, <2>3, <2>5, LengthIs
<1>6. k \in 1 .. Len(tokens)
  <2>1. ex_pc_r \in Addr /\ Els \in Nat BY ElsAssumption DEF FetchInv, FetchTypeOK
  <2>2. ex_pc_r \in Nat BY <2>1 DEF Addr
  <2>3. Len(tokens) \in Nat BY DEF AsmInv, AsmTypeOK
  <2> QED BY <1>5, <2>2, <2>3
<1>7. /\ s \in Seq(STRING) /\ ~Rejected(parseTokens(s, labels))
      /\ image[k] = Word(parseTokens(s, labels))
  BY <1>4, <1>6, StatementWords
<1>8. labels \in [DOMAIN labels -> Immediates] BY LabelsFit
<1>9. Inst = Rom(ex_pc_r) BY DEF FetchInv, Inst
<1>10. Rom(ex_pc_r) = image[k]
  BY <1>2, <1>4, <1>5 DEF Rom
<1> HIDE DEF s
<1>11. Unpack(Inst) = parseTokens(s, labels)
  BY <1>7, <1>8, <1>9, <1>10, StatementIsUnpacked
<1>12. Inst # Unknown
  <2>1. Fits(parseTokens(s, labels)) BY <1>7, <1>8, AssignedTyped, ParsedFits
  <2> QED BY <1>7, <1>9, <1>10, <2>1, WordIsKnown
<1> QED BY <1>1, <1>7, <1>9, <1>11, <1>12 DEF s

\* Where a statement may lead to, by its mnemonic.
LEMMA StepIs ==
  ASSUME AsmInv, FetchInv, RomInv, KeptInv, ImageInv, AnswersInv, NextPc,
         power, mode = "done", pc_state = "FETCH", inst_v_r
  PROVE  StepAsWritten
<1> DEFINE ss == Statements
           s == Program(Statements)[ex_pc_r + 1]
           lb == AddressOf(Statements)
           follows == (ex_pc_r + 1) % Els
           target == Doc!Destination(lb, s[Len(s)]) % Els
           may == CASE s[1] = "stall" -> {ex_pc_r}
                    [] s[1] = "bi" -> {target}
                    [] s[1] \in Doc!Branches -> {target, follows}
                    [] s[1] \in {"wfq", "pushq"} -> {ex_pc_r, follows}
                    [] OTHER -> {follows}
           twice == ex_pc_r = 0 /\ ex_pc_r' = 0 /\ ram_addr_r = 0
<1> SUFFICES ASSUME Len(ss) <= Els, ex_pc_r < Len(ss), Clear(ss), Doc!Documented(s, lb)
             PROVE  ex_pc_r' \in may \/ (twice /\ s[1] # "stall")
  BY Zenon DEF StepAsWritten
<1>1. /\ s \in Seq(STRING) /\ labels = lb /\ ~Rejected(parseTokens(s, lb))
      /\ Inst = Rom(ex_pc_r) /\ Inst # Unknown
      /\ Unpack(Inst) = parseTokens(s, lb)
      /\ lb \in [DOMAIN lb -> Immediates]
  BY StatementAtPc, LabelsFit
<1>2. /\ s[1] = "stall" => stall = TRUE
      /\ s[1] \notin {"stall", "wfq", "pushq"} => stall = FALSE
      /\ s[1] = "bi" => taken = TRUE
      /\ s[1] \notin BranchWords => taken = FALSE
  <2>1. stall \in Stalls(Inst) /\ taken \in Takes(Inst, inst_v_r) BY DEF AnswersInv
  <2>2. inst_v_r = TRUE BY DEF FetchInv, FetchTypeOK
  <2>3. taken \in Takes(Inst, TRUE) BY <2>1, <2>2
  <2> DEFINE word == Inst
  <2> HIDE DEF s, lb, word
  <2>4. /\ s \in Seq(STRING) /\ lb \in [DOMAIN lb -> Immediates] /\ Doc!Documented(s, lb)
        /\ ~Rejected(parseTokens(s, lb)) /\ word # Unknown
        /\ Unpack(word) = parseTokens(s, lb)
    BY <1>1 DEF word
  <2>5. /\ s[1] = "stall" => Stalls(word) = {TRUE}
        /\ s[1] \notin {"stall", "wfq", "pushq"} => Stalls(word) = {FALSE}
        /\ s[1] = "bi" => Takes(word, TRUE) = {TRUE}
        /\ s[1] \notin BranchWords => Takes(word, TRUE) = {FALSE}
    BY <2>4, StatementAnswers, Zenon
  <2>6. stall \in Stalls(word) /\ taken \in Takes(word, TRUE) BY <2>1, <2>3 DEF word
  <2> QED BY <2>5, <2>6
<1>3. /\ stall => ex_pc_r' = ex_pc_r
      /\ ~stall /\ taken => ex_pc_r' \in Targets(Inst)
      /\ ~stall /\ ~taken => ex_pc_r' = follows \/ twice
  BY <1>1 DEF NextPc
<1>4. s[1] \in BranchWords => \A a \in Targets(Inst) : a = target
  <2>1. ASSUME s[1] \in BranchWords
        PROVE  parseTokens(s, lb).imm = Doc!Destination(lb, s[Len(s)])
    <3> HIDE DEF s, lb
    <3> QED BY <1>1, <2>1, BranchTarget
  <2>2. \A a \in Targets(Inst) : a = Unpack(Inst).imm % Els
    BY <1>1 DEF Targets
  <2> HIDE DEF s, lb
  <2> QED BY <1>1, <2>1, <2>2
<1>5. Doc!Branches \cup {"bi"} = BranchWords
  BY DEF Doc!Branches, Doc!Compares, BranchWords
<1>6. stall \in BOOLEAN /\ taken \in BOOLEAN BY DEF FetchInv, FetchTypeOK
<1>7. /\ s[1] = "stall" => may = {ex_pc_r}
      /\ s[1] = "bi" => may = {target}
      /\ s[1] \in BranchWords \ {"bi"} => may = {target, follows}
      /\ s[1] \in {"wfq", "pushq"} => may = {ex_pc_r, follows}
      /\ s[1] \notin BranchWords \cup {"stall", "wfq", "pushq"} => may = {follows}
  <2> HIDE DEF s, target, follows
  <2>1. ASSUME s[1] = "stall" PROVE may = {ex_pc_r}
    <3>1. s[1] \notin Doc!Branches /\ s[1] # "bi" /\ s[1] \notin {"wfq", "pushq"}
      BY <1>5, <2>1 DEF BranchWords
    <3> QED BY <2>1, <3>1
  <2>2. ASSUME s[1] = "bi" PROVE may = {target}
    <3>1. s[1] \notin Doc!Branches /\ s[1] # "stall" /\ s[1] \notin {"wfq", "pushq"}
      BY <2>2 DEF Doc!Branches, Doc!Compares
    <3> QED BY <2>2, <3>1
  <2>3. ASSUME s[1] \in BranchWords \ {"bi"} PROVE may = {target, follows}
    <3>1. /\ s[1] \in Doc!Branches /\ s[1] # "stall" /\ s[1] # "bi"
          /\ s[1] \notin {"wfq", "pushq"}
      BY <1>5, <2>3 DEF BranchWords
    <3> QED BY <3>1
  <2>4. ASSUME s[1] \in {"wfq", "pushq"} PROVE may = {ex_pc_r, follows}
    <3>1. s[1] \notin Doc!Branches /\ s[1] # "stall" /\ s[1] # "bi"
      BY <1>5, <2>4 DEF BranchWords
    <3> QED BY <2>4, <3>1
  <2>5. ASSUME s[1] \notin BranchWords \cup {"stall", "wfq", "pushq"}
        PROVE  may = {follows}
    <3>1. /\ s[1] \notin Doc!Branches /\ s[1] # "stall" /\ s[1] # "bi"
          /\ s[1] \notin {"wfq", "pushq"}
      BY <1>5, <2>5 DEF BranchWords
    <3> QED BY <3>1
  <2> QED BY <2>1, <2>2, <2>3, <2>4, <2>5
<1> HIDE DEF s, target, follows, may, lb, ss, twice
<1>8. CASE s[1] = "stall" BY <1>2, <1>3, <1>7, <1>8
<1>9. CASE s[1] = "bi"
  BY <1>2, <1>3, <1>4, <1>7, <1>9 DEF BranchWords
<1>10. CASE s[1] \in BranchWords \ {"bi"}
  <2>1. s[1] \notin {"stall", "wfq", "pushq"} BY <1>10 DEF BranchWords
  <2> QED BY <1>2, <1>3, <1>4, <1>6, <1>7, <1>10, <2>1
<1>11. CASE s[1] \in {"wfq", "pushq"}
  <2>1. s[1] \notin BranchWords /\ s[1] # "stall" BY <1>11 DEF BranchWords
  <2> QED BY <1>2, <1>3, <1>6, <1>7, <1>11, <2>1
<1>12. CASE s[1] \notin BranchWords \cup {"stall", "wfq", "pushq"}
  BY <1>2, <1>3, <1>6, <1>7, <1>12
<1> QED BY <1>8, <1>9, <1>10, <1>11, <1>12

\* A CCE that runs a clear text executes it as inst.txt reads it, cycle by
\* cycle: what the assembler has made of each statement, at the address that
\* the statement has in the text, leads to the statement that it names
\* (bp_as.cc, bp_cce_inst_decode.v, bp_cce_alu.v, bp_cce_pc.v).
THEOREM TextIsRun == Spec => RunsAsWritten
<1>1. ASSUME AsmInv, FetchInv, RomInv, KeptInv, ImageInv, AnswersInv, [Next]_vars
      PROVE  [StepAsWritten]_vars
  <2>1. CASE Assemble BY <2>1, AssembleNeedsMode DEF Assemble, StepAsWritten
  <2>2. CASE Generate BY <2>2 DEF Generate, StepAsWritten
  <2>3. CASE Run
    <3>1. ASSUME power, mode = "done", pc_state = "FETCH", inst_v_r PROVE StepAsWritten
      <4>1. Fetch BY <2>3, <3>1 DEF Run, Clock, Boot, BootEnd
      <4>2. NextPc BY <1>1, <3>1, <4>1, FetchesNext
      <4> QED BY <1>1, <3>1, <4>2, StepIs
    <3> QED BY <3>1 DEF StepAsWritten
  <2> QED BY <1>1, <2>1, <2>2, <2>3 DEF Next
<1>2. AsmInv /\ KeptInv /\ [Next]_vars => KeptInv' BY KeptInvNext
<1>3. Spec => []KeptInv BY <1>2, KeptInit, AsmInvHolds, PTL DEF Spec
<1> QED
  BY <1>1, <1>3, AsmInvHolds, FetchInvHolds, RomInvHolds, ImageInvHolds, AnswersInvHolds,
     PTL DEF Spec, RunsAsWritten

\* The word that assemble has written last does, unpacked, decoded and
\* executed, what inst.txt says of the statement it was made of: parser,
\* header, output order, struct, decoder and muxes agree for every statement
\* of the syntax (bp_as.cc, bp_cce_inst.h, bp_cce_inst.vh,
\* bp_cce_inst_decode.v, bp_cce.v).
THEOREM EffectsHold == Spec => []EffectsAsWritten
<1>1. ASSUME AsmInv, ImageInv PROVE EffectsAsWritten
  <2> DEFINE s == tokens[at]
  <2>1. SUFFICES ASSUME mode = "assemble", image # <<>>,
                        Doc!Documented(s, labels), ~Doc!Departs(s)
                 PROVE  Effects(Unpack(Last(image))) = Doc!Meaning(s, labels)
    BY DEF EffectsAsWritten
  <2>2. Image(image, at, tokens, labels, format) BY <1>1 DEF ImageInv
  <2>3. /\ Len(image) = at
        /\ \A k \in 1 .. at : /\ ~Rejected(parseTokens(tokens[k], labels))
                              /\ image[k] = Word(parseTokens(tokens[k], labels))
    BY <2>1, <2>2 DEF Image
  <2>4. at \in 1 .. Len(tokens) /\ Last(image) = image[at]
    BY <1>1, <2>1, <2>3 DEF AsmInv, AsmTypeOK, Last
  <2>5. s \in Seq(STRING) BY <1>1, <2>4, StatementWords
  <2>6. /\ ~Rejected(parseTokens(s, labels))
        /\ Last(image) = Word(parseTokens(s, labels))
    BY <2>3, <2>4
  <2>7. labels \in [DOMAIN labels -> Immediates] BY <1>1, LabelsFit
  <2> HIDE DEF s
  <2> QED BY <2>1, <2>5, <2>6, <2>7, StatementMeans, Zenon
<1> QED BY <1>1, AsmInvHolds, ImageInvHolds, PTL
=============================================================================
