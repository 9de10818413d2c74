------------------------------ MODULE AsmText ------------------------------
(***************************************************************************)
(* The microcode assembler bp-as as a sequential program: options, the     *)
(* first pass that reads lines and collects labels, the second pass that   *)
(* writes a word per statement.                                            *)
(*                                                                         *)
(* A text is a sequence of lexemes: the characters that readLine tells     *)
(* apart (a newline, a semicolon, the comment sign, white space), and      *)
(* phrases, runs of words between them.  A word stands for its spellings   *)
(* in either case (_lowercase), white space for blanks, tabs, commas and   *)
(* slashes.  Lines of MAX_LINE_LENGTH characters and the character \0 are  *)
(* left out.                                                               *)
(***************************************************************************)
EXTENDS AsmParse

CONSTANTS
  Texts,       \* the texts on the input, sequences of lexemes
  Args,        \* the argument lists, sequences of words
  LabelKey,    \* for a word that ends in a colon, the word without it
  WithEof,     \* for a word or none (""), the word with fgetc's EOF behind it
  Leftover,    \* what may stand in the line buffer behind the line's end
  MaxTokens    \* MAX_TOKENS

Newline == <<"\n">>
Semicolon == <<";">>
Hash == <<"#">>
Blank == <<" ">>
Signs == {Newline, Semicolon, Hash, Blank}
Formats == {"binary", "dbg", "none"}
Modes == {"args", "read", "spin", "assemble", "done", "aborted"}
AddrMod == 65536

ASSUME TextAssumption ==
  /\ WithEof \in [DOMAIN WithEof -> STRING] /\ DOMAIN WithEof \subseteq STRING
  /\ "" \in DOMAIN WithEof
  /\ Texts \subseteq Seq(Seq(DOMAIN WithEof) \ {<<>>})
  /\ Args \subseteq Seq(STRING)
  /\ LabelKey \in [DOMAIN LabelKey -> STRING] /\ DOMAIN LabelKey \subseteq STRING
  /\ Leftover \subseteq Seq(STRING) /\ Leftover # {}
  /\ MaxTokens \in Nat \ {0}

VARIABLES
  mode, args, format,
  text, pos,          \* the input and the place of the next lexeme
  line, gap,          \* the line so far, and whether it ends in white space
  line_number, tokens, labels,
  at, image,          \* assemble's index, and the words it has written
  named               \* history: of each statement, the label that names it
asmVars == <<mode, args, format, text, pos, line, gap, line_number, tokens, labels,
             at, image, named>>

AsmTypeOK ==
  /\ mode \in Modes /\ format \in Formats /\ args \in Seq(STRING)
  /\ text \in Texts /\ pos \in 1 .. Len(text) + 1
  /\ line \in Seq(STRING) /\ gap \in BOOLEAN
  /\ line_number \in 0 .. AddrMod - 1
  /\ tokens \in Seq(Seq(STRING)) /\ at \in 0 .. Len(tokens)
  /\ labels \in [DOMAIN labels -> 0 .. AddrMod - 1]
  /\ image = [k \in 1 .. Len(image) |-> image[k]] /\ Len(image) \in 0 .. at
  /\ named \in Seq(SUBSET STRING) /\ Len(named) = Len(tokens)

\* The constructor leaves output_format uninitialised: it may happen to hold
\* the value of either format, or of none, and then nothing is printed.
AsmInit ==
  /\ mode = "args" /\ args \in Args /\ format \in Formats
  /\ text \in Texts /\ pos = 1
  /\ line = <<>> /\ gap = FALSE
  /\ line_number = 0 /\ tokens = <<>> /\ labels = << >>
  /\ at = 0 /\ image = <<>> /\ named = <<>>

-----------------------------------------------------------------------------
(* parseArgs.                                                              *)

Option(names) == mode = "args" /\ args # <<>> /\ Head(args) \in names
afterArgs == <<text, pos, line, gap, line_number, tokens, labels, at, image, named>>

TakeFormat ==
  /\ Option({"-b", "-d"})
  /\ format' = IF Head(args) = "-b" THEN "binary" ELSE "dbg"
  /\ args' = Tail(args)
  /\ UNCHANGED <<mode, afterArgs>>

\* The word after -i or -o is taken for a file name, whatever it is; behind
\* the last word stands argv[argc], a null pointer.
TakeFile ==
  /\ Option({"-i", "-o"})
  /\ \/ Len(args) > 1 /\ args' = Tail(Tail(args)) /\ UNCHANGED mode
     \/ mode' = "aborted" /\ UNCHANGED args
  /\ UNCHANGED <<format, afterArgs>>

Usage ==
  /\ mode = "args" /\ args # <<>> /\ Head(args) \notin {"-b", "-d", "-i", "-o"}
  /\ mode' = "aborted"
  /\ UNCHANGED <<args, format, afterArgs>>

ArgsDone ==
  /\ mode = "args" /\ args = <<>>
  /\ mode' = "read"
  /\ UNCHANGED <<args, format, afterArgs>>

-----------------------------------------------------------------------------
(* The first pass: tokenizeAndLabel with readLine, tokenizeLine and        *)
(* parseLabels.                                                            *)

Reading(signs) == mode = "read" /\ pos <= Len(text) /\ text[pos] \in signs

\* The first place from p on that holds one of the signs; one past the text
\* if there is none.
NextSign(signs, p) ==
  CHOOSE q \in p .. Len(text) + 1 :
    /\ q = Len(text) + 1 \/ text[q] \in signs
    /\ \A r \in p .. q - 1 : text[r] \notin signs

\* labels_to_addr.insert leaves an entry of the same key alone.
Insert(f, k, v) ==
  IF k \in DOMAIN f THEN f
  ELSE [j \in DOMAIN f \cup {k} |-> IF j = k THEN v ELSE f[j]]

Shorten(words) == IF Len(words) > MaxTokens THEN SubSeq(words, 1, MaxTokens) ELSE words

(* One statement: its address is the number of lines so far less one, as a *)
(* 16 bit number.  The check for a duplicate looks the label up with its   *)
(* colon, while labels are stored without.                                 *)
Statement(words, lines) ==
  LET addr == (lines + AddrMod - 1) % AddrMod
      labelled == words[1] \in DOMAIN LabelKey
  IN  /\ line' = <<>> /\ gap' = FALSE /\ line_number' = lines
      /\ \/ /\ labelled /\ words[1] \in DOMAIN labels
            /\ mode' = "aborted"
            /\ UNCHANGED <<labels, tokens, named>>
         \/ /\ labelled /\ words[1] \notin DOMAIN labels
            /\ labels' = Insert(labels, LabelKey[words[1]], addr)
            /\ tokens' = Append(tokens, Tail(Shorten(words)))
            /\ named' = Append(named, {LabelKey[words[1]]})
            /\ UNCHANGED mode
         \/ /\ ~labelled
            /\ tokens' = Append(tokens, Shorten(words))
            /\ named' = Append(named, {})
            /\ UNCHANGED <<mode, labels>>
      /\ UNCHANGED <<args, format, text, at, image>>

readOnly == <<args, format, text, line_number, tokens, labels, at, image, named>>

\* White space and newlines before a line, which do not count as lines.
SkipBlank ==
  /\ line = <<>> /\ Reading({Newline, Semicolon, Blank})
  /\ pos' = pos + 1
  /\ UNCHANGED <<mode, line, gap, readOnly>>

\* Mutation: a semicolon ends the comment as well.
SkipCommentPart ==
  /\ line = <<>> /\ Reading({Hash})
  /\ LET q == NextSign({Newline, Semicolon}, pos)
     IN  pos' = IF q > Len(text) THEN q ELSE q + 1
  /\ UNCHANGED <<mode, line, gap, readOnly>>

\* A comment that starts a line goes up to the newline, and is no line.
SkipComment ==
  /\ line = <<>> /\ Reading({Hash})
  /\ LET q == NextSign({Newline}, pos) IN pos' = IF q > Len(text) THEN q ELSE q + 1
  /\ UNCHANGED <<mode, line, gap, readOnly>>

TakePhrase ==
  /\ mode = "read" /\ pos <= Len(text) /\ text[pos] \notin Signs
  /\ line' = line \o text[pos] /\ gap' = FALSE
  /\ pos' = pos + 1
  /\ UNCHANGED <<mode, readOnly>>

TakeBlank ==
  /\ line # <<>> /\ Reading({Blank})
  /\ gap' = TRUE
  /\ pos' = pos + 1
  /\ UNCHANGED <<mode, line, readOnly>>

\* Only a newline counts as a line.
EndLine ==
  /\ line # <<>> /\ Reading({Newline, Semicolon})
  /\ pos' = pos + 1
  /\ Statement(line, IF text[pos] = Newline THEN (line_number + 1) % AddrMod
                     ELSE line_number)

(* A comment behind a statement is read up to a newline, which then does   *)
(* not count, or a semicolon, behind which the rest of the comment is      *)
(* read as code.  At the end of the file fgetc keeps returning EOF, which  *)
(* ends neither the comment nor the loop.                                  *)
EndComment ==
  /\ line # <<>> /\ Reading({Hash})
  /\ LET q == NextSign({Newline, Semicolon}, pos)
     IN  IF q > Len(text)
         THEN mode' = "spin" /\ UNCHANGED <<pos, line, gap, readOnly>>
         ELSE pos' = q + 1 /\ Statement(line, line_number)

(* The last line without a newline: EOF, as the character 0xFF, is stored  *)
(* like any other, behind the last word or alone, and the line is not      *)
(* terminated, so that what the buffer held before may follow.             *)
Garbled ==
  IF gap THEN Append(line, WithEof[""])
  ELSE [line EXCEPT ![Len(line)] = WithEof[@]]

EndOfFile ==
  /\ mode = "read" /\ pos > Len(text) /\ line # <<>>
  /\ \E rest \in Leftover : Statement(Garbled \o rest, line_number)
  /\ UNCHANGED pos

EndOfText ==
  /\ mode = "read" /\ pos > Len(text) /\ line = <<>>
  /\ mode' = "assemble"
  /\ UNCHANGED <<pos, line, gap, readOnly>>

-----------------------------------------------------------------------------
(* The second pass.                                                        *)

\* One turn of assemble's loop.  A statement that cannot be parsed ends the
\* program; a debug listing is not a memory image.
AssembleOne ==
  /\ mode = "assemble" /\ at < Len(tokens)
  /\ LET inst == parseTokens(tokens[at + 1], labels)
     IN  IF Rejected(inst)
         THEN mode' = "aborted" /\ UNCHANGED <<at, image>>
         ELSE /\ image' = IF format = "binary" THEN Append(image, Word(inst)) ELSE image
              /\ at' = at + 1
              /\ UNCHANGED mode
  /\ UNCHANGED <<args, format, text, pos, line, gap, line_number, tokens, labels, named>>

Finish ==
  /\ mode = "assemble" /\ at = Len(tokens)
  /\ mode' = "done"
  /\ UNCHANGED <<pos, line, gap, readOnly>>

AsmNext ==
  \/ TakeFormat \/ TakeFile \/ Usage \/ ArgsDone
  \/ SkipBlank \/ SkipComment \/ TakePhrase \/ TakeBlank
  \/ EndLine \/ EndComment \/ EndOfFile \/ EndOfText
  \/ AssembleOne \/ Finish
=============================================================================
