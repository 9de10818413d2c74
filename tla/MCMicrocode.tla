---------------------------- MODULE MCMicrocode ----------------------------
(* TLC instance of Microcode: every statement of the syntax on its own, all *)
(* short layouts of two statements, and programs that loop in a small RAM.  *)
EXTENDS Microcode

MCStoi ==
  "0" :> 0 @@ "1" :> 1 @@ "2" :> 2 @@ "3" :> 3 @@ "4" :> 4 @@ "5" :> 5 @@ "6" :> 6
  @@ "7" :> 7 @@ "3~" :> 3 @@ "65535" :> 65535 @@ "65536" :> 65536 @@ "-1" :> -1

MCLabelKey == "a:" :> "a" @@ "b:" :> "b" @@ "a::" :> "a:"
MCLeftover == {<<>>, <<"r1">>}
MCArgs == {<<>>, <<"-b", "-i", "f", "-o", "g">>, <<"-d">>, <<"-i">>, <<"-x">>}

-----------------------------------------------------------------------------
(* Statements.  An operand runs through its words while the others stay at  *)
(* a word each, and sometimes at one that does not belong there.            *)

Regs == {"r0", "r1", "r2", "r3"}
Odd == {"r4", "req", "0"}
Srcs == Regs \cup Odd \cup {"reqlce", "acktype", "shr0", "rqf", "pcf", "lcereq",
                            "memresp", "lceresp", "lcedataresp"}
Queues == {"lcereq", "memresp", "memdataresp", "lceresp", "lcedataresp", "pending"}
Flags == FlagNames \cup {"xf"}
Groups == Regs \cup {"req", "lru", "tr"}
Lces == Regs \cup {"req", "tr", "lru"}
Ways == Regs \cup {"req", "lru", "tr", "shwayr0"}
Tags == {"req", "lru", "0", "1"}
States == {"nextcohst", "i", "s", "e", "m", "0", "1", "2", "3", "4", "x"}
Numbers == {"0", "1", "3", "7", "65535", "65536", "-1", "x"}

\* The statements of which one operand runs.
Vary(before, words, after) == {before \o <<w>> \o after : w \in words}

AluStatements ==
  Vary(<<"add">>, Srcs, <<"r1", "r2">>) \cup Vary(<<"sub", "r1">>, Srcs, <<"r2">>)
  \cup Vary(<<"add", "r3", "r1">>, Regs \cup {"rqf", "nextcohst"}, <<>>)
  \cup Vary(<<"inc">>, Regs \cup {"rqf"}, <<>>) \cup Vary(<<"dec">>, Regs, <<>>)
  \cup {<<"inc", "r1", "r2", "r3">>, <<"add", "r1">>, <<"add">>, <<"sub", "r1", "r2">>}

BranchStatements ==
  {<<n, a, "r1", "2">> : n \in {"beq", "blt", "bge"}, a \in Srcs}
  \cup {<<n, "r1", b, "3">> : n \in {"bne", "ble", "bgt"}, b \in Srcs}
  \cup {<<n, a, "1">> : n \in {"bz", "bnz"}, a \in Srcs}
  \cup {<<n, f, "1">> : n \in {"bf", "bfz"}, f \in Flags}
  \cup Vary(<<"bqr">>, Queues, <<"1">>)
  \cup Vary(<<"bi">>, Numbers, <<>>) \cup Vary(<<"bz", "r0">>, Numbers, <<>>)
  \cup {<<"bi">>, <<"bi", "r0", "r1", "1", "1">>, <<"beq", "r0", "1">>}

MoveStatements ==
  Vary(<<"mov">>, Srcs, <<"r2">>)
  \cup Vary(<<"mov", "r2">>, Regs \cup {"nextcohst", "rqf"}, <<>>)
  \cup {<<"movi", v, d>> : v \in Numbers \cup States, d \in {"r0", "r3", "nextcohst"}}
  \cup {<<n, f>> : n \in {"sf", "sfz"}, f \in Flags}
  \cup {<<"mov">>, <<"sf">>, <<"sf", "3", "r1">>, <<"sf", "rqf", "tf", "r0">>}

DirStatements ==
  {<<n, g>> : n \in {"rdp", "rdw"}, g \in Groups}
  \cup {d \o <<"req", "req">> \o e :
          d \in Vary(<<"rde">>, Groups, <<>>), e \in {<<>>, <<"x">>}}
  \cup Vary(<<"rde", "req">>, Lces, <<"req">>) \cup Vary(<<"rde", "req", "tr">>, Ways, <<>>)
  \cup {<<"wdp", g, b>> : g \in {"r0", "lru", "tr"}, b \in Numbers}
  \cup Vary(<<"wde", "req">>, Lces, <<"lru", "req", "s">>)
  \cup Vary(<<"wde", "r1", "tr">>, Ways, <<"0", "nextcohst">>)
  \cup Vary(<<"wde", "lru", "req", "req">>, Tags, <<"e">>)
  \cup {<<n, "req", "r2", "shwayr0">> \o t \o <<s>> :
          n \in {"wde", "wds"}, t \in {<<>>, <<"lru">>}, s \in States}
  \cup {<<"rdp">>, <<"rde", "req">>, <<"wdp", "req">>, <<"wds", "req", "req">>,
        <<"wds", "req", "req", "req">>}

QueueStatements ==
  {<<"gad">>, <<"stall">>, <<"wfq">>, <<"popq">>, <<"pushq">>, <<"wfq", "lcecmd">>,
   <<"popq", "lcecmd">>, <<"pushq", "lcereq">>, <<"pushq", "memdatacmd">>,
   <<"pushq", "lcecmd">>, <<"nop">>, <<>>}
  \cup {<<"wfq", p, q>> : p \in Queues, q \in Queues}
  \cup Vary(<<"wfq">>, Queues, <<>>) \cup Vary(<<"popq">>, Queues, <<>>)
  \cup Vary(<<"pushq">>, {"lcedatacmd", "memcmd"}, <<>>)
  \cup Vary(<<"pushq", "memdatacmd">>, {"req", "lru", "tr"}, <<>>)
  \cup Vary(<<"pushq", "lcecmd">>, Numbers \cup {"2", "4", "5", "6"}, <<>>)
  \cup Vary(<<"pushq", "lcecmd", "1">>, Lces, <<>>)
  \cup Vary(<<"pushq", "lcecmd", "4", "req">>, Groups, <<"req">>)
  \cup Vary(<<"pushq", "lcecmd", "6", "r0", "req">>, Ways, <<>>)

AllStatements == AluStatements \cup BranchStatements \cup MoveStatements
                 \cup DirStatements \cup QueueStatements

Singles == {<<s, Newline>> : s \in AllStatements \ {<<>>}}

-----------------------------------------------------------------------------
(* Layouts: everything readLine does with two statements, and what is       *)
(* around them; and programs.                                               *)

First == <<"a:", "inc", "r0">>
Second == <<"bi", "a">>
Letters == {First, Second} \cup Signs
NoNeighbours(t) ==
  \A k \in 1 .. Len(t) - 1 : ~({t[k], t[k + 1]} \subseteq {First, Second})
Layouts(n) == {t \in UNION {[1 .. k -> Letters] : k \in 0 .. n} : NoNeighbours(t)}

Lined(statements) == FlattenSeq([k \in DOMAIN statements |-> <<statements[k], Newline>>])
Programs ==
  {Lined(p) : p \in
    {<<<<"a:", "inc", "r0">>, <<"beq", "r0", "r1", "a">>, <<"bi", "b">>, <<"b:", "stall">>>>,
     <<<<"wfq", "lcereq">>, <<"a:", "popq", "lcereq">>, <<"pushq", "memcmd">>,
       <<"bf", "rqf", "a">>>>,
     <<<<"a:", "pushq", "lcedatacmd">>, <<"bi", "b">>, <<"gad">>, <<"b:", "bi", "a">>>>,
     <<<<"bi", "a">>, <<"a:", "inc", "r1">>, <<"bnz", "r0", "3">>, <<"stall">>, <<"gad">>>>,
     <<<<"a:", "gad">>, <<"a:", "stall">>>>,
     <<<<"a::", "gad">>, <<"a:", "stall">>>>,
     <<<<"a:">>, <<"gad">>>>,
     <<<<"gad">>, <<"nop">>, <<"gad">>>>,
     <<<<"wfq">> \o [k \in 1 .. 25 |-> IF k < 20 THEN "lceresp" ELSE "memresp"]>>}}
Commented ==
  {<<Hash, First, Newline, Blank, First, Blank, Blank, Newline, Second, Newline>>,
   <<First, Blank, Hash, Second, Newline, Second, Newline>>,
   <<First, Newline, Hash, Second, Semicolon, Second, Newline, Second>>,
   <<First, Newline, <<"movi", "3">>, Blank, <<"r0">>, Newline, <<"bi", "3">>>>}

MCTexts == Singles \cup Layouts(4) \cup Programs \cup Commented

MCWithEof ==
  [w \in {""} \cup UNION {Range(x) : x \in UNION {Range(t) : t \in MCTexts}} |-> w \o "~"]
=============================================================================
