------------------------------ MODULE DcProofs ------------------------------
(***************************************************************************)
(* The theorems of the data cache.  CacheInv of DcInvariant, with the      *)
(* types and what the loads and the answers are, is inductive: it is       *)
(* proved part by part, each for one cycle in which the whole cache, its   *)
(* engine and the CCE move at once (Tick), and the properties follow from  *)
(* it at the end.                                                          *)
(***************************************************************************)
EXTENDS DcInvariant, SequenceTheorems, TLAPS

\* The ways are numbered from 0, and there are at most 8.
LEMMA WayFacts ==
  /\ Way \subseteq 0 .. 7
  /\ 0 \in Way
  /\ NumWay \in Nat \ {0}
BY DcLceAssumption DEF Way

\* Words are spread over the banks without overlap.
LEMMA XorFacts ==
  /\ \A a, b \in Way : Xor(a, b) \in Way
  /\ \A a, b \in Way : Xor(a, Xor(a, b)) = b
<1>2. \A a, b \in 0 .. 7 : Xor(a, b) \in 0 .. 7 /\ Xor(a, Xor(a, b)) = b
  BY SMTT(60) DEF Xor
<1>3. \A a, b \in 0 .. 3 : Xor(a, b) \in 0 .. 3
  BY DEF Xor
<1>4. \A a, b \in 0 .. 1 : Xor(a, b) \in 0 .. 1
  BY DEF Xor
<1>5. \A a, b \in {0} : Xor(a, b) = 0
  BY DEF Xor
<1> QED BY <1>2, <1>3, <1>4, <1>5, DcLceAssumption DEF Way

\* A nonempty set of ways has a lowest.
LEMMA LowestIn ==
  ASSUME NEW S \in SUBSET Way, S # {}
  PROVE  Lowest(S) \in S
<1> DEFINE Least(n) == n \in S /\ \A x \in S : n <= x
<1>1. \E n \in 0 .. 7 : Least(n)
  <2>1. S \subseteq 0 .. 7
    BY WayFacts
  <2>2. 0 \in S => Least(0)
    BY <2>1
  <2>3. 0 \notin S /\ 1 \in S => Least(1)
    BY <2>1
  <2>4. S \cap {0, 1} = {} /\ 2 \in S => Least(2)
    BY <2>1
  <2>5. S \cap {0, 1, 2} = {} /\ 3 \in S => Least(3)
    BY <2>1
  <2>6. S \cap {0, 1, 2, 3} = {} /\ 4 \in S => Least(4)
    BY <2>1
  <2>7. S \cap {0, 1, 2, 3, 4} = {} /\ 5 \in S => Least(5)
    BY <2>1
  <2>8. S \cap {0, 1, 2, 3, 4, 5} = {} /\ 6 \in S => Least(6)
    BY <2>1
  <2>9. S \cap {0, 1, 2, 3, 4, 5, 6} = {} => Least(7)
    <3> SUFFICES ASSUME S \cap {0, 1, 2, 3, 4, 5, 6} = {} PROVE Least(7)
      OBVIOUS
    <3>1. \A x \in S : x = 7
      BY <2>1
    <3> QED BY <3>1
  <2> HIDE DEF Least
  <2> QED BY <2>2, <2>3, <2>4, <2>5, <2>6, <2>7, <2>8, <2>9
<1> QED BY <1>1 DEF Lowest
-----------------------------------------------------------------------------
(* The commands, and what is left of them.                                 *)

\* What a command says.
LEMMA CommandFacts ==
  /\ \A t, w : /\ Inv(t, w).op = "INV" /\ Transfer(t, w).op = "TR"
                /\ Wback(t, w).op = "WB" /\ Wback(t, w).tag = t
                /\ Wback(t, w).way = w /\ Inv(t, w).tag = t
                /\ Inv(t, w).way = w /\ Transfer(t, w).tag = t
                /\ Transfer(t, w).way = w
  /\ \A op, t, w, st : /\ Command(op, t, w, st).op = op
                        /\ Command(op, t, w, st).tag = t
                        /\ Command(op, t, w, st).way = w
                        /\ Command(op, t, w, st).st = st
  /\ \A st : /\ SetTag(st).op = "ST" /\ SetTag(st).tag = req.tag
             /\ SetTag(st).way = req.way /\ SetTag(st).st = st
  /\ None.op = "none"
  /\ None \notin Commands
  /\ \A c \in Commands : c # None /\ c.op \in {"INV", "TR", "WB", "ST", "STW"}
BY DEF Inv, Transfer, Wback, SetTag, Command, None, Commands

\* One command is left, ...
LEMMA LeftOne ==
  ASSUME NEW a
  PROVE  Left(<<a>>) <=> \/ cmd = None /\ todo = <<a>>
                         \/ cmd = a /\ todo = <<>>
BY DEF Left

\* ... two are, ...
LEMMA LeftTwo ==
  ASSUME NEW a, NEW b
  PROVE  Left(<<a, b>>) <=> \/ cmd = None /\ todo = <<a, b>>
                            \/ cmd = a /\ todo = <<b>>
BY DEF Left

\* ... or three.
LEMMA LeftThree ==
  ASSUME NEW a, NEW b, NEW c
  PROVE  Left(<<a, b, c>>) <=> \/ cmd = None /\ todo = <<a, b, c>>
                               \/ cmd = a /\ todo = <<b, c>>
BY DEF Left

\* Which commands are pending then.
LEMMA PendingNone ==
  ASSUME NEW x, x # None, cmd = None, todo = <<>>
  PROVE  ~Pending(x)
BY DEF Pending

LEMMA PendingOne ==
  ASSUME NEW a, NEW x, x # None, Left(<<a>>)
  PROVE  Pending(x) <=> x = a
BY LeftOne DEF Pending

LEMMA PendingTwo ==
  ASSUME NEW a, NEW b, NEW x, x # None, Left(<<a, b>>)
  PROVE  Pending(x) <=> x \in {a, b}
BY LeftTwo DEF Pending

LEMMA PendingThree ==
  ASSUME NEW a, NEW b, NEW c, NEW x, x # None, Left(<<a, b, c>>)
  PROVE  Pending(x) <=> x \in {a, b, c}
BY LeftThree DEF Pending
-----------------------------------------------------------------------------
\* A step is a cycle of the cache with what the CCE does in it.
Tick(take, psn, rdy) ==
  /\ take \in Access \cup {None} /\ psn \in BOOLEAN /\ rdy \subseteq Offers
  /\ Step(take, psn, rdy) /\ Poison(psn)
  /\ take # None => Ready
  /\ lost' \in BOOLEAN

\* Every step is one: what the pipeline presents differs, no more.
LEMMA NextIsTick ==
  ASSUME Next
  PROVE  \E take, psn, rdy : Tick(take, psn, rdy)
<1>1. PICK rdy \in SUBSET Offers : Clock(rdy)
  BY DEF Next
<1>2. CASE \E a \in Access : Accept(a, rdy)
  <2>1. PICK a \in Access : Accept(a, rdy)
    BY <1>2
  <2>2. Poison(FALSE)
    BY <2>1 DEF Accept, Ready, CacheMiss, Poison
  <2> QED BY <2>1, <2>2 DEF Accept, Tick
<1>3. CASE \E psn \in BOOLEAN : Bubble(psn, rdy)
  BY <1>3 DEF Bubble, Tick
<1>4. CASE NotTaken(rdy)
  BY <1>4 DEF NotTaken, Tick
<1> QED BY <1>1, <1>2, <1>3, <1>4 DEF Clock

\* What each grant says of the rest of the cycle.
LEMMA GrantFacts ==
  ASSUME NEW take
  PROVE  LET g == Granted(take) IN
         /\ g.data \in BOOLEAN /\ g.tag \in BOOLEAN /\ g.stat \in BOOLEAN
         /\ g.data => DataPkt /\ ~IsLoad(take) /\ Buffered = <<>>
         /\ g.tag => TagPkt /\ take = None
         /\ g.stat => StatPkt(g.data) /\ tv = None
         /\ FillGranted(g) => fill # None
         /\ ReadGranted(g) => CmdReads /\ fill = None
         /\ FillGranted(g) \/ ReadGranted(g) => g.data
BY DEF Granted, DataGranted, Taken, StatGranted, FillGranted, ReadGranted, DataPkt,
   TagPkt, StatPkt, SetsTag, Invalidates, CmdIs, ClearsDirty, ReadsStat, CmdReads

\* The CCE hands over the next command when the engine is done with its last
\* one, or it starts with the next request when it is idle.
Receives(g, rdy) ==
  \/ cmd' = CmdLeft(g, rdy) /\ todo' = todo
  \/ /\ CmdLeft(g, rdy) = None /\ todo # <<>>
     /\ cmd' = Head(todo) /\ todo' = Tail(todo)

\* Unless the CCE is idle, it lets go of what has been answered and may
\* send the next command.
LEMMA CceReceives ==
  ASSUME NEW g, NEW rdy, Cce(g, rdy), ~CceIdle
  PROVE  /\ Receives(g, rdy)
         /\ \/ /\ CceWaits(g, rdy)
            \/ /\ CceCommands(g, rdy)
            \/ /\ CceFills(g, rdy)
BY DEF Cce, CceWaits, CceCommands, CceFills, CceTakes, CceServes, Receives, Receive

\* Only a command can be done.
LEMMA NoneDone ==
  ASSUME NEW g, NEW rdy, CmdInv, cmd = None
  PROVE  ~CmdDone(g, rdy)
BY CommandFacts DEF CmdInv, CmdDone, SetsTag, InvAcked, Transferred, WroteBack,
   WroteNull, CmdIs

\* What is left of the commands after a step.
LEMMA LeftStep ==
  ASSUME NEW g, NEW rdy, CmdInv, Receives(g, rdy)
  PROVE  /\ \A a : Left(<<a>>) /\ a # None =>
              IF CmdDone(g, rdy) THEN cmd' = None /\ todo' = <<>>
              ELSE Left(<<a>>)'
         /\ \A a, b : Left(<<a, b>>) /\ a # None =>
              IF CmdDone(g, rdy) THEN Left(<<b>>)' ELSE Left(<<a, b>>)'
         /\ \A a, b, c : Left(<<a, b, c>>) /\ a # None =>
              IF CmdDone(g, rdy) THEN Left(<<b, c>>)' ELSE Left(<<a, b, c>>)'
<1>1. cmd = None => ~CmdDone(g, rdy)
  BY NoneDone
<1>2. ASSUME NEW a, Left(<<a>>), a # None
      PROVE  IF CmdDone(g, rdy) THEN cmd' = None /\ todo' = <<>>
             ELSE Left(<<a>>)'
  BY <1>1, <1>2, LeftOne DEF Receives, CmdLeft, Left
<1>3. ASSUME NEW a, NEW b, Left(<<a, b>>), a # None
      PROVE  IF CmdDone(g, rdy) THEN Left(<<b>>)' ELSE Left(<<a, b>>)'
  BY <1>1, <1>3, LeftTwo DEF Receives, CmdLeft, Left
<1>4. ASSUME NEW a, NEW b, NEW c, Left(<<a, b, c>>), a # None
      PROVE  IF CmdDone(g, rdy) THEN Left(<<b, c>>)' ELSE Left(<<a, b, c>>)'
  BY <1>1, <1>4, LeftThree DEF Receives, CmdLeft, Left
<1> QED BY <1>2, <1>3, <1>4
-----------------------------------------------------------------------------
(* What the command at the engine says of where the request is.            *)

\* While a victim is written back that is all that is asked for.
LEMMA EvictHead ==
  ASSUME Evicting, cmd # None
  PROVE  cmd.op = "WB"
<1>1. PICK t \in Tag, st \in {"S", "E"} :
        Left(<<Wback(t, req.way), SetTag(st)>>)
  BY DEF Evicting
<1>2. cmd = Wback(t, req.way)
  BY <1>1, LeftTwo
<1> QED BY <1>2, CommandFacts

\* What the first command says of what follows and of the tags: an
\* invalidation, ...
LEMMA HeadInv ==
  ASSUME ScriptInv, cmd.op = "INV"
  PROVE  /\ ~serving /\ NotAwaited
         /\ \E t \in Tag, w \in Way :
              /\ cmd = Inv(t, w)
              /\ ToInvalidate(t, w) \/ Invalidated(t, w)
<1>1. cmd # None
  BY CommandFacts
<1>2. ~serving
  <2> SUFFICES ASSUME serving PROVE FALSE
    OBVIOUS
  <2>1. ~Upgrading
    BY <1>1, LeftOne, CommandFacts DEF Upgrading
  <2>2. ~Evicting
    BY <1>1, EvictHead
  <2>3. ~Filling
    BY <1>1, LeftOne, CommandFacts DEF Filling, TagAwaited, TagCame
  <2> QED BY <2>1, <2>2, <2>3 DEF ScriptInv
<1>3. NotAwaited /\ BeingTaken
  BY <1>1, <1>2 DEF ScriptInv, CceIdle
<1>4. PICK t \in Tag, w \in Way : ToInvalidate(t, w) \/ Invalidated(t, w)
  BY <1>3 DEF BeingTaken
<1>5. cmd = Inv(t, w)
  <2>1. CASE ToInvalidate(t, w)
    BY <1>1, <2>1, LeftOne, LeftTwo, LeftThree DEF ToInvalidate
  <2>2. CASE Invalidated(t, w)
    BY <1>1, <2>2, LeftOne, LeftTwo, LeftThree, CommandFacts DEF Invalidated
  <2> QED BY <1>4, <2>1, <2>2
<1> QED BY <1>2, <1>3, <1>4, <1>5

\* ... a transfer, ...
LEMMA HeadTr ==
  ASSUME ScriptInv, cmd.op = "TR"
  PROVE  /\ ~serving /\ NotAwaited
         /\ \E t \in Tag, w \in Way :
              /\ cmd = Transfer(t, w) /\ todo = <<Wback(t, w)>>
              /\ Invalidated(t, w)
<1>1. cmd # None
  BY CommandFacts
<1>2. ~serving
  <2> SUFFICES ASSUME serving PROVE FALSE
    OBVIOUS
  <2>1. ~Upgrading
    BY <1>1, LeftOne, CommandFacts DEF Upgrading
  <2>2. ~Evicting
    BY <1>1, EvictHead
  <2>3. ~Filling
    BY <1>1, LeftOne, CommandFacts DEF Filling, TagAwaited, TagCame
  <2> QED BY <2>1, <2>2, <2>3 DEF ScriptInv
<1>3. NotAwaited /\ BeingTaken
  BY <1>1, <1>2 DEF ScriptInv, CceIdle
<1>4. PICK t \in Tag, w \in Way : ToInvalidate(t, w) \/ Invalidated(t, w)
  BY <1>3 DEF BeingTaken
<1>5. ~ToInvalidate(t, w)
  BY <1>1, LeftOne, LeftTwo, LeftThree, CommandFacts DEF ToInvalidate
<1>6. Invalidated(t, w) => cmd = Transfer(t, w) /\ todo = <<Wback(t, w)>>
  BY <1>1, LeftOne, LeftTwo, LeftThree, CommandFacts DEF Invalidated
<1> QED BY <1>2, <1>3, <1>4, <1>5, <1>6

\* ... a writeback, ...
LEMMA HeadWb ==
  ASSUME TypeOK, ScriptInv, cmd.op = "WB"
  PROVE  \E t \in Tag, w \in Way :
           /\ cmd = Wback(t, w)
           /\ \/ /\ ~serving /\ NotAwaited /\ todo = <<>>
                 /\ Invalidated(t, w)
              \/ /\ serving /\ Evicting /\ req # None
                 /\ w = req.way /\ tagMem[w] = Entry(t, "E")
                 /\ \E st \in {"S", "E"} : todo = <<SetTag(st)>>
<1>1. cmd # None
  BY CommandFacts
<1>2. CASE serving
  <2>1. ~Upgrading
    BY <1>1, LeftOne, CommandFacts DEF Upgrading
  <2>2. ~Filling
    BY <1>1, LeftOne, CommandFacts DEF Filling, TagAwaited, TagCame
  <2>3. Evicting /\ req # None
    BY <1>2, <2>1, <2>2 DEF ScriptInv
  <2>4. PICK t \in Tag, st \in {"S", "E"} :
          /\ Left(<<Wback(t, req.way), SetTag(st)>>)
          /\ tagMem[req.way] = Entry(t, "E")
    BY <2>3 DEF Evicting
  <2>5. cmd = Wback(t, req.way) /\ todo = <<SetTag(st)>>
    BY <1>1, <2>4, LeftTwo
  <2>6. req.way \in Way
    BY <2>3 DEF TypeOK, Misses
  <2> QED BY <1>2, <2>3, <2>4, <2>5, <2>6
<1>3. CASE ~serving
  <2>1. NotAwaited /\ BeingTaken
    BY <1>1, <1>3 DEF ScriptInv, CceIdle
  <2>2. PICK t \in Tag, w \in Way : ToInvalidate(t, w) \/ Invalidated(t, w)
    BY <2>1 DEF BeingTaken
  <2>3. ~ToInvalidate(t, w)
    BY <1>1, LeftOne, LeftTwo, LeftThree, CommandFacts DEF ToInvalidate
  <2>4. Invalidated(t, w) => cmd = Wback(t, w) /\ todo = <<>>
    BY <1>1, LeftOne, LeftTwo, LeftThree, CommandFacts DEF Invalidated
  <2> QED BY <1>3, <2>1, <2>2, <2>3, <2>4
<1> QED BY <1>2, <1>3

\* ... a tag, ...
LEMMA HeadSt ==
  ASSUME ScriptInv, cmd.op = "ST"
  PROVE  /\ serving /\ req # None /\ Filling /\ TagAwaited
         /\ todo = <<>> /\ \E st \in {"S", "E"} : cmd = SetTag(st)
<1>1. cmd # None
  BY CommandFacts
<1>2. serving
  <2> SUFFICES ASSUME ~serving PROVE FALSE
    OBVIOUS
  <2>1. BeingTaken
    BY <1>1 DEF ScriptInv, CceIdle
  <2>2. PICK t \in Tag, w \in Way : ToInvalidate(t, w) \/ Invalidated(t, w)
    BY <2>1 DEF BeingTaken
  <2>3. ~ToInvalidate(t, w)
    BY <1>1, LeftOne, LeftTwo, LeftThree, CommandFacts DEF ToInvalidate
  <2>4. ~Invalidated(t, w)
    BY <1>1, LeftOne, LeftTwo, LeftThree, CommandFacts DEF Invalidated
  <2> QED BY <2>2, <2>3, <2>4
<1>3. ~Upgrading
  BY <1>1, LeftOne, CommandFacts DEF Upgrading
<1>4. ~Evicting
  BY <1>1, EvictHead
<1>5. Filling /\ req # None /\ TagAwaited
  BY <1>1, <1>2, <1>3, <1>4 DEF ScriptInv, Filling, TagCame
<1>6. PICK st \in {"S", "E"} : Left(<<SetTag(st)>>)
  BY <1>5 DEF TagAwaited
<1>7. cmd = SetTag(st) /\ todo = <<>>
  BY <1>1, <1>6, LeftOne
<1> QED BY <1>2, <1>5, <1>7

\* ... an upgrade.
LEMMA HeadStw ==
  ASSUME ScriptInv, cmd.op = "STW"
  PROVE  /\ serving /\ req # None /\ NotAwaited /\ reqSt = "sleep"
         /\ todo = <<>>
         /\ \E w \in Way : /\ cmd = Command("STW", req.tag, w, "E")
                           /\ tagMem[w] = Entry(req.tag, "S")
<1>1. cmd # None
  BY CommandFacts
<1>2. serving
  <2> SUFFICES ASSUME ~serving PROVE FALSE
    OBVIOUS
  <2>1. BeingTaken
    BY <1>1 DEF ScriptInv, CceIdle
  <2>2. PICK t \in Tag, w \in Way : ToInvalidate(t, w) \/ Invalidated(t, w)
    BY <2>1 DEF BeingTaken
  <2>3. ~ToInvalidate(t, w)
    BY <1>1, LeftOne, LeftTwo, LeftThree, CommandFacts DEF ToInvalidate
  <2>4. ~Invalidated(t, w)
    BY <1>1, LeftOne, LeftTwo, LeftThree, CommandFacts DEF Invalidated
  <2> QED BY <2>2, <2>3, <2>4
<1>3. ~Evicting
  BY <1>1, EvictHead
<1>4. ~Filling
  BY <1>1, LeftOne, CommandFacts DEF Filling, TagAwaited, TagCame
<1>5. Upgrading /\ req # None
  BY <1>2, <1>3, <1>4 DEF ScriptInv
<1>6. PICK w \in Way : /\ Left(<<Command("STW", req.tag, w, "E")>>)
                       /\ tagMem[w] = Entry(req.tag, "S")
  BY <1>5 DEF Upgrading
<1>7. cmd = Command("STW", req.tag, w, "E") /\ todo = <<>>
  BY <1>1, <1>6, LeftOne
<1>8. NotAwaited /\ reqSt = "sleep"
  BY <1>5 DEF Upgrading
<1> QED BY <1>2, <1>5, <1>6, <1>7, <1>8

\* A block comes only while a request waits for it.
LEMMA FillHeld ==
  ASSUME ScriptInv, fill # None
  PROVE  /\ serving /\ req # None /\ Filling /\ BlockAwaited
         /\ fill.tag = req.tag /\ fill.way = req.way
         /\ reqSt = "sleep"
<1>1. serving /\ ~Upgrading /\ ~Evicting
  BY DEF ScriptInv, NotAwaited, Upgrading, Evicting
<1>2. Filling /\ req # None
  BY <1>1 DEF ScriptInv
<1> QED BY <1>1, <1>2 DEF Filling, BlockAwaited, BlockCame

\* While the pipe is in use no request is served.
LEMMA PipeUsed ==
  ASSUME ScriptInv, ReqInv, PipeEmptyInMiss, tl # None \/ tv # None
  PROVE  /\ reqSt = "ready" /\ req = None /\ ~serving
         /\ NotAwaited /\ fill = None
BY DEF ScriptInv, ReqInv, PipeEmptyInMiss, NotAwaited
-----------------------------------------------------------------------------
(* Types.                                                                  *)

\* An access loads or stores.
LEMMA AccessFacts ==
  /\ ~IsStore(None) /\ ~IsLoad(None)
  /\ \A a \in Access : /\ a # None /\ a.tag \in Tag /\ a.word \in Way
                       /\ IsLoad(a) <=> a \in Loads
                       /\ IsStore(a) <=> a \in Stores
                       /\ IsLoad(a) \/ IsStore(a)
  /\ \A a : ~(IsLoad(a) /\ IsStore(a))
  /\ \A a \in InTvLoads : IsLoad(a) /\ a # None
  /\ \A a \in InTvStores : IsStore(a) /\ a # None
BY DEF IsStore, IsLoad, None, Access, Loads, Stores, InTvLoads, InTvStores

\* A piece over a word is a word, and pieces are written over one another.
LEMMA OverFacts ==
  /\ \A p \in Pieces, w \in Words : Over(p, w) \in Words
  /\ \A p, q \in Pieces : Over(p, q) \in Pieces
  /\ <<>> \in Pieces
  /\ Writes \subseteq Pieces
<1>1. ASSUME NEW p \in Pieces PROVE \E m \in SUBSET Byte : p \in [m -> StoreVal]
  BY DEF Pieces
<1>2. ASSUME NEW p \in Pieces, NEW w \in Words PROVE Over(p, w) \in Words
  BY <1>1 DEF Over, Words
<1>3. ASSUME NEW p \in Pieces, NEW q \in Pieces PROVE Over(p, q) \in Pieces
  <2>1. PICK m \in SUBSET Byte : p \in [m -> StoreVal]
    BY <1>1
  <2>2. PICK n \in SUBSET Byte : q \in [n -> StoreVal]
    BY <1>1
  <2>3. Over(p, q) \in [(m \cup n) -> StoreVal]
    BY <2>1, <2>2 DEF Over
  <2>4. m \cup n \in SUBSET Byte
    OBVIOUS
  <2> QED BY <2>3, <2>4 DEF Pieces
<1>4. <<>> \in Pieces
  <2>1. <<>> \in [{} -> StoreVal]
    OBVIOUS
  <2> QED BY <2>1 DEF Pieces
<1>5. Writes \subseteq Pieces
  BY DCacheAssumption DEF Writes, Pieces
<1> QED BY <1>2, <1>3, <1>4, <1>5

Stored == [tag : Tag, word : Way, way : Way, data : Writes]

\* What hits.
LEMMA HitFacts ==
  ASSUME TypeOK
  PROVE  /\ StoreHit => /\ tv \in InTvStores /\ tv # None
                        /\ StoreHitWay \in Way
                        /\ tv.tags[StoreHitWay] = Entry(tv.tag, "E")
         /\ IsLoad(tv) /\ LoadHits # {} =>
              /\ tv \in InTvLoads /\ LoadHitWay \in LoadHits
              /\ LoadHitWay \in Way
         /\ Missed => tv # None /\ ~StoreHit /\ tv.tag \in Tag
<1>1. CASE StoreHit
  <2>1. tv \in InTvStores
    BY <1>1, AccessFacts DEF StoreHit, TypeOK
  <2>2. StoreHits \in SUBSET Way /\ StoreHits # {}
    BY <1>1 DEF StoreHit, StoreHits
  <2>3. StoreHitWay \in StoreHits
    BY <2>2, LowestIn DEF StoreHitWay
  <2>4. ~Missed
    BY <1>1, <2>1, AccessFacts DEF StoreHit, Missed
  <2> QED BY <2>1, <2>3, <2>4, AccessFacts DEF StoreHits, Entry
<1>2. CASE IsLoad(tv) /\ LoadHits # {}
  <2>1. tv \in InTvLoads
    BY <1>2, AccessFacts DEF TypeOK
  <2>2. LoadHits \in SUBSET Way
    BY DEF LoadHits
  <2>3. LoadHitWay \in LoadHits
    BY <1>2, <2>2, LowestIn DEF LoadHitWay
  <2>4. ~Missed /\ ~StoreHit
    BY <1>2, AccessFacts DEF StoreHit, Missed
  <2> QED BY <2>1, <2>2, <2>3, <2>4
<1>3. CASE Missed
  <2>1. tv \in InTvLoads \cup InTvStores
    BY <1>3, AccessFacts DEF Missed, TypeOK
  <2>2. tv.tag \in Tag
    BY <2>1 DEF InTvLoads, InTvStores
  <2>3. ~StoreHit
    BY <1>3, AccessFacts DEF StoreHit, Missed
  <2> QED BY <1>3, <2>1, <2>2, <2>3, AccessFacts DEF Missed
<1> QED BY <1>1, <1>2, <1>3

\* What the write buffer offers are stores.
LEMMA BufferedType ==
  ASSUME TypeOK
  PROVE  /\ Buffered \in Seq(Stored) /\ wbuf \in Seq(Stored)
         /\ StoreHit => /\ Len(Buffered) = Len(wbuf) + 1
                        /\ Buffered # <<>>
                        /\ Buffered[Len(wbuf) + 1] =
                             [tag |-> tv.tag, word |-> tv.word,
                              way |-> StoreHitWay, data |-> tv.data]
                        /\ \A i \in 1 .. Len(wbuf) : Buffered[i] = wbuf[i]
         /\ ~StoreHit => Buffered = wbuf
<1> DEFINE e == [tag |-> tv.tag, word |-> tv.word, way |-> StoreHitWay,
                 data |-> tv.data]
<1>1. wbuf \in Seq(Stored) /\ Len(wbuf) \in Nat
  BY DEF TypeOK, Stored
<1>2. CASE StoreHit
  <2>1. e \in Stored
    BY <1>2, HitFacts DEF InTvStores, Stored
  <2>2. Buffered = wbuf \o <<e>>
    BY <1>2 DEF Buffered, Leaving
  <2>3. <<e>> \in Seq(Stored) /\ Len(<<e>>) = 1 /\ <<e>>[1] = e
    BY <2>1
  <2> HIDE DEF e
  <2>4. /\ Buffered \in Seq(Stored) /\ Len(Buffered) = Len(wbuf) + 1
        /\ Buffered[Len(wbuf) + 1] = e
        /\ \A i \in 1 .. Len(wbuf) : Buffered[i] = wbuf[i]
    BY <1>1, <2>2, <2>3, ConcatProperties
  <2>5. Buffered # <<>>
    BY <1>1, <2>4
  <2> QED BY <1>1, <1>2, <2>4, <2>5 DEF e
<1>3. CASE ~StoreHit
  BY <1>1, <1>3, ConcatEmptySeq DEF Buffered, Leaving
<1> QED BY <1>1, <1>2, <1>3

\* The types, after a step: the tags, ...
LEMMA TagMemType ==
  ASSUME TypeOK, ScriptInv, NEW g, TagMem(g)
  PROVE  tagMem' \in [Way -> Entries]
<1>1. tagMem \in [Way -> Entries]
  BY DEF TypeOK
<1>2. Invalid \in Entries
  BY DEF Entries
<1>3. ASSUME SetsTag PROVE [tag |-> cmd.tag, st |-> cmd.st] \in Entries
  <2>1. cmd.op \in {"ST", "STW"} /\ cmd \in Commands
    BY <1>3 DEF SetsTag, CmdIs, TypeOK
  <2>2. cmd.st \in {"S", "E"}
    BY <2>1, HeadSt, HeadStw, CommandFacts
  <2> QED BY <2>1, <2>2 DEF Commands, Entries
<1> QED BY <1>1, <1>2, <1>3 DEF TagMem

\* ... the stages, ...
LEMMA StageTypes ==
  ASSUME TypeOK, PlacesKept, NEW take \in Access \cup {None}, NEW psn,
         TlStage(take), TvStage(psn)
  PROVE  /\ tl' \in Access \cup {None}
         /\ tagOut' \in [Way -> Entries]
         /\ tv' \in InTvLoads \cup InTvStores \cup {None}
<1>1. tl' \in Access \cup {None} /\ tagOut' \in [Way -> Entries]
  BY DEF TlStage, TypeOK, NoTags, Entries
<1>2. ASSUME NEW a PROVE Bypass(a) \in Pieces
  <2> DEFINE bytes(i) == IF Buffered[i].tag = a.tag /\ Buffered[i].word = a.word
                         THEN Buffered[i].data ELSE <<>>
  <2>1. Buffered \in Seq(Stored) /\ Len(Buffered) \in Nat
    BY BufferedType
  <2>2. Len(Buffered) <= 3
    <3>1. InTl \in {0, 1} /\ InTv \in {0, 1} /\ Len(wbuf) \in Nat
      BY DEF InTl, InTv, TypeOK
    <3> QED BY <3>1, BufferedType DEF PlacesKept
  <2>3. ASSUME NEW i \in 1 .. Len(Buffered) PROVE bytes(i) \in Pieces
    <3>1. Buffered[i] \in Stored
      BY <2>1, ElementOfSeq
    <3>2. Buffered[i].data \in Pieces
      BY <3>1, OverFacts DEF Stored
    <3> QED BY <3>2, OverFacts
  <2> DEFINE n == Len(Buffered)
  <2>4. Bypass(a) = CASE n = 0 -> <<>>
                      [] n = 1 -> bytes(1)
                      [] n = 2 -> Over(bytes(2), bytes(1))
                      [] OTHER -> Over(bytes(3), Over(bytes(2), bytes(1)))
    BY DEF Bypass
  <2> HIDE DEF bytes, n
  <2>5. n \in Nat /\ n <= 3
    BY <2>1, <2>2 DEF n
  <2>6. CASE n = 0
    BY <2>4, <2>6, OverFacts
  <2>7. CASE n = 1
    BY <2>3, <2>4, <2>7 DEF n
  <2>8. CASE n = 2
    <3>1. bytes(1) \in Pieces /\ bytes(2) \in Pieces
      BY <2>3, <2>8 DEF n
    <3> QED BY <2>4, <2>8, <3>1, OverFacts
  <2>9. CASE n = 3
    <3>1. bytes(1) \in Pieces /\ bytes(2) \in Pieces /\ bytes(3) \in Pieces
      BY <2>3, <2>9 DEF n
    <3> QED BY <2>4, <2>9, <3>1, OverFacts
  <2> QED BY <2>5, <2>6, <2>7, <2>8, <2>9
<1>3. CASE tl = None \/ psn
  BY <1>1, <1>3 DEF TvStage
<1>4. CASE ~(tl = None \/ psn)
  <2>1. tl \in Access /\ tagOut \in [Way -> Entries] /\ dataOut \in [Way -> Words]
    BY <1>4 DEF TypeOK
  <2>2. CASE IsLoad(tl)
    <3>1. tv' = [op |-> "load", tag |-> tl.tag, word |-> tl.word,
                 tags |-> tagOut, banks |-> dataOut, bypass |-> Bypass(tl)]
      BY <1>4, <2>2 DEF TvStage
    <3> QED BY <1>1, <1>2, <2>1, <3>1, AccessFacts DEF InTvLoads
  <2>3. CASE ~IsLoad(tl)
    <3>1. tv' = [op |-> "store", tag |-> tl.tag, word |-> tl.word,
                 tags |-> tagOut, data |-> tl.data]
      BY <1>4, <2>3 DEF TvStage
    <3>2. tl \in Stores
      BY <2>1, <2>3, AccessFacts
    <3> QED BY <1>1, <2>1, <3>1, <3>2, AccessFacts DEF InTvStores, Stores, Writes
  <2> QED BY <2>2, <2>3
<1> QED BY <1>1, <1>3, <1>4

\* ... the write buffer, ...
LEMMA WbufType ==
  ASSUME TypeOK, NEW take, WriteBuffer(take)
  PROVE  wbuf' \in Seq([tag : Tag, word : Way, way : Way, data : Writes])
<1>1. Buffered \in Seq(Stored)
  BY BufferedType
<1>2. Drains(take) => Buffered # <<>>
  BY DEF Drains
<1> QED BY <1>1, <1>2, HeadTailProperties DEF WriteBuffer, Stored

\* ... the banks, ...
LEMMA BankTypes ==
  ASSUME TypeOK, CmdInv, ScriptInv, NEW take \in Access \cup {None},
         DataMem(take, Granted(take))
  PROVE  dataMem' \in [Way -> [Way -> Words]] /\ dataOut' \in [Way -> Words]
<1> DEFINE g == Granted(take)
           e == Head(Buffered)
           bank == Xor(e.way, e.word)
<1>1. dataMem \in [Way -> [Way -> Words]]
  BY DEF TypeOK
<1>2. ASSUME Drains(take) PROVE e \in Stored /\ bank \in Way
  <2>1. e \in Stored
    BY <1>2, BufferedType DEF Drains
  <2> QED BY <2>1, XorFacts DEF Stored
<1>3. ASSUME Drains(take)
      PROVE  [dataMem EXCEPT ![bank][e.word] = Over(e.data, @)]
               \in [Way -> [Way -> Words]]
  <2>1. e.word \in Way /\ e.data \in Pieces
    BY <1>2, <1>3, OverFacts DEF Stored
  <2>2. Over(e.data, dataMem[bank][e.word]) \in Words
    BY <1>1, <1>2, <1>3, <2>1, OverFacts
  <2> HIDE DEF e, bank
  <2> QED BY <1>1, <1>2, <1>3, <2>1, <2>2
<1>4. ASSUME FillGranted(g) PROVE Filled \in [Way -> [Way -> Words]]
  <2>1. fill \in Fills
    BY <1>4, GrantFacts DEF TypeOK
  <2>2. fill.data \in [Way -> Words]
    BY <2>1 DEF Fills, Blocks, Words
  <2> QED BY <1>1, <2>2 DEF Filled
<1>5. dataMem' \in [Way -> [Way -> Words]]
  BY <1>1, <1>3, <1>4 DEF DataMem
<1>6. CASE IsLoad(take)
  <2>1. take.word \in Way
    BY <1>6, AccessFacts
  <2>2. dataOut' = [b \in Way |-> dataMem[b][take.word]]
    BY <1>6 DEF DataMem
  <2> QED BY <1>1, <1>5, <2>1, <2>2
<1>7. CASE ~IsLoad(take) /\ ReadGranted(g)
  <2>1. cmd.op \in {"TR", "WB"} /\ cmd \in Commands
    BY <1>7, GrantFacts, CommandFacts DEF CmdReads, CmdIs, CmdInv, TypeOK
  <2>2. cmd.way \in Way
    BY <2>1 DEF Commands
  <2>3. dataOut' = [b \in Way |-> dataMem[b][Xor(cmd.way, b)]]
    BY <1>7 DEF DataMem
  <2> QED BY <1>1, <1>5, <2>2, <2>3, XorFacts
<1>8. CASE ~IsLoad(take) /\ ~ReadGranted(g)
  <2>1. dataOut' = NoData
    BY <1>8 DEF DataMem
  <2> QED BY <1>5, <2>1 DEF NoData, NoWord, Words
<1> QED BY <1>6, <1>7, <1>8

\* ... the dirty bits, ...
LEMMA StatTypes ==
  ASSUME TypeOK, NEW take, NEW g, StatMem(take, g)
  PROVE  dirty' \in [Way -> BOOLEAN] /\ dirtyOut' \in [Way -> BOOLEAN]
BY DEF TypeOK, StatMem, NoDirty

\* ... the command machine, ...
LEMMA CmdTypes ==
  ASSUME TypeOK, CmdInv, NEW g, NEW rdy, LceCmd(g, rdy)
  PROVE  /\ cmdSt' \in CmdState /\ done' \subseteq Progress
         /\ buf' = EmptyBuf \/ buf' \in [Way -> Words]
<1>1. CASE CmdReady(g, rdy)
  BY <1>1 DEF CmdReady, TypeOK, CmdState, Progress
<1>2. ASSUME cmdSt \in {"tr", "wb_dirty"}
      PROVE  BlockSent = EmptyBuf \/ BlockSent \in [Way -> Words]
  <2>1. cmd \in Commands
    BY <1>2, CommandFacts DEF CmdInv, TypeOK
  <2>2. BlockRead \in [Way -> Words]
    BY <2>1, XorFacts DEF BlockRead, TypeOK, Commands
  <2> QED BY <2>2 DEF BlockSent, TypeOK
<1>3. CASE CmdTransfer(rdy)
  BY <1>2, <1>3 DEF CmdTransfer, Finish, CmdState, Progress
<1>4. CASE CmdWb
  BY <1>4 DEF CmdWb, TypeOK, CmdState
<1>5. CASE CmdWbDirty(g, rdy)
  <2>1. done \subseteq Progress
    BY DEF TypeOK
  <2>2. CASE WroteBack(g, rdy)
    BY <1>5, <2>2 DEF CmdWbDirty, Finish, CmdState
  <2>3. CASE ~WroteBack(g, rdy)
    BY <1>2, <1>5, <2>1, <2>3 DEF CmdWbDirty, CmdState, Progress, TypeOK
  <2> QED BY <2>2, <2>3
<1>6. CASE CmdWbNotDirty(rdy)
  BY <1>6 DEF CmdWbNotDirty, Finish, cmdFsm, TypeOK, CmdState
<1> QED BY <1>1, <1>3, <1>4, <1>5, <1>6 DEF LceCmd

\* A miss that is over, or not sent, is not looked at.
LEMMA MissKnown ==
  ASSUME TypeOK, ReqInv
  PROVE  /\ reqSt # "ready" => miss \in Misses
         /\ reqSt = "send" => Request \in Misses /\ LruDirty \in BOOLEAN
                              /\ Request.tag = miss.tag /\ Request.way = miss.way
                              /\ Request.dirty = LruDirty /\ Request.wr = miss.wr
<1>1. ASSUME reqSt # "ready" PROVE miss \in Misses
  <2>1. miss.tag \in Tag /\ miss \in Misses \cup {NoMiss}
    BY <1>1 DEF ReqInv, TypeOK
  <2>2. CASE miss = NoMiss
    BY <2>1, <2>2, WayFacts DEF NoMiss, Misses
  <2> QED BY <2>1, <2>2
<1>2. ASSUME reqSt = "send"
      PROVE  /\ Request \in Misses /\ LruDirty \in BOOLEAN
             /\ Request.tag = miss.tag /\ Request.way = miss.way
             /\ Request.dirty = LruDirty /\ Request.wr = miss.wr
  <2>1. miss \in Misses
    BY <1>1, <1>2
  <2>2. LruDirty \in BOOLEAN
    BY <2>1 DEF LruDirty, TypeOK, Misses
  <2> QED BY <2>1, <2>2 DEF Request, Misses
<1> QED BY <1>1, <1>2

\* What the miss machine is given in a cycle.
LEMMA VictimIn ==
  ASSUME TypeOK, Missed
  PROVE  Victims \subseteq Way /\ Victims # {}
<1>1. {w \in Way : tv.tags[w].st = "I"} \in SUBSET Way
  OBVIOUS
<1> QED BY <1>1, LowestIn, WayFacts DEF Victims

\* ... the miss machine, ...
LEMMA ReqTypes ==
  ASSUME TypeOK, ReqInv, NEW g, NEW rdy,
         NEW w \in IF Missed THEN Victims ELSE {0},
         LceReq(Missed, IF Missed THEN MissOf(w) ELSE NoMiss, g, rdy)
  PROVE  /\ reqSt' \in ReqState
         /\ miss' \in Misses \cup {NoMiss}
         /\ flopped' \in BOOLEAN /\ rcv' \subseteq {"data", "tr", "tag"}
<1>1. ASSUME Missed PROVE MissOf(w) \in Misses
  <2>1. w \in Way /\ tv.tag \in Tag
    BY <1>1, VictimIn, HitFacts
  <2> QED BY <2>1 DEF MissOf, Misses, IsStore
<1>2. CASE ReqReady(Missed, IF Missed THEN MissOf(w) ELSE NoMiss)
  BY <1>1, <1>2 DEF ReqReady, reqFsm, TypeOK, ReqState
<1>3. CASE ReqSend(rdy)
  BY <1>3, MissKnown DEF ReqSend, TypeOK, ReqState
<1>4. CASE ReqSleep(g)
  BY <1>4 DEF ReqSleep, Forget, Received, TypeOK, ReqState
<1>5. CASE ReqAck(rdy)
  BY <1>5 DEF ReqAck, Forget, reqFsm, TypeOK, ReqState
<1> QED BY <1>2, <1>3, <1>4, <1>5 DEF LceReq

\* ... the CCE, ...
LEMMA CceTypes ==
  ASSUME TypeOK, ReqInv, NEW g, NEW rdy, Cce(g, rdy), ScriptInv
  PROVE  /\ cmd' \in Commands \cup {None} /\ todo' \in Seq(Commands)
         /\ fill' \in Fills \cup {None}
         /\ req' \in Misses \cup {None}
         /\ serving' \in BOOLEAN /\ due' \in BOOLEAN
<1>1. req' \in Misses \cup {None}
  BY MissKnown DEF Cce, ReqLeft, Requested, TypeOK
<1>2. CmdLeft(g, rdy) \in Commands \cup {None} /\ FillLeft(g) \in Fills \cup {None}
  BY DEF CmdLeft, FillLeft, TypeOK
<1>3. todo \in Seq(Commands) /\ serving \in BOOLEAN /\ due \in BOOLEAN
  BY DEF TypeOK
<1>4. CASE CceWaits(g, rdy)
  BY <1>1, <1>2, <1>3, <1>4 DEF CceWaits, Receive
<1>5. CASE CceCommands(g, rdy)
  <2>1. Head(todo) \in Commands /\ Tail(todo) \in Seq(Commands)
    BY <1>3, <1>5, HeadTailProperties DEF CceCommands
  <2> QED BY <1>1, <1>2, <1>3, <1>5, <2>1 DEF CceCommands
<1>6. CASE CceFills(g, rdy)
  <2>1. req \in Misses
    BY <1>6 DEF CceFills, ScriptInv, NotAwaited, TypeOK
  <2>2. \A data \in Blocks, tr \in BOOLEAN :
          [op |-> "fill", tr |-> tr, tag |-> req.tag, way |-> req.way,
           data |-> data] \in Fills
    BY <2>1 DEF Fills, Misses
  <2>3. fill' \in Fills
    BY <1>6, <2>2 DEF CceFills
  <2> QED BY <1>1, <1>2, <1>3, <1>6, <2>3 DEF CceFills
<1>7. CASE CceTakes(g, rdy)
  <2>1. PICK w \in Way : /\ tagMem[w].st # "I"
                         /\ todo' \in {<<Inv(tagMem[w].tag, w)>>,
                                       <<Inv(tagMem[w].tag, w), Wback(tagMem[w].tag, w)>>,
                                       <<Inv(tagMem[w].tag, w), Transfer(tagMem[w].tag, w),
                                         Wback(tagMem[w].tag, w)>>}
    BY <1>7 DEF CceTakes, Inv, Wback, Transfer
  <2>2. tagMem[w].tag \in Tag
    BY <2>1 DEF TypeOK, Entries, Invalid
  <2>3. \A c \in {Inv(tagMem[w].tag, w), Wback(tagMem[w].tag, w),
                  Transfer(tagMem[w].tag, w)} : c \in Commands
    BY <2>2 DEF Inv, Wback, Transfer, Command, Commands
  <2> DEFINE a == Inv(tagMem[w].tag, w)
             b == Transfer(tagMem[w].tag, w)
             c == Wback(tagMem[w].tag, w)
  <2>4. \A x, y, z \in Commands : {<<x>>, <<x, y>>, <<x, y, z>>} \subseteq Seq(Commands)
    OBVIOUS
  <2>5. todo' \in {<<a>>, <<a, c>>, <<a, b, c>>} /\ {a, b, c} \subseteq Commands
    BY <2>1, <2>3
  <2> HIDE DEF a, b, c
  <2>6. todo' \in Seq(Commands)
    BY <2>4, <2>5
  <2> QED BY <1>1, <1>2, <1>3, <1>7, <2>6 DEF CceTakes, Receive
<1>8. CASE CceServes(g, rdy)
  <2> DEFINE evict == IF tagMem[req.way].st = "E" /\ req.dirty
               THEN <<Command("WB", tagMem[req.way].tag, req.way, "I")>>
               ELSE <<>>
  <2>1. req \in Misses
    BY <1>8 DEF CceServes, TypeOK
  <2>2. evict \in Seq(Commands)
    <3>1. tagMem[req.way].st = "E" => tagMem[req.way].tag \in Tag
      <4>1. tagMem[req.way] \in Entries
        BY <2>1 DEF TypeOK, Misses
      <4> QED BY <4>1 DEF Entries, Invalid
    <3>2. tagMem[req.way].st = "E"
            => Command("WB", tagMem[req.way].tag, req.way, "I") \in Commands
      BY <2>1, <3>1 DEF Command, Commands, Misses
    <3> QED BY <3>2
  <2>3. ASSUME NEW w \in Way PROVE <<Command("STW", req.tag, w, "E")>> \in Seq(Commands)
    BY <2>1 DEF Command, Commands, Misses
  <2>4. ASSUME NEW st \in {"S", "E"} PROVE Append(evict, Command("ST", req.tag, req.way, st)) \in Seq(Commands)
    <3>1. Command("ST", req.tag, req.way, st) \in Commands
      BY <2>1 DEF Command, Commands, Misses
    <3> HIDE DEF evict
    <3> QED BY <2>2, <3>1
  <2>5. todo' \in Seq(Commands) /\ due' \in BOOLEAN /\ serving' = TRUE
    BY <1>8, <2>3, <2>4 DEF CceServes
  <2> QED BY <1>1, <1>2, <1>8, <2>5 DEF CceServes, Receive
<1> QED BY <1>4, <1>5, <1>6, <1>7, <1>8 DEF Cce

\* ... and the history.
LEMMA HistoryTypes ==
  ASSUME TypeOK, NEW g, NEW rdy, History(g, rdy), FillGranted(g) => fill # None
  PROVE  truth' \in [Tag -> Contents] /\ unsaved' \subseteq Tag
<1>1. truth \in [Tag -> Contents] /\ unsaved \subseteq Tag
  BY DEF TypeOK
<1>2. CASE StoreHit
  <2>1. tv \in InTvStores
    BY <1>2, HitFacts
  <2>2. tv.tag \in Tag /\ tv.word \in Way /\ tv.data \in Writes
    BY <2>1 DEF InTvStores
  <2>3. truth[tv.tag][tv.word] \in [Byte -> FillVal \cup StoreVal]
    BY <1>1, <2>2 DEF Contents
  <2>4. PICK m \in SUBSET Byte : tv.data \in [m -> StoreVal]
    BY <2>2, DCacheAssumption DEF Writes
  <2>5. Over(tv.data, truth[tv.tag][tv.word]) \in [Byte -> FillVal \cup StoreVal]
    BY <2>3, <2>4 DEF Over
  <2>6. truth' = [truth EXCEPT ![tv.tag][tv.word] = Over(tv.data, @)]
    BY <1>2 DEF History
  <2>7. truth' \in [Tag -> Contents]
    BY <1>1, <2>2, <2>5, <2>6 DEF Contents
  <2> QED BY <1>1, <2>2, <2>7 DEF History
<1>3. CASE ~StoreHit
  <2>1. ASSUME FillGranted(g) PROVE fill.data \in Contents
    <3>1. fill \in Fills
      BY <2>1 DEF TypeOK
    <3> QED BY <3>1 DEF Fills, Blocks, Contents
  <2> QED BY <1>1, <1>3, <2>1 DEF History
<1> QED BY <1>2, <1>3

\* Every step keeps the types.
LEMMA TypeStep ==
  ASSUME TypeOK, CacheInv, NEW take, NEW psn, NEW rdy, Tick(take, psn, rdy)
  PROVE  TypeOK'
<1> DEFINE g == Granted(take)
<1>1. /\ take \in Access \cup {None}
      /\ TlStage(take) /\ TvStage(psn) /\ WriteBuffer(take)
      /\ DataMem(take, g) /\ TagMem(g) /\ StatMem(take, g) /\ LceCmd(g, rdy)
      /\ Timer(g) /\ Cce(g, rdy) /\ History(g, rdy)
      /\ offered' = Ready /\ lost' \in BOOLEAN
  BY DEF Tick, Step, Cycle
<1>2. PICK w \in IF Missed THEN Victims ELSE {0} :
        LceReq(Missed, IF Missed THEN MissOf(w) ELSE NoMiss, g, rdy)
  BY DEF Tick, Step, Cycle
<1> HIDE DEF g
<1>3. /\ CmdInv /\ ScriptInv /\ ReqInv /\ PlacesKept
  BY DEF CacheInv
<1>4. FillGranted(g) => fill # None
  BY GrantFacts DEF g
<1>5. /\ tl' \in Access \cup {None} /\ tagOut' \in [Way -> Entries]
      /\ tv' \in InTvLoads \cup InTvStores \cup {None}
  BY <1>1, <1>3, StageTypes
<1>6. tagMem' \in [Way -> Entries]
  BY <1>1, <1>3, TagMemType
<1>7. dataMem' \in [Way -> [Way -> Words]] /\ dataOut' \in [Way -> Words]
  BY <1>1, <1>3, BankTypes DEF g
<1>8. dirty' \in [Way -> BOOLEAN] /\ dirtyOut' \in [Way -> BOOLEAN]
  BY <1>1, StatTypes
<1>9. wbuf' \in Seq([tag : Tag, word : Way, way : Way, data : Writes])
  BY <1>1, WbufType
<1>10. /\ cmdSt' \in CmdState /\ done' \subseteq Progress
       /\ buf' = EmptyBuf \/ buf' \in [Way -> Words]
  BY <1>1, <1>3, CmdTypes
<1>11. /\ reqSt' \in ReqState /\ miss' \in Misses \cup {NoMiss}
       /\ flopped' \in BOOLEAN /\ rcv' \subseteq {"data", "tr", "tag"}
  BY <1>2, <1>3, ReqTypes
<1>12. /\ cmd' \in Commands \cup {None} /\ todo' \in Seq(Commands)
       /\ fill' \in Fills \cup {None} /\ req' \in Misses \cup {None}
       /\ serving' \in BOOLEAN /\ due' \in BOOLEAN
  BY <1>1, <1>3, CceTypes
<1>13. truth' \in [Tag -> Contents] /\ unsaved' \subseteq Tag
  BY <1>1, <1>4, HistoryTypes
<1>14. timer' \in 0 .. TimeoutMax
  BY <1>1, DcLceAssumption DEF Timer, Timeout, TypeOK
<1>15. offered' \in BOOLEAN /\ lost' \in BOOLEAN
  BY <1>1 DEF Ready
<1> QED BY <1>5, <1>6, <1>7, <1>8, <1>9, <1>10, <1>11, <1>12, <1>13, <1>14, <1>15
  DEF TypeOK, EmptyBuf
-----------------------------------------------------------------------------
(* The command machine.                                                    *)

\* Which states of the command machine follow which.
LEMMA CmdMoves ==
  ASSUME CmdInv, NEW g, NEW rdy, LceCmd(g, rdy)
  PROVE  /\ CmdDone(g, rdy) => cmdSt' = "ready" /\ done' = {}
         /\ cmd = None => cmdSt' = "ready" /\ done' = {}
         /\ ~CmdDone(g, rdy) /\ cmd.op = "INV" =>
              /\ cmdSt' = "ready"
              /\ done' = IF g.tag \/ done # {} THEN {"invalidated"} ELSE {}
         /\ ~CmdDone(g, rdy) /\ cmd.op = "TR" =>
              \/ cmdSt' = "ready" /\ done' = {}
              \/ cmdSt' = "tr" /\ done' \subseteq {"buffered"}
         /\ ~CmdDone(g, rdy) /\ cmd.op = "WB" =>
              \/ cmdSt' \in {"ready", "wb", "wb_not_dirty"} /\ done' = {}
              \/ /\ cmdSt' = "wb_dirty"
                 /\ done' \subseteq {"read", "buffered", "cleared"}
                 /\ "buffered" \in done' => "read" \in done'
         /\ ~CmdDone(g, rdy) /\ cmd.op \in {"ST", "STW"} =>
              cmdSt' = "ready" /\ done' = {}
<1>1. CASE CmdReady(g, rdy)
  <2>1. ~Transferred(rdy) /\ ~WroteBack(g, rdy) /\ ~WroteNull(rdy)
    BY <1>1 DEF CmdReady, Transferred, WroteBack, WroteNull
  <2>2. cmdSt = "ready" /\ (done = {} \/ (done = {"invalidated"} /\ cmd.op = "INV"))
    BY <1>1 DEF CmdReady, CmdInv
  <2> QED BY <1>1, <2>1, <2>2, CommandFacts
    DEF CmdReady, CmdDone, SetsTag, CmdIs, ReadsStat, InvAcked
<1>2. CASE CmdTransfer(rdy)
  <2>1. cmd.op = "TR" /\ done \subseteq {"buffered"} /\ cmdSt = "tr"
    BY <1>2 DEF CmdTransfer, CmdInv
  <2>2. CmdDone(g, rdy) <=> Transferred(rdy)
    BY <2>1 DEF CmdDone, SetsTag, CmdIs, InvAcked, WroteBack, WroteNull
  <2> QED BY <1>2, <2>1, <2>2, CommandFacts DEF CmdTransfer, Finish
<1>3. CASE CmdWb
  <2>1. cmd.op = "WB" /\ done = {} /\ cmdSt = "wb"
    BY <1>3 DEF CmdWb, CmdInv
  <2>2. ~CmdDone(g, rdy)
    BY <2>1 DEF CmdDone, SetsTag, CmdIs, InvAcked, WroteBack, WroteNull, Transferred
  <2> QED BY <1>3, <2>1, <2>2, CommandFacts DEF CmdWb
<1>4. CASE CmdWbDirty(g, rdy)
  <2>1. /\ cmd.op = "WB" /\ done \subseteq {"read", "buffered", "cleared"}
        /\ "buffered" \in done => "read" \in done
        /\ cmdSt = "wb_dirty"
    BY <1>4 DEF CmdWbDirty, CmdInv
  <2>2. CmdDone(g, rdy) <=> WroteBack(g, rdy)
    BY <2>1 DEF CmdDone, SetsTag, CmdIs, InvAcked, WroteNull, Transferred
  <2>3. CASE WroteBack(g, rdy)
    BY <1>4, <2>1, <2>2, <2>3, CommandFacts DEF CmdWbDirty, Finish
  <2>4. CASE ~WroteBack(g, rdy)
    <3>1. /\ cmdSt' = "wb_dirty"
          /\ done' = done \cup (IF ReadGranted(g) THEN {"read"} ELSE {})
                           \cup (IF "read" \in done THEN {"buffered"} ELSE {})
                           \cup (IF g.stat THEN {"cleared"} ELSE {})
      BY <1>4, <2>4 DEF CmdWbDirty
    <3>2. /\ done' \subseteq {"read", "buffered", "cleared"}
          /\ "buffered" \in done' => "read" \in done'
      BY <2>1, <3>1
    <3> QED BY <2>1, <2>2, <2>4, <3>1, <3>2, CommandFacts
  <2> QED BY <2>3, <2>4
<1>5. CASE CmdWbNotDirty(rdy)
  <2>1. cmd.op = "WB" /\ done = {} /\ cmdSt = "wb_not_dirty"
    BY <1>5 DEF CmdWbNotDirty, CmdInv
  <2>2. CmdDone(g, rdy) <=> WroteNull(rdy)
    BY <2>1 DEF CmdDone, SetsTag, CmdIs, InvAcked, WroteBack, Transferred
  <2> QED BY <1>5, <2>1, <2>2, CommandFacts DEF CmdWbNotDirty, Finish, cmdFsm
<1> QED BY <1>1, <1>2, <1>3, <1>4, <1>5 DEF LceCmd

\* A command that is not done stays.
LEMMA CmdStays ==
  ASSUME TypeOK, NEW g, NEW rdy, Cce(g, rdy), cmd # None, ~CmdDone(g, rdy)
  PROVE  cmd' = cmd
BY DEF Cce, CceWaits, CceCommands, CceFills, CceTakes, CceServes, CmdLeft, Receive, CceIdle

\* Every step keeps what is known of the command machine.
LEMMA CmdStep ==
  ASSUME TypeOK, CmdInv, NEW g, NEW rdy, LceCmd(g, rdy), Cce(g, rdy)
  PROVE  CmdInv'
<1>1. CASE CmdDone(g, rdy) \/ cmd = None
  BY <1>1, CmdMoves DEF CmdInv
<1>2. CASE ~CmdDone(g, rdy) /\ cmd # None
  <2>1. cmd' = cmd /\ cmd.op \in {"INV", "TR", "WB", "ST", "STW"}
    BY <1>2, CmdStays, CommandFacts DEF TypeOK
  <2>2. CASE cmd.op = "INV"
    BY <1>2, <2>1, <2>2, CmdMoves DEF CmdInv
  <2>3. CASE cmd.op = "TR"
    BY <1>2, <2>1, <2>3, CmdMoves DEF CmdInv
  <2>4. CASE cmd.op = "WB"
    <3>1. \/ cmdSt' \in {"ready", "wb", "wb_not_dirty"} /\ done' = {}
          \/ /\ cmdSt' = "wb_dirty"
             /\ done' \subseteq {"read", "buffered", "cleared"}
             /\ "buffered" \in done' => "read" \in done'
      BY <1>2, <2>4, CmdMoves
    <3> QED BY <2>1, <2>4, <3>1 DEF CmdInv
  <2>5. CASE cmd.op \in {"ST", "STW"}
    BY <1>2, <2>1, <2>5, CmdMoves DEF CmdInv
  <2> QED BY <2>1, <2>2, <2>3, <2>4, <2>5
<1> QED BY <1>1, <1>2

\* The parts of a cycle.
LEMMA TickParts ==
  ASSUME NEW take, NEW psn, NEW rdy, Tick(take, psn, rdy)
  PROVE  LET g == Granted(take) IN
         /\ take \in Access \cup {None} /\ Poison(psn)
         /\ take # None => Ready
         /\ TlStage(take) /\ TvStage(psn) /\ WriteBuffer(take)
         /\ DataMem(take, g) /\ TagMem(g) /\ StatMem(take, g)
         /\ LceCmd(g, rdy) /\ Cce(g, rdy) /\ History(g, rdy)
         /\ \E w \in IF Missed THEN Victims ELSE {0} :
              LceReq(Missed, IF Missed THEN MissOf(w) ELSE NoMiss, g, rdy)
BY DEF Tick, Step, Cycle

\* What is written to the tags.
LEMMA TagEffect ==
  ASSUME NEW take, TagMem(Granted(take))
  PROVE  LET g == Granted(take) IN
         /\ ~g.tag => tagMem' = tagMem
         /\ g.tag => take = None /\ cmdSt = "ready" /\ cmd # None
                     /\ cmd.op \in {"INV", "ST", "STW"}
         /\ g.tag /\ cmd.op = "INV" =>
              /\ "invalidated" \notin done
              /\ tagMem' = [tagMem EXCEPT ![cmd.way] = Invalid]
         /\ g.tag /\ cmd.op \in {"ST", "STW"} =>
              /\ SetsTag
              /\ tagMem' = [tagMem EXCEPT ![cmd.way] = Entry(cmd.tag, cmd.st)]
BY GrantFacts DEF TagMem, TagPkt, SetsTag, Invalidates, CmdIs, TagWay, Entry

\* The miss machine, state by state.
LEMMA ReqMoves ==
  ASSUME NEW missed, NEW m, NEW g, NEW rdy, LceReq(missed, m, g, rdy)
  PROVE  /\ reqSt = "ready" =>
              IF missed
              THEN reqSt' = "send" /\ miss' = m /\ flopped' = FALSE /\ rcv' = {}
              ELSE UNCHANGED reqFsm
         /\ reqSt = "send" =>
              /\ flopped' = TRUE /\ miss' = Request /\ rcv' = rcv
              /\ reqSt' = IF Requested(rdy) THEN "sleep" ELSE "send"
         /\ reqSt = "sleep" => ReqSleep(g)
         /\ Acknowledging => ReqAck(rdy)
BY DEF LceReq, ReqReady, ReqSend, ReqSleep, ReqAck, Acknowledging

\* Without a fill and without a set tag nothing is received.
LEMMA NothingReceived ==
  ASSUME NEW take, ScriptInv, ~serving
  PROVE  /\ NotAwaited
         /\ Received(Granted(take)) = {} /\ ~Woken(Granted(take))
         /\ ~FillGranted(Granted(take)) /\ FillLeft(Granted(take)) = None
<1>1. NotAwaited
  BY DEF ScriptInv
<1>2. ~FillGranted(Granted(take))
  BY <1>1, GrantFacts DEF NotAwaited
<1>3. ~CmdIs({"ST"}) /\ ~CmdIs({"STW"})
  BY HeadSt, HeadStw DEF CmdIs
<1> QED BY <1>1, <1>2, <1>3 DEF NotAwaited, Received, Woken, FillLeft

\* The CCE is idle: it may take a block away or serve a request.
LEMMA TakeBegins ==
  ASSUME TypeOK, CmdInv, ScriptInv, ~serving, CceIdle, NEW take, NEW rdy,
         NEW g, g = Granted(take),
         TagMem(g), LceCmd(g, rdy), CceTakes(g, rdy), rcv' = {}
  PROVE  ScriptInv'
<1>1. cmd = None /\ todo = <<>>
  BY DEF CceIdle
<1>2. tagMem' = tagMem
  BY <1>1, TagEffect
<1>3. cmdSt' = "ready" /\ done' = {}
  BY <1>1, CmdMoves
<1>4. PICK w \in Way : /\ tagMem[w].st # "I"
                       /\ todo' \in IF tagMem[w].st = "S" THEN {<<Inv(tagMem[w].tag, w)>>}
                          ELSE {<<Inv(tagMem[w].tag, w), Wback(tagMem[w].tag, w)>>,
                                <<Inv(tagMem[w].tag, w), Transfer(tagMem[w].tag, w),
                                  Wback(tagMem[w].tag, w)>>}
  BY DEF CceTakes, Inv, Wback, Transfer
<1>5. tagMem[w] \in Entries
  BY DEF TypeOK
<1>6. PICK t \in Tag : /\ t = tagMem[w].tag /\ tagMem[w] = Entry(t, tagMem[w].st)
                       /\ tagMem[w].st \in {"S", "E"}
  BY <1>4, <1>5 DEF Entries, Entry, Invalid
<1>7. cmd' = None /\ fill' = None /\ ~due' /\ ~serving'
  BY <1>1, NothingReceived DEF CceTakes, Receive, CmdLeft, NotAwaited
<1>8. ToInvalidate(t, w)'
  <2>1. CASE tagMem[w].st = "S"
    <3>1. todo' = <<Inv(t, w)>>
      BY <1>4, <1>6, <2>1
    <3>2. Left(<<Inv(t, w)>>)'
      BY <1>7, <3>1 DEF Left
    <3> QED BY <1>2, <1>3, <1>6, <2>1, <3>2 DEF ToInvalidate, Entry
  <2>2. CASE tagMem[w].st # "S"
    <3>1. todo' \in {<<Inv(t, w), Wback(t, w)>>,
                     <<Inv(t, w), Transfer(t, w), Wback(t, w)>>}
      BY <1>4, <1>6, <2>2
    <3>2. \/ Left(<<Inv(t, w), Wback(t, w)>>)'
          \/ Left(<<Inv(t, w), Transfer(t, w), Wback(t, w)>>)'
      BY <1>7, <3>1 DEF Left
    <3>3. tagMem'[w] = Entry(t, "E")
      BY <1>2, <1>6, <2>2
    <3> QED BY <1>3, <3>2, <3>3 DEF ToInvalidate, Entry, Inv, Wback, Transfer, Command
  <2> QED BY <2>1, <2>2
<1> QED BY <1>6, <1>7, <1>8 DEF ScriptInv, NotAwaited, BeingTaken

\* The entries of the tags.
LEMMA EntryFacts ==
  ASSUME TypeOK
  PROVE  /\ \A w \in Way : tagMem[w].st # "I" =>
              /\ tagMem[w].tag \in Tag /\ tagMem[w].st \in {"S", "E"}
              /\ tagMem[w] = Entry(tagMem[w].tag, tagMem[w].st)
         /\ \A w \in Way : tagMem[w].st = "I" => tagMem[w] = Invalid
         /\ Invalid.st = "I"
         /\ \A t, st : Entry(t, st).tag = t /\ Entry(t, st).st = st
<1>1. \A w \in Way : tagMem[w] \in Entries
  BY DEF TypeOK
<1> QED BY <1>1 DEF Entries, Entry, Invalid

\* With no command left a stored block is in the cache and dirty.
LEMMA StoredAndIdle ==
  ASSUME TypeOK, StoresKnown, UniqueTags, cmd = None, todo = <<>>,
         NEW v \in Way, tagMem[v].st # "I", tagMem[v].tag \in unsaved
  PROVE  tagMem[v].st = "E" /\ dirty[v]
<1> DEFINE t == tagMem[v].tag
<1>1. PICK w \in Way : /\ Home(t, w)
                       /\ dirty[w] \/ (cmd = Wback(t, w) /\ cmdSt = "wb_dirty")
  BY DEF StoresKnown
<1>2. ~WbAsked(t, w) /\ cmd # Wback(t, w)
  BY PendingNone, CommandFacts DEF WbAsked
<1>3. tagMem[w] = Entry(t, "E") /\ dirty[w]
  BY <1>1, <1>2 DEF Home
<1>4. t \in Tag /\ Holds(v, t) /\ Holds(w, t)
  BY <1>3, EntryFacts DEF Holds
<1>5. v = w
  BY <1>4 DEF UniqueTags
<1> QED BY <1>3, <1>5, EntryFacts

\* What is sent to serve a request.
LEMMA AppendFacts ==
  /\ \A a : Append(<<>>, a) = <<a>>
  /\ \A a, b : Append(<<a>>, b) = <<a, b>>
<1>1. ASSUME NEW a PROVE Append(<<>>, a) = <<a>>
  <2>1. <<>> \in Seq({a}) /\ <<a>> \in Seq({a}) /\ Len(<<a>>) = 1 /\ Len(<<>>) = 0
    OBVIOUS
  <2> QED BY <2>1, AppendProperties, SeqEqual
<1>2. ASSUME NEW a, NEW b PROVE Append(<<a>>, b) = <<a, b>>
  <2> DEFINE T == {a, b}
  <2>1. <<a>> \in Seq(T) /\ <<a, b>> \in Seq(T) /\ Len(<<a>>) = 1 /\ Len(<<a, b>>) = 2
    OBVIOUS
  <2>2. /\ Append(<<a>>, b) \in Seq(T) /\ Len(Append(<<a>>, b)) = 2
        /\ Append(<<a>>, b)[1] = a /\ Append(<<a>>, b)[2] = b
    BY <2>1, AppendProperties
  <2>3. \A i \in 1 .. 2 : Append(<<a>>, b)[i] = <<a, b>>[i]
    BY <2>2
  <2> HIDE DEF T
  <2> QED BY <2>1, <2>2, <2>3, SeqEqual
<1> QED BY <1>1, <1>2

\* A request begins to be served.
LEMMA ServeBegins ==
  ASSUME TypeOK, CacheInv, ~serving, CceIdle, NEW take, NEW rdy,
         NEW g, g = Granted(take),
         TagMem(g), LceCmd(g, rdy), CceServes(g, rdy), Cce(g, rdy), History(g, rdy),
         NEW m, LceReq(Missed, m, g, rdy)
  PROVE  ScriptInv'
<1>1. cmd = None /\ todo = <<>>
  BY DEF CceIdle
<1>2. tagMem' = tagMem
  BY <1>1, TagEffect
<1>3. cmdSt' = "ready" /\ done' = {}
  BY <1>1, CmdMoves DEF CacheInv
<1>4. req # None /\ serving' = TRUE /\ cmd' = None /\ fill' = None
  BY <1>1, NothingReceived DEF CceServes, Receive, CmdLeft, CacheInv
<1>5. reqSt = "sleep" /\ req = miss
  BY <1>4 DEF CacheInv, ReqInv, Acknowledging, TypeOK, ReqState
<1>6. rcv = {} /\ ~Woken(g) /\ Received(g) = {}
  BY NothingReceived DEF CacheInv, NotAwaited
<1>7. reqSt' = "sleep" /\ rcv' = {} /\ miss' = miss
  <2>1. Missed \in BOOLEAN
    BY DEF Missed
  <2>2. ReqSleep(g)
    BY <1>5, <2>1, ReqMoves
  <2> QED BY <1>5, <1>6, <2>2 DEF ReqSleep
<1>8. req' = req
  BY <1>5, <1>6 DEF Cce, ReqLeft, Requested, MissOver, MissAcked, Acknowledging
<1>9. req \in Misses /\ req.way \in Way /\ req.tag \in Tag
  BY <1>4 DEF TypeOK, Misses
<1>10. unsaved' \subseteq unsaved
  <2>1. ~StoreHit
    BY <1>5, AccessFacts DEF CacheInv, PipeEmptyInMiss, StoreHit
  <2> QED BY <2>1 DEF History
<1> DEFINE shared == {w \in Way : tagMem[w] = [tag |-> req.tag, st |-> "S"]}
<1>11. CASE req.wr /\ shared # {}
  <2>1. PICK w \in shared : todo' = <<Command("STW", req.tag, w, "E")>>
    BY <1>11 DEF CceServes
  <2>2. due' = FALSE
    BY <1>11 DEF CceServes
  <2>3. Left(<<Command("STW", req.tag, w, "E")>>)'
    BY <1>4, <1>8, <2>1 DEF Left, Command
  <2>4. tagMem'[w] = Entry(req'.tag, "S") /\ w \in Way
    BY <1>2, <1>8, <2>1 DEF Entry
  <2>5. Upgrading'
    BY <1>4, <1>7, <2>2, <2>3, <2>4 DEF Upgrading, NotAwaited, Entry
  <2> QED BY <1>4, <1>8, <2>5 DEF ScriptInv
<1>12. CASE ~(req.wr /\ shared # {})
  <2> DEFINE evict == IF tagMem[req.way].st = "E" /\ req.dirty
               THEN <<Command("WB", tagMem[req.way].tag, req.way, "I")>>
               ELSE <<>>
  <2>1. PICK st \in {"S", "E"} :
          todo' = Append(evict, Command("ST", req.tag, req.way, st))
    BY <1>12 DEF CceServes
  <2>2. due' = TRUE
    BY <1>12 DEF CceServes
  <2>3. Gone(req.tag)
    <3> SUFFICES ASSUME NEW w \in Way, Holds(w, req.tag) PROVE FALSE
      BY DEF Gone
    <3>1. req.wr /\ tagMem[w].st = "S"
      BY <1>5 DEF CacheInv, Lacking
    <3>2. tagMem[w] = [tag |-> req.tag, st |-> "S"]
      BY <3>1, EntryFacts DEF Holds, Entry
    <3> QED BY <1>12, <3>1, <3>2
  <2>4. Gone(req.tag)'
    BY <1>2, <1>8, <2>3 DEF Gone, Holds
  <2>5. CASE tagMem[req.way].st = "E" /\ req.dirty
    <3>1. PICK t \in Tag : t = tagMem[req.way].tag /\ tagMem[req.way] = Entry(t, "E")
      BY <1>9, <2>5, EntryFacts
    <3>2. todo' = <<Wback(t, req.way), SetTag(st)>>
      <4>1. evict = <<Wback(t, req.way)>>
        BY <2>5, <3>1 DEF Wback
      <4> QED BY <2>1, <4>1, AppendFacts DEF SetTag
    <3>3. Left(<<Wback(t, req.way), SetTag(st)>>)'
      BY <1>4, <1>8, <3>2 DEF Left, Wback, SetTag, Command
    <3>4. Evicting'
      BY <1>2, <1>4, <1>7, <1>8, <2>2, <2>4, <3>1, <3>3 DEF Evicting, Entry
    <3> QED BY <1>4, <1>8, <3>4 DEF ScriptInv
  <2>6. CASE ~(tagMem[req.way].st = "E" /\ req.dirty)
    <3>1. todo' = <<SetTag(st)>>
      <4>1. evict = <<>>
        BY <2>6
      <4> QED BY <2>1, <4>1, AppendFacts DEF SetTag
    <3>2. Left(<<SetTag(st)>>)'
      BY <1>4, <1>8, <3>1 DEF Left, SetTag, Command
    <3>3. tagMem[req.way].st # "I" => tagMem[req.way].tag \notin unsaved
      <4> SUFFICES ASSUME tagMem[req.way].st # "I", tagMem[req.way].tag \in unsaved
                   PROVE  FALSE
        OBVIOUS
      <4>1. tagMem[req.way].st = "E" /\ dirty[req.way]
        BY <1>1, <1>9, StoredAndIdle DEF CacheInv
      <4>2. req.dirty
        BY <1>5, <4>1 DEF CacheInv, VictimKnown
      <4> QED BY <2>6, <4>1, <4>2
    <3>4. TagAwaited'
      BY <1>2, <1>7, <1>8, <1>10, <2>4, <3>2, <3>3 DEF TagAwaited
    <3>5. BlockAwaited'
      BY <1>4, <1>7, <2>2 DEF BlockAwaited, Arrived
    <3>6. ~BlockCame'
      BY <1>7 DEF BlockCame, Arrived
    <3>7. Filling'
      BY <1>7, <3>4, <3>5, <3>6 DEF Filling
    <3> QED BY <1>4, <1>8, <3>7 DEF ScriptInv
  <2> QED BY <2>5, <2>6
<1> QED BY <1>11, <1>12

\* An invalidation of way w leaves no way with the block.
LEMMA InvalidateGone ==
  ASSUME TypeOK, UniqueTags, NEW t \in Tag, NEW w \in Way,
         tagMem[w].tag = t, tagMem[w].st # "I",
         tagMem' = [tagMem EXCEPT ![w] = Invalid]
  PROVE  tagMem'[w] = Invalid /\ Gone(t)'
<1>1. tagMem \in [Way -> Entries]
  BY DEF TypeOK
<1>2. tagMem'[w] = Invalid /\ \A v \in Way \ {w} : tagMem'[v] = tagMem[v]
  BY <1>1
<1>3. ASSUME NEW v \in Way PROVE ~Holds(v, t)'
  <2>1. CASE v = w
    BY <1>2, <2>1, EntryFacts DEF Holds
  <2>2. CASE v # w
    <3>1. ~Holds(v, t)
      BY <2>2 DEF UniqueTags, Holds
    <3> QED BY <1>2, <2>2, <3>1 DEF Holds
  <2> QED BY <2>1, <2>2
<1> QED BY <1>2, <1>3 DEF Gone

\* A block is taken away, step by step.
LEMMA TakeGoesOn ==
  ASSUME TypeOK, CacheInv, ~serving, BeingTaken, ~CceIdle, NEW take, NEW rdy,
         NEW g, g = Granted(take),
         TagMem(g), LceCmd(g, rdy), Cce(g, rdy), rcv' = {}
  PROVE  ScriptInv'
<1>1. /\ CmdInv /\ ScriptInv /\ UniqueTags
  BY DEF CacheInv
<1>2. Receives(g, rdy)
  BY CceReceives
<1>3. ~due /\ fill = None /\ FillLeft(g) = None
  BY <1>1, NothingReceived DEF NotAwaited
<1>4. ~due' /\ ~serving' /\ fill' = None
  BY <1>3, CceReceives DEF CceWaits, CceCommands, CceFills, Receive
<1>5. NotAwaited'
  BY <1>4 DEF NotAwaited
<1>6. PICK t \in Tag, w \in Way : ToInvalidate(t, w) \/ Invalidated(t, w)
  BY DEF BeingTaken
<1> DEFINE I == Inv(t, w)
           T == Transfer(t, w)
           W == Wback(t, w)
           D == CmdDone(g, rdy)
<1>7. I # None /\ T # None /\ W # None
  BY CommandFacts
<1>8. /\ Left(<<I>>) => IF D THEN CceIdle' ELSE Left(<<I>>)'
      /\ Left(<<I, W>>) => IF D THEN Left(<<W>>)' ELSE Left(<<I, W>>)'
      /\ Left(<<I, T, W>>) => IF D THEN Left(<<T, W>>)' ELSE Left(<<I, T, W>>)'
      /\ Left(<<T, W>>) => IF D THEN Left(<<W>>)' ELSE Left(<<T, W>>)'
      /\ Left(<<W>>) => IF D THEN CceIdle' ELSE Left(<<W>>)'
  <2> HIDE DEF I, T, W, D
  <2>1. ~serving'
    BY <1>4
  <2> QED BY <1>1, <1>2, <1>7, <2>1, LeftStep DEF D, CceIdle
<1>9. /\ Left(<<I>>) \/ Left(<<I, W>>) \/ Left(<<I, T, W>>) => cmd \in {None, I}
      /\ Left(<<T, W>>) => cmd \in {None, T}
      /\ Left(<<W>>) => cmd \in {None, W}
  BY LeftOne, LeftTwo, LeftThree
<1>10. I' = I /\ T' = T /\ W' = W
  BY DEF Inv, Transfer, Wback, Command
<1>11. \A tag, way : Inv(tag, way)' = Inv(tag, way)
  BY DEF Inv, Command
<1> HIDE DEF I, T, W
<1>12. I.op = "INV" /\ I.way = w /\ T.op = "TR" /\ W.op = "WB"
  BY CommandFacts DEF I, T, W
<1>13. CASE ToInvalidate(t, w)
  <2>1. done = {} /\ cmd \in {None, I}
    BY <1>9, <1>13 DEF ToInvalidate, I, T, W
  <2>2. tagMem[w].tag = t /\ tagMem[w].st # "I"
    BY <1>13, EntryFacts DEF ToInvalidate
  <2>3. CASE ~g.tag
    <3>1. tagMem' = tagMem
      BY <2>3, TagEffect
    <3>2. ~D
      BY <1>1, <1>12, <2>1, <2>3, NoneDone DEF D, CmdDone, SetsTag, CmdIs, InvAcked,
         Transferred, WroteBack, WroteNull, CmdInv
    <3>3. done' = {}
      BY <1>1, <1>12, <2>1, <2>3, <3>2, CmdMoves DEF D
    <3>4. ToInvalidate(t, w)'
      BY <1>8, <1>13, <3>1, <3>2, <3>3
      DEF ToInvalidate, I, T, W, Inv, Transfer, Wback, Command, Entry
    <3> QED BY <1>4, <1>5, <3>4 DEF ScriptInv, BeingTaken
  <2>4. CASE g.tag
    <3>1. cmd = I
      BY <2>1, <2>4, TagEffect
    <3>2. tagMem' = [tagMem EXCEPT ![w] = Invalid]
      BY <1>12, <2>4, <3>1, TagEffect
    <3>3. tagMem'[w] = Invalid /\ Gone(t)'
      BY <1>1, <2>2, <3>2, InvalidateGone
    <3>4. CASE D
      <4>1. CceIdle' \/ Left(<<W>>)' \/ Left(<<T, W>>)'
        BY <1>8, <1>13, <3>4 DEF ToInvalidate, I, T, W
      <4>2. CceIdle' \/ Invalidated(t, w)'
        BY <3>3, <4>1 DEF Invalidated, T, W, Transfer, Wback, Command, Invalid
      <4> QED BY <1>4, <1>5, <4>2 DEF ScriptInv, BeingTaken
    <3>5. CASE ~D
      <4>1. done' = {"invalidated"}
        BY <1>1, <1>12, <2>4, <3>1, <3>5, CmdMoves DEF D
      <4>2. Left(<<I>>)' \/ Left(<<I, W>>)' \/ Left(<<I, T, W>>)'
        BY <1>8, <1>13, <3>5 DEF ToInvalidate, I, T, W
      <4>3. Invalidated(t, w)'
        BY <3>3, <4>1, <4>2
        DEF Invalidated, I, T, W, Inv, Transfer, Wback, Command, Invalid
      <4> QED BY <1>4, <1>5, <4>3 DEF ScriptInv, BeingTaken
    <3> QED BY <3>4, <3>5
  <2> QED BY <2>3, <2>4
<1>14. CASE Invalidated(t, w)
  <2>1. ~g.tag
    <3>1. cmd # None /\ cmd.op = "INV" => done = {"invalidated"}
      BY <1>9, <1>12, <1>14, CommandFacts DEF Invalidated, I, T, W
    <3>2. cmd = None \/ cmd.op \in {"INV", "TR", "WB"}
      BY <1>9, <1>12, <1>14 DEF Invalidated, I, T, W
    <3> QED BY <3>1, <3>2, TagEffect
  <2>2. tagMem' = tagMem
    BY <2>1, TagEffect
  <2>3. tagMem'[w] = Invalid /\ Gone(t)'
    BY <1>14, <2>2 DEF Invalidated, Gone, Holds
  <2>4. CASE CceIdle' \/ Left(<<W>>)' \/ Left(<<T, W>>)'
    <3>1. CceIdle' \/ Invalidated(t, w)'
      BY <2>3, <2>4 DEF Invalidated, T, W, Transfer, Wback, Command, Invalid
    <3> QED BY <1>4, <1>5, <3>1 DEF ScriptInv, BeingTaken
  <2>5. CASE ~(CceIdle' \/ Left(<<W>>)' \/ Left(<<T, W>>)')
    <3>1. done = {"invalidated"} /\ ~D
      BY <1>8, <1>14, <2>5 DEF Invalidated, I, T, W
    <3>2. cmd = I
      <4>1. cmd.op = "INV"
        BY <1>1, <3>1 DEF CmdInv, TypeOK, CmdState
      <4>2. cmd \in {None, I, T, W}
        BY <1>9, <1>14 DEF Invalidated, I, T, W
      <4> QED BY <1>12, <4>1, <4>2, CommandFacts
    <3>3. done' = {"invalidated"}
      BY <1>1, <1>12, <3>1, <3>2, CmdMoves DEF D
    <3>4. Left(<<I>>)' \/ Left(<<I, W>>)' \/ Left(<<I, T, W>>)'
      BY <1>8, <1>14, <2>5, <3>1 DEF Invalidated, I, T, W
    <3>5. Invalidated(t, w)'
      BY <2>3, <3>3, <3>4
      DEF Invalidated, I, T, W, Inv, Transfer, Wback, Command, Invalid
    <3> QED BY <1>4, <1>5, <3>5 DEF ScriptInv, BeingTaken
  <2> QED BY <2>4, <2>5
<1> QED BY <1>6, <1>13, <1>14
-----------------------------------------------------------------------------
(* A request that is served.                                               *)

\* While a request is served neither a miss nor a store comes in between.
LEMMA ServedFacts ==
  ASSUME TypeOK, CacheInv, serving, NEW g, NEW rdy, Cce(g, rdy), History(g, rdy)
  PROVE  /\ req # None /\ req = miss /\ req \in Misses
         /\ reqSt \in {"sleep", "tr_ack", "coh_ack"}
         /\ tl = None /\ tv = None /\ ~StoreHit /\ ~Missed /\ Buffered = wbuf
         /\ ~Requested(rdy)
         /\ req' = IF MissOver(g, rdy) THEN None ELSE req
         /\ unsaved' = IF WroteBack(g, rdy) THEN unsaved \ {cmd.tag} ELSE unsaved
         /\ CceWaits(g, rdy) \/ CceCommands(g, rdy) \/ CceFills(g, rdy)
<1>1. req # None
  BY DEF CacheInv, ScriptInv
<1>2. req = miss /\ req \in Misses /\ reqSt \in {"sleep", "tr_ack", "coh_ack"}
  BY <1>1 DEF CacheInv, ReqInv, TypeOK, ReqState
<1>3. tl = None /\ tv = None
  BY <1>2 DEF CacheInv, PipeEmptyInMiss
<1>4. ~StoreHit /\ ~Missed
  BY <1>3, AccessFacts DEF StoreHit, Missed
<1>5. Buffered = wbuf
  BY <1>4, BufferedType
<1>6. ~Requested(rdy)
  BY <1>2 DEF Requested
<1>7. req' = IF MissOver(g, rdy) THEN None ELSE req
  BY <1>6 DEF Cce, ReqLeft
<1>8. unsaved' = IF WroteBack(g, rdy) THEN unsaved \ {cmd.tag} ELSE unsaved
  BY <1>4 DEF History
<1>9. CceWaits(g, rdy) \/ CceCommands(g, rdy) \/ CceFills(g, rdy)
  BY DEF Cce, CceTakes, CceServes, CceIdle
<1> QED BY <1>1, <1>2, <1>3, <1>4, <1>5, <1>6, <1>7, <1>8, <1>9

\* An upgrade, step by step.
LEMMA UpgradeGoesOn ==
  ASSUME TypeOK, CacheInv, serving, Upgrading, NEW take, NEW rdy,
         NEW g, g = Granted(take),
         TagMem(g), LceCmd(g, rdy), Cce(g, rdy), History(g, rdy),
         NEW m, LceReq(Missed, m, g, rdy)
  PROVE  ScriptInv'
<1>1. /\ CmdInv /\ ScriptInv
  BY DEF CacheInv
<1>2. ~CceIdle
  BY DEF CceIdle
<1>3. Receives(g, rdy)
  BY <1>2, CceReceives
<1>4. /\ reqSt = "sleep" /\ ~due /\ fill = None /\ rcv = {}
  BY DEF Upgrading, NotAwaited
<1> PICK r : r = req
  OBVIOUS
<1>5. PICK w \in Way : /\ Left(<<Command("STW", req.tag, w, "E")>>)
                       /\ tagMem[w] = Entry(req.tag, "S")
  BY DEF Upgrading
<1> DEFINE c == Command("STW", r.tag, w, "E")
<1>6. c.op = "STW" /\ c # None
  BY CommandFacts
<1> HIDE DEF c
<1>7. cmd \in {None, c}
  BY <1>5, LeftOne DEF c
<1>8. ~FillGranted(g) /\ FillLeft(g) = None
  BY <1>4, GrantFacts DEF FillLeft
<1>9. ~due' /\ fill' = None
  BY <1>4, <1>8, ServedFacts DEF CceWaits, CceCommands, CceFills, Receive
<1>10. ReqSleep(g) /\ ~MissAcked(rdy)
  BY <1>4, ServedFacts, ReqMoves DEF MissAcked, Acknowledging
<1>11. Received(g) = {}
  BY <1>4, <1>6, <1>7, <1>8, CommandFacts DEF Received, CmdIs
<1>12. CASE g.tag
  <2>1. cmd = c /\ cmdSt = "ready"
    BY <1>7, <1>12, TagEffect
  <2>2. SetsTag
    BY <1>6, <1>12, <2>1, TagEffect
  <2>3. CmdDone(g, rdy) /\ Woken(g)
    BY <1>4, <1>6, <1>12, <2>1, <2>2 DEF CmdDone, Woken, CmdIs
  <2>4. cmd' = None /\ todo' = <<>>
    BY <1>1, <1>3, <1>5, <1>6, <2>3, LeftStep DEF c
  <2>5. ~serving'
    <3>1. CmdLeft(g, rdy) = None /\ todo = <<>>
      BY <1>5, <1>6, <2>1, <2>3, LeftOne DEF CmdLeft, c
    <3> QED BY <1>4, <2>3, <3>1, ServedFacts DEF CceWaits, CceCommands, CceFills, MissOver
  <2>6. rcv' = {}
    BY <1>10, <2>3 DEF ReqSleep, Forget
  <2> QED BY <1>9, <2>4, <2>5, <2>6 DEF ScriptInv, NotAwaited, CceIdle
<1>13. CASE ~g.tag
  <2>1. tagMem' = tagMem
    BY <1>13, TagEffect
  <2>2. ~Woken(g) /\ ~MissOver(g, rdy)
    BY <1>10, <1>13 DEF Woken, MissOver
  <2>3. ~CmdDone(g, rdy)
    BY <1>1, <1>6, <1>7, <1>13, NoneDone DEF CmdDone, InvAcked, Transferred, WroteBack,
       WroteNull, CmdIs, CmdInv
  <2>4. req' = req
    BY <2>2, ServedFacts
  <2>5. reqSt' = "sleep" /\ rcv' = {}
    BY <1>4, <1>10, <1>11, <2>2 DEF ReqSleep
  <2>6. Left(<<c>>)'
    BY <1>1, <1>3, <1>5, <1>6, <2>3, LeftStep DEF c
  <2>7. Left(<<Command("STW", req.tag, w, "E")>>)'
    BY <2>4, <2>6 DEF c, Command
  <2>8. Upgrading'
    BY <1>5, <1>9, <2>1, <2>4, <2>5, <2>7 DEF Upgrading, NotAwaited, Entry
  <2>9. serving'
    BY <2>2, ServedFacts DEF CceWaits, CceCommands, CceFills
  <2> QED BY <2>4, <2>8, <2>9, ServedFacts DEF ScriptInv
<1> QED BY <1>12, <1>13

\* A writeback of the victim, step by step, until the fill can come.
LEMMA EvictGoesOn ==
  ASSUME TypeOK, CacheInv, AnswersAreCurrent, serving, Evicting, NEW take, NEW rdy,
         NEW g, g = Granted(take),
         TagMem(g), LceCmd(g, rdy), Cce(g, rdy), History(g, rdy),
         NEW m, LceReq(Missed, m, g, rdy)
  PROVE  ScriptInv'
<1>1. /\ CmdInv /\ ScriptInv
  BY DEF CacheInv
<1>2. ~CceIdle
  BY LeftTwo DEF CceIdle, Evicting
<1>3. Receives(g, rdy)
  BY <1>2, CceReceives
<1>4. /\ reqSt = "sleep" /\ due /\ fill = None /\ rcv = {}
      /\ Gone(req.tag)
  BY DEF Evicting
<1> PICK r : r = req
  OBVIOUS
<1>5. PICK t \in Tag, st \in {"S", "E"} :
        /\ Left(<<Wback(t, req.way), SetTag(st)>>)
        /\ tagMem[req.way] = Entry(t, "E")
  BY DEF Evicting
<1> DEFINE c == Wback(t, r.way)
           d == Command("ST", r.tag, r.way, st)
<1>6. /\ c.op = "WB" /\ c.tag = t /\ c # None /\ d # None /\ d.op = "ST"
      /\ Left(<<c, d>>)
  BY <1>5, CommandFacts DEF SetTag
<1> HIDE DEF c, d
<1>7. \/ cmd = None /\ todo = <<c, d>>
      \/ cmd = c /\ todo = <<d>>
  BY <1>6, LeftTwo
<1>8. ~FillGranted(g) /\ FillLeft(g) = None
  BY <1>4, GrantFacts DEF FillLeft
<1>9. ReqSleep(g) /\ ~MissAcked(rdy)
  BY <1>4, ReqMoves DEF MissAcked, Acknowledging
<1>10. Received(g) = {} /\ ~Woken(g) /\ ~MissOver(g, rdy)
  BY <1>4, <1>6, <1>7, <1>8, <1>9, CommandFacts DEF Received, CmdIs, Woken, MissOver
<1>11. reqSt' = "sleep" /\ rcv' = {}
  BY <1>4, <1>9, <1>10 DEF ReqSleep
<1>12. req' = req /\ serving'
  BY <1>10, ServedFacts DEF CceWaits, CceCommands, CceFills
<1>13. tagMem' = tagMem
  BY <1>6, <1>7, TagEffect
<1>14. Gone(req.tag)' /\ tagMem'[req'.way] = Entry(t, "E")
  BY <1>4, <1>5, <1>12, <1>13 DEF Gone, Holds
<1>15. CASE ~CmdDone(g, rdy)
  <2>1. WritebackAsked(g, rdy)
    <3>1. CASE cmd = None
      <4>1. 1 \in DOMAIN todo /\ todo[1] = c
        BY <1>7, <3>1, <1>6, CommandFacts
      <4> QED BY <1>6, <4>1 DEF WritebackAsked
    <3>2. CASE cmd # None
      BY <1>6, <1>7, <1>15, <3>2 DEF WritebackAsked, CmdLeft
    <3> QED BY <3>1, <3>2
  <2>2. due' /\ fill' = None
    BY <1>4, <1>8, <2>1, ServedFacts DEF CceWaits, CceCommands, CceFills, Receive
  <2>3. Left(<<c, d>>)'
    BY <1>1, <1>3, <1>6, <1>15, LeftStep
  <2>4. Left(<<Wback(t, req.way), SetTag(st)>>)'
    BY <1>12, <2>3 DEF c, d, SetTag, Wback, Command
  <2>5. Evicting'
    BY <1>11, <1>14, <2>2, <2>4 DEF Evicting, Entry
  <2> QED BY <1>12, <2>5, ServedFacts DEF ScriptInv
<1>16. CASE CmdDone(g, rdy)
  <2>1. cmd = c
    BY <1>1, <1>7, <1>16, NoneDone
  <2>2. Left(<<d>>)'
    BY <1>1, <1>3, <1>6, <1>16, LeftStep
  <2>3. Left(<<SetTag(st)>>)'
    BY <1>12, <2>2 DEF d, SetTag, Command
  <2>4. t \notin unsaved'
    <3>1. CASE WroteBack(g, rdy)
      BY <1>6, <2>1, <3>1, ServedFacts
    <3>2. CASE ~WroteBack(g, rdy)
      <4>1. WroteNull(rdy)
        BY <1>6, <1>16, <2>1, <3>2, CommandFacts DEF CmdDone, SetsTag, CmdIs, InvAcked,
           Transferred, CmdInv, CacheInv
      <4>2. t \notin unsaved
        BY <1>6, <2>1, <4>1 DEF WroteNull, AnswersAreCurrent
      <4> QED BY <3>2, <4>2, ServedFacts
    <3> QED BY <3>1, <3>2
  <2>5. TagAwaited'
    <3>1. tagMem'[req'.way].tag = t
      BY <1>14, EntryFacts
    <3> QED BY <1>11, <1>14, <2>3, <2>4, <3>1 DEF TagAwaited
  <2>6. BlockAwaited'
    <3>1. CASE CceFills(g, rdy)
      <4>1. ~due' /\ fill' # None /\ fill'.tag = req.tag /\ fill'.way = req.way
        BY <3>1 DEF CceFills, None
      <4> QED BY <1>11, <1>12, <4>1 DEF BlockAwaited, Arrived
    <3>2. CASE ~CceFills(g, rdy)
      <4>1. due' /\ fill' = None
        BY <1>4, <1>8, <3>2, ServedFacts DEF CceWaits, CceCommands, Receive
      <4> QED BY <1>11, <4>1 DEF BlockAwaited, Arrived
    <3> QED BY <3>1, <3>2
  <2>7. ~BlockCame'
    BY <2>6 DEF BlockAwaited, BlockCame
  <2>8. Filling'
    BY <1>11, <2>5, <2>6, <2>7 DEF Filling
  <2> QED BY <1>12, <2>8, ServedFacts DEF ScriptInv
<1> QED BY <1>15, <1>16

\* The tag of a block that is to come, while the miss machine waits.
LEMMA TagComes ==
  ASSUME TypeOK, CacheInv, serving, TagAwaited \/ TagCame,
         NEW take, NEW rdy, NEW g, g = Granted(take),
         TagMem(g), Cce(g, rdy), History(g, rdy),
         req' = req, rcv' = Received(g)
  PROVE  TagAwaited' \/ TagCame'
<1>1. /\ CmdInv /\ ScriptInv /\ ~CceIdle
  BY DEF CacheInv, CceIdle
<1>2. Receives(g, rdy)
  BY <1>1, CceReceives
<1> PICK r : r = req
  OBVIOUS
<1>3. r \in Misses /\ r.way \in Way /\ r.tag \in Tag
  BY ServedFacts DEF Misses
<1>4. unsaved' \subseteq unsaved
  BY ServedFacts
<1>5. CASE TagAwaited
  <2>1. PICK st \in {"S", "E"} : Left(<<SetTag(st)>>)
    BY <1>5 DEF TagAwaited
  <2> DEFINE c == Command("ST", r.tag, r.way, st)
  <2>2. c.op = "ST" /\ c # None /\ Left(<<c>>) /\ c.tag = r.tag /\ c.way = r.way /\ c.st = st
    BY <2>1, CommandFacts DEF SetTag
  <2> HIDE DEF c
  <2>3. cmd \in {None, c}
    BY <2>2, LeftOne
  <2>4. CASE g.tag
    <3>1. cmd = c /\ cmdSt = "ready" /\ SetsTag
      BY <2>2, <2>3, <2>4, TagEffect
    <3>2. CmdDone(g, rdy) /\ CmdIs({"ST"})
      BY <2>2, <2>4, <3>1 DEF CmdDone, CmdIs
    <3>3. cmd' = None /\ todo' = <<>>
      BY <1>1, <1>2, <2>2, <3>2, LeftStep
    <3>4. "tag" \in rcv'
      BY <2>4, <3>2 DEF Received
    <3>5. tagMem' = [tagMem EXCEPT ![r.way] = Entry(r.tag, st)]
      BY <2>2, <2>4, <3>1, TagEffect
    <3>6. tagMem'[r.way] = Entry(r.tag, st)
      BY <1>3, <3>5 DEF TypeOK
    <3>7. Holds(req.way, req.tag)'
      BY <3>6, EntryFacts DEF Holds
    <3> QED BY <3>3, <3>4, <3>7 DEF TagCame
  <2>5. CASE ~g.tag
    <3>1. tagMem' = tagMem
      BY <2>5, TagEffect
    <3>2. ~CmdDone(g, rdy)
      BY <1>1, <2>2, <2>3, <2>5, NoneDone DEF CmdDone, InvAcked, Transferred, WroteBack,
         WroteNull, CmdIs, CmdInv
    <3>3. Left(<<c>>)'
      BY <1>1, <1>2, <2>2, <3>2, LeftStep
    <3>4. Left(<<SetTag(st)>>)'
      BY <3>3 DEF c, SetTag, Command
    <3>5. "tag" \notin rcv'
      BY <1>5, <2>5 DEF Received, TagAwaited
    <3>6. Gone(req.tag)' /\ tagMem'[req'.way] = tagMem[req.way]
      BY <1>5, <3>1 DEF TagAwaited, Gone, Holds
    <3> QED BY <1>4, <1>5, <3>4, <3>5, <3>6 DEF TagAwaited
  <2> QED BY <2>4, <2>5
<1>6. CASE TagCame
  <2>1. cmd' = None /\ todo' = <<>>
    BY <1>2, <1>6 DEF Receives, CmdLeft, TagCame
  <2>2. tagMem' = tagMem
    BY <1>6, TagEffect DEF TagCame
  <2> QED BY <1>6, <2>1, <2>2 DEF TagCame, Holds, Received
<1> QED BY <1>5, <1>6

\* The block.
LEMMA BlockComes ==
  ASSUME TypeOK, CacheInv, serving, BlockAwaited \/ BlockCame,
         NEW take, NEW rdy, NEW g, g = Granted(take),
         Cce(g, rdy), History(g, rdy),
         req' = req, rcv' = Received(g)
  PROVE  BlockAwaited' \/ BlockCame'
<1>1. CceWaits(g, rdy) \/ CceCommands(g, rdy) \/ CceFills(g, rdy)
  BY ServedFacts
<1>2. FillGranted(g) => fill # None
  BY GrantFacts
<1>3. CASE BlockAwaited /\ due /\ fill = None
  <2>1. ~Arrived'
    BY <1>2, <1>3 DEF Arrived, BlockAwaited, Received
  <2>2. CASE CceFills(g, rdy)
    BY <2>1, <2>2 DEF CceFills, BlockAwaited, None
  <2>3. CASE ~CceFills(g, rdy)
    <3>1. due' /\ fill' = None
      BY <1>1, <1>2, <1>3, <2>3 DEF CceWaits, CceCommands, Receive, FillLeft
    <3> QED BY <2>1, <3>1 DEF BlockAwaited
  <2> QED BY <2>2, <2>3
<1>4. CASE BlockAwaited /\ ~due /\ fill # None
  <2>1. due' = due /\ fill' = FillLeft(g)
    BY <1>1, <1>4 DEF CceWaits, CceCommands, CceFills, Receive
  <2>2. CASE FillGranted(g)
    BY <1>4, <2>1, <2>2 DEF BlockCame, Arrived, Received, FillLeft
  <2>3. CASE ~FillGranted(g)
    BY <1>4, <2>1, <2>3 DEF BlockAwaited, Arrived, Received, FillLeft
  <2> QED BY <2>2, <2>3
<1>5. CASE BlockCame
  <2>1. due' = due /\ fill' = None
    BY <1>1, <1>2, <1>5 DEF CceWaits, CceCommands, CceFills, Receive, BlockCame, FillLeft
  <2> QED BY <1>5, <2>1 DEF BlockCame, Arrived, Received
<1> QED BY <1>3, <1>4, <1>5 DEF BlockAwaited

\* A fill, step by step.
LEMMA FillGoesOn ==
  ASSUME TypeOK, CacheInv, serving, Filling, NEW take, NEW rdy,
         NEW g, g = Granted(take),
         TagMem(g), LceCmd(g, rdy), Cce(g, rdy), History(g, rdy),
         NEW m, LceReq(Missed, m, g, rdy)
  PROVE  ScriptInv'
<1>1. CceWaits(g, rdy) \/ CceCommands(g, rdy) \/ CceFills(g, rdy)
  BY ServedFacts
<1>2. CASE TagCame /\ BlockCame
  <2>1. Acknowledging
    BY <1>2 DEF Filling, Acknowledging
  <2>2. ReqAck(rdy)
    BY <2>1, ServedFacts, ReqMoves
  <2>3. CceWaits(g, rdy)
    BY <1>1, <1>2 DEF CceCommands, CceFills, TagCame, BlockCame
  <2>4. ~due' /\ fill' = None /\ cmd' = None /\ todo' = <<>>
    BY <1>2, <2>3, GrantFacts DEF CceWaits, Receive, TagCame, BlockCame, CmdLeft, FillLeft
  <2>5. tagMem' = tagMem
    BY <1>2, TagEffect DEF TagCame
  <2>6. ~Woken(g)
    BY <2>1 DEF Woken, Acknowledging
  <2>7. CASE MissAcked(rdy)
    <3>1. rcv' = {} /\ ~serving'
      BY <2>2, <2>3, <2>7 DEF ReqAck, Forget, CceWaits, MissOver
    <3> QED BY <2>4, <3>1 DEF ScriptInv, NotAwaited, CceIdle
  <2>8. CASE ~MissAcked(rdy)
    <3>1. UNCHANGED reqFsm /\ req' = req /\ serving'
      BY <2>2, <2>3, <2>6, <2>8, ServedFacts DEF ReqAck, CceWaits, MissOver
    <3>2. TagCame' /\ BlockCame'
      BY <1>2, <2>4, <2>5, <3>1 DEF TagCame, BlockCame, Holds, Arrived, reqFsm
    <3>3. reqSt' = reqSt
      BY <3>1 DEF reqFsm
    <3> QED BY <1>2, <3>1, <3>2, <3>3, ServedFacts DEF ScriptInv, Filling
  <2> QED BY <2>7, <2>8
<1>3. CASE ~(TagCame /\ BlockCame)
  <2>1. reqSt = "sleep"
    BY <1>3 DEF Filling
  <2>2. ReqSleep(g)
    BY <2>1, ServedFacts, ReqMoves
  <2>3. cmd.op # "STW"
    BY LeftOne, CommandFacts DEF Filling, TagAwaited, TagCame
  <2>4. ~Woken(g) /\ ~MissOver(g, rdy)
    BY <2>1, <2>3 DEF Woken, CmdIs, MissOver, MissAcked, Acknowledging
  <2>5. req' = req /\ serving'
    BY <1>1, <2>4, ServedFacts DEF CceWaits, CceCommands, CceFills
  <2>6. rcv' = Received(g)
    BY <2>2, <2>4 DEF ReqSleep
  <2>7. TagAwaited' \/ TagCame'
    BY <2>5, <2>6, TagComes DEF Filling
  <2>8. BlockAwaited' \/ BlockCame'
    BY <2>5, <2>6, BlockComes DEF Filling
  <2>9. TagCame' => "tag" \in rcv'
    BY DEF TagCame
  <2>10. TagAwaited' => "tag" \notin rcv'
    BY DEF TagAwaited
  <2>11. BlockCame' <=> rcv' \cap {"data", "tr"} # {}
    BY <2>8 DEF BlockAwaited, BlockCame, Arrived
  <2>12. reqSt' = IF "tag" \notin rcv' THEN "sleep"
                  ELSE IF "tr" \in rcv' THEN "tr_ack"
                  ELSE IF "data" \in rcv' THEN "coh_ack" ELSE "sleep"
    BY <2>2, <2>4, <2>6 DEF ReqSleep
  <2>13. reqSt' \in IF TagCame' /\ BlockCame' THEN {"tr_ack", "coh_ack"} ELSE {"sleep"}
    BY <2>7, <2>9, <2>10, <2>11, <2>12
  <2>14. Filling'
    BY <2>7, <2>8, <2>13 DEF Filling
  <2> QED BY <2>5, <2>14, ServedFacts DEF ScriptInv
<1> QED BY <1>2, <1>3

\* Every step goes on with the commands of the CCE.
LEMMA ScriptStep ==
  ASSUME TypeOK, CacheInv, AnswersAreCurrent, NEW take, NEW rdy,
         NEW g, g = Granted(take),
         TagMem(g), LceCmd(g, rdy), Cce(g, rdy), History(g, rdy),
         NEW m, LceReq(Missed, m, g, rdy)
  PROVE  ScriptInv'
<1>1. /\ CmdInv /\ ScriptInv
  BY DEF CacheInv
<1>2. CASE serving
  BY <1>1, <1>2, UpgradeGoesOn, EvictGoesOn, FillGoesOn DEF ScriptInv
<1>3. CASE ~serving
  <2>1. NotAwaited /\ Received(g) = {} /\ ~Woken(g) /\ ~FillGranted(g)
        /\ FillLeft(g) = None
    BY <1>1, <1>3, NothingReceived
  <2>2. rcv' = {}
    <3>1. Missed \in BOOLEAN /\ rcv = {}
      BY <2>1 DEF Missed, NotAwaited
    <3>2. CASE reqSt = "ready"
      BY <3>1, <3>2, ReqMoves DEF reqFsm
    <3>3. CASE reqSt = "send"
      BY <3>1, <3>3, ReqMoves
    <3>4. CASE reqSt = "sleep"
      <4>1. ReqSleep(g)
        BY <3>1, <3>4, ReqMoves
      <4> QED BY <2>1, <4>1 DEF ReqSleep
    <3>5. ~Acknowledging
      BY <1>3 DEF CacheInv, ReqInv
    <3> QED BY <3>2, <3>3, <3>4, <3>5 DEF TypeOK, ReqState, Acknowledging
  <2>3. CASE CceTakes(g, rdy)
    BY <1>1, <1>3, <2>2, <2>3, TakeBegins DEF CceTakes
  <2>4. CASE CceServes(g, rdy)
    BY <1>1, <1>3, <2>4, ServeBegins DEF CceServes
  <2>5. CASE CceIdle /\ ~CceTakes(g, rdy) /\ ~CceServes(g, rdy)
    <3>1. CceWaits(g, rdy)
      BY <2>1, <2>5 DEF Cce, CceCommands, CceFills, NotAwaited, CceIdle
    <3>2. /\ cmd' = None /\ todo' = <<>> /\ fill' = None /\ ~due' /\ ~serving'
      BY <1>3, <2>1, <2>5, <3>1 DEF CceWaits, Receive, CmdLeft, CceIdle, NotAwaited
    <3> QED BY <2>2, <3>2 DEF ScriptInv, NotAwaited, CceIdle
  <2>6. CASE ~CceIdle
    BY <1>1, <1>3, <2>2, <2>6, TakeGoesOn DEF ScriptInv
  <2> QED BY <2>3, <2>4, <2>5, <2>6
<1> QED BY <1>2, <1>3
-----------------------------------------------------------------------------
(* The miss.                                                               *)

\* The miss machine leaves its first state in the cycle of a miss only.
LEMMA MissStarts ==
  ASSUME NEW missed \in BOOLEAN, NEW mi, NEW g, NEW rdy,
         LceReq(missed, mi, g, rdy), reqSt = "ready", reqSt' # "ready"
  PROVE  missed
BY DEF LceReq, ReqReady, ReqSend, ReqSleep, ReqAck, Acknowledging, reqFsm

\* The pipe is empty while a miss is served.
LEMMA EmptyStep ==
  ASSUME PipeEmptyInMiss, NEW take, NEW psn, NEW rdy, Tick(take, psn, rdy)
  PROVE  PipeEmptyInMiss'
<1> SUFFICES ASSUME reqSt' # "ready" PROVE tl' = None /\ tv' = None
  BY DEF PipeEmptyInMiss
<1>1. tl' = take /\ (tl = None \/ psn => tv' = None)
  BY TickParts DEF TlStage, TvStage
<1>2. CASE reqSt = "ready"
  <2>1. Missed \in BOOLEAN
    BY DEF Missed
  <2>2. Missed
    BY <1>2, <2>1, MissStarts, TickParts
  <2> QED BY <1>1, <2>2 DEF Tick, Poison, Ready, CacheMiss
<1>3. CASE reqSt # "ready"
  BY <1>1, <1>3 DEF Tick, PipeEmptyInMiss, Ready, CacheMiss
<1> QED BY <1>2, <1>3

\* Tags are only invalidated until the CCE serves the request.
LEMMA TagsLeave ==
  ASSUME TypeOK, ScriptInv, ~serving, NEW take, TagMem(Granted(take))
  PROVE  \A w \in Way : tagMem'[w] = tagMem[w] \/ tagMem'[w] = Invalid
<1> DEFINE g == Granted(take)
<1>1. tagMem \in [Way -> Entries]
  BY DEF TypeOK
<1>2. g.tag => cmd.op = "INV"
  BY TagEffect, HeadSt, HeadStw
<1>3. tagMem' = tagMem \/ tagMem' = [tagMem EXCEPT ![cmd.way] = Invalid]
  BY <1>2, TagEffect
<1> QED BY <1>1, <1>3

\* Which states of the miss machine follow which, with the request.
LEMMA MissMoves ==
  ASSUME TypeOK, CacheInv, NEW take, NEW psn, NEW rdy, Tick(take, psn, rdy)
  PROVE  LET g == Granted(take) IN
         /\ reqSt = "ready" => req' = None /\ ~serving
         /\ reqSt = "ready" /\ ~Missed => reqSt' = "ready"
         /\ reqSt = "ready" /\ Missed =>
              /\ reqSt' = "send" /\ ~flopped'
              /\ \E v \in Way : miss' = MissOf(v)
         /\ reqSt = "send" =>
              /\ ~serving /\ miss' = Request /\ flopped'
              /\ \/ reqSt' = "send" /\ req' = None
                 \/ reqSt' = "sleep" /\ req' = Request
         /\ reqSt \in {"sleep", "tr_ack", "coh_ack"} =>
              \/ reqSt' = "ready" /\ req' = None
              \/ /\ reqSt' \in {"sleep", "tr_ack", "coh_ack"}
                 /\ req' = req /\ miss' = miss /\ req = miss /\ req # None
                 /\ reqSt' # "sleep" => serving
                 /\ serving => serving'
         /\ ~serving' => ~serving \/ reqSt' = "ready"
<1> DEFINE g == Granted(take)
<1>1. /\ CmdInv /\ ScriptInv /\ ReqInv
  BY DEF CacheInv
<1>2. /\ Cce(g, rdy) /\ req' = ReqLeft(g, rdy)
  BY TickParts DEF Cce
<1>3. PICK v \in IF Missed THEN Victims ELSE {0} :
        LceReq(Missed, IF Missed THEN MissOf(v) ELSE NoMiss, g, rdy)
  BY TickParts
<1>4. Missed \in BOOLEAN
  BY DEF Missed
<1>5. serving => req # None /\ reqSt \in {"sleep", "tr_ack", "coh_ack"}
  BY ServedFacts, <1>2, TickParts
<1>6. ~serving' => ~serving \/ MissOver(g, rdy)
  BY <1>2 DEF Cce, CceWaits, CceCommands, CceFills, CceTakes, CceServes
<1> HIDE DEF g
<1>7. CASE reqSt = "ready"
  <2>1. ~Requested(rdy) /\ ~MissOver(g, rdy) /\ req = None
    BY <1>1, <1>7 DEF Requested, MissOver, MissAcked, Acknowledging, Woken, ReqInv
  <2>2. req' = None
    BY <1>2, <2>1 DEF ReqLeft
  <2>3. Missed => v \in Way
    BY <1>3, VictimIn
  <2>4. IF Missed THEN reqSt' = "send" /\ miss' = MissOf(v) /\ flopped' = FALSE
        ELSE reqSt' = reqSt
    BY <1>3, <1>4, <1>7, ReqMoves DEF reqFsm
  <2> QED BY <1>5, <1>7, <2>2, <2>3, <2>4
<1>8. CASE reqSt = "send"
  <2>1. ~MissOver(g, rdy) /\ req = None
    BY <1>1, <1>8 DEF MissOver, MissAcked, Acknowledging, Woken, ReqInv
  <2>2. flopped' = TRUE /\ miss' = Request
        /\ reqSt' = IF Requested(rdy) THEN "sleep" ELSE "send"
    BY <1>3, <1>4, <1>8, ReqMoves
  <2>3. req' = IF Requested(rdy) THEN Request ELSE None
    BY <1>2, <2>1 DEF ReqLeft
  <2> QED BY <1>5, <1>8, <2>2, <2>3
<1>9. CASE reqSt = "sleep"
  <2>1. ReqSleep(g) /\ ~Requested(rdy) /\ req = miss /\ req # None
    <3>1. miss # None
      BY <1>1, <1>9, MissKnown DEF Misses, None
    <3> QED BY <1>1, <1>3, <1>4, <1>9, <3>1, ReqMoves DEF Requested, ReqInv
  <2>2. ~MissAcked(rdy)
    BY <1>9 DEF MissAcked, Acknowledging
  <2>3. CASE Woken(g)
    BY <1>2, <1>9, <2>1, <2>3 DEF ReqSleep, ReqLeft, MissOver
  <2>4. CASE ~Woken(g)
    <3>1. req' = req /\ miss' = miss
      BY <1>2, <2>1, <2>2, <2>4 DEF ReqSleep, ReqLeft, MissOver
    <3>2. reqSt' \in {"sleep", "tr_ack", "coh_ack"}
      BY <2>1, <2>4 DEF ReqSleep
    <3>3. ~serving => Received(g) = {}
      BY <1>1, NothingReceived DEF g
    <3>4. reqSt' # "sleep" => serving
      BY <2>1, <2>4, <3>3 DEF ReqSleep
    <3>5. ~MissOver(g, rdy)
      BY <2>2, <2>4 DEF MissOver
    <3> QED BY <1>6, <1>9, <2>1, <3>1, <3>2, <3>4, <3>5
  <2> QED BY <1>9, <2>3, <2>4
<1>10. CASE Acknowledging
  <2>1. ReqAck(rdy) /\ ~Requested(rdy) /\ ~Woken(g) /\ serving /\ req = miss /\ req # None
    BY <1>1, <1>3, <1>4, <1>5, <1>10, ReqMoves DEF Requested, Acknowledging, Woken, ReqInv
  <2>2. CASE MissAcked(rdy)
    BY <1>2, <1>10, <2>1, <2>2 DEF ReqAck, ReqLeft, MissOver, Acknowledging
  <2>3. CASE ~MissAcked(rdy)
    <3>1. req' = req /\ miss' = miss /\ reqSt' = reqSt /\ ~MissOver(g, rdy)
      BY <1>2, <2>1, <2>3 DEF ReqAck, ReqLeft, MissOver, reqFsm
    <3> QED BY <1>6, <1>10, <2>1, <3>1 DEF Acknowledging
  <2> QED BY <1>10, <2>2, <2>3 DEF Acknowledging
<1>11. reqSt \in ReqState
  BY DEF TypeOK
<1> QED BY <1>7, <1>8, <1>9, <1>10, <1>11 DEF ReqState, Acknowledging

\* What is known of the request, of the lacking block and of the victim.
LEMMA ReqStep ==
  ASSUME TypeOK, CacheInv, NEW take, NEW psn, NEW rdy, Tick(take, psn, rdy)
  PROVE  ReqInv'
<1>1. ReqInv
  BY DEF CacheInv
<1>2. CASE reqSt = "ready"
  <2>1. CASE Missed
    <3>1. tv.tag \in Tag
      BY <2>1, HitFacts
    <3> QED BY <1>2, <2>1, <3>1, MissMoves DEF ReqInv, MissOf, Acknowledging
  <2>2. CASE ~Missed
    BY <1>2, <2>2, MissMoves DEF ReqInv, Acknowledging
  <2> QED BY <2>1, <2>2
<1>3. CASE reqSt = "send"
  <2>1. Request.tag \in Tag
    BY <1>1, <1>3, MissKnown DEF ReqInv
  <2>2. /\ miss' = Request
        /\ \/ reqSt' = "send" /\ req' = None
           \/ reqSt' = "sleep" /\ req' = Request
    BY <1>3, MissMoves
  <2> QED BY <2>1, <2>2 DEF ReqInv, Acknowledging
<1>4. CASE reqSt \in {"sleep", "tr_ack", "coh_ack"}
  <2>1. \/ reqSt' = "ready" /\ req' = None
        \/ /\ reqSt' \in {"sleep", "tr_ack", "coh_ack"}
           /\ req' = req /\ miss' = miss /\ req = miss
           /\ reqSt' # "sleep" => serving
           /\ serving => serving'
    BY <1>4, MissMoves
  <2>2. miss.tag \in Tag
    BY <1>1, <1>4 DEF ReqInv
  <2> QED BY <2>1, <2>2 DEF ReqInv, Acknowledging
<1> QED BY <1>2, <1>3, <1>4 DEF TypeOK, ReqState

LEMMA LackingStep ==
  ASSUME TypeOK, CacheInv, NEW take, NEW psn, NEW rdy, Tick(take, psn, rdy)
  PROVE  Lacking'
<1>1. SUFFICES ASSUME reqSt' # "ready", ~serving', NEW w \in Way, Holds(w, miss.tag)'
      PROVE  miss'.wr /\ tagMem'[w].st = "S"
  BY DEF Lacking
<1>2. ~serving
  BY <1>1, MissMoves
<1>3. tagMem'[w] = tagMem[w] /\ tagMem[w].st # "I" /\ tagMem[w].tag = miss'.tag
  <2>1. tagMem'[w] # Invalid
    BY <1>1, EntryFacts DEF Holds
  <2>2. tagMem'[w] = tagMem[w]
    BY <1>2, <2>1, TagsLeave, TickParts DEF CacheInv
  <2> QED BY <1>1, <2>2 DEF Holds
<1>4. CASE reqSt = "ready"
  <2>1. Missed /\ \E v \in Way : miss' = MissOf(v)
    BY <1>1, <1>4, MissMoves
  <2>2. miss'.tag = tv.tag /\ miss'.wr = IsStore(tv) /\ tv # None
    BY <2>1, HitFacts DEF MissOf
  <2>3. tv.tags[w] = tagMem[w]
    <3>1. tv.tags = tagMem \/ \E v \in Way : Overtaken(v)
      BY <2>2 DEF CacheInv, PipeTags
    <3>2. CASE \E v \in Way : Overtaken(v)
      <4>1. PICK v \in Way : Overtaken(v)
        BY <3>2
      <4>2. v # w
        BY <1>3, <4>1, EntryFacts DEF Overtaken
      <4> QED BY <4>1, <4>2 DEF Overtaken
    <3> QED BY <3>1, <3>2
  <2>4. ~(IsLoad(tv) /\ LoadHits = {})
    BY <1>3, <2>2, <2>3 DEF LoadHits
  <2>5. IsStore(tv) /\ StoreHits = {}
    BY <2>1, <2>4 DEF Missed
  <2>6. tagMem[w] # Entry(tv.tag, "E")
    BY <2>3, <2>5 DEF StoreHits, Entry
  <2> QED BY <1>3, <2>2, <2>5, <2>6, EntryFacts
<1>5. CASE reqSt # "ready"
  <2>1. miss'.tag = miss.tag /\ miss'.wr = miss.wr
    <3>1. CASE reqSt = "send"
      BY <3>1, MissMoves, MissKnown DEF CacheInv
    <3>2. CASE reqSt \in {"sleep", "tr_ack", "coh_ack"}
      BY <1>1, <3>2, MissMoves
    <3> QED BY <1>5, <3>1, <3>2 DEF TypeOK, ReqState
  <2>2. Holds(w, miss.tag)
    BY <1>3, <2>1 DEF Holds
  <2> QED BY <1>2, <1>3, <1>5, <2>1, <2>2 DEF CacheInv, Lacking
<1> QED BY <1>4, <1>5

\* What a cycle does to the dirty bits.
LEMMA DirtyFacts ==
  ASSUME TypeOK, NEW take, StatMem(take, Granted(take))
  PROVE  LET g == Granted(take) IN
         /\ ~StoreHit => \A w \in Way : (dirty'[w] => dirty[w])
         /\ StoreHit => dirty' = [dirty EXCEPT ![StoreHitWay] = TRUE]
         /\ tv # None /\ ~StoreHit => dirty' = dirty
         /\ Missed => dirtyOut' = dirty
         /\ \A w \in Way : dirty[w] /\ ~dirty'[w] =>
              /\ g.stat /\ ClearsDirty(g.data) /\ w = cmd.way /\ tv = None
<1>1. dirty \in [Way -> BOOLEAN]
  BY DEF TypeOK
<1> QED BY <1>1, GrantFacts DEF StatMem

LEMMA VictimStep ==
  ASSUME TypeOK, CacheInv, NEW take, NEW psn, NEW rdy, Tick(take, psn, rdy)
  PROVE  VictimKnown'
<1>1. reqSt # "ready" => tv = None /\ ~StoreHit
  BY AccessFacts DEF CacheInv, PipeEmptyInMiss, StoreHit
<1>2. \A w \in Way : reqSt # "ready" /\ dirty'[w] => dirty[w]
  BY <1>1, DirtyFacts, TickParts
<1>3. CASE reqSt = "ready"
  <2>1. CASE Missed
    <3>1. reqSt' = "send" /\ ~flopped' /\ \E v \in Way : miss' = MissOf(v)
      BY <1>3, <2>1, MissMoves
    <3>2. dirty' = dirty /\ dirtyOut' = dirty
      BY <2>1, HitFacts, DirtyFacts, TickParts
    <3> QED BY <3>1, <3>2 DEF VictimKnown, LruDirty
  <2>2. CASE ~Missed
    BY <1>3, <2>2, MissMoves DEF VictimKnown
  <2> QED BY <2>1, <2>2
<1>4. CASE reqSt = "send"
  <2>1. /\ flopped' /\ miss' = Request
        /\ \/ reqSt' = "send" /\ req' = None
           \/ reqSt' = "sleep" /\ req' = Request
    BY <1>4, MissMoves
  <2>2. Request.dirty = LruDirty /\ Request.way = miss.way /\ miss.way \in Way
    BY <1>4, MissKnown DEF CacheInv, Misses
  <2>3. dirty'[miss.way] => LruDirty
    BY <1>2, <1>4, <2>2 DEF CacheInv, VictimKnown
  <2> QED BY <2>1, <2>2, <2>3 DEF VictimKnown, LruDirty
<1>5. CASE reqSt \in {"sleep", "tr_ack", "coh_ack"}
  <2> SUFFICES ASSUME reqSt' = "sleep", ~serving', dirty'[req'.way] PROVE req'.dirty
    BY <1>5, MissMoves DEF VictimKnown
  <2>1. req' = req /\ ~serving /\ req # None
    BY <1>5, MissMoves
  <2>2. req.way \in Way /\ reqSt = "sleep"
    BY <1>5, <2>1 DEF TypeOK, Misses, CacheInv, ReqInv, Acknowledging
  <2> QED BY <1>2, <2>1, <2>2 DEF CacheInv, VictimKnown
<1> QED BY <1>3, <1>4, <1>5 DEF TypeOK, ReqState
-----------------------------------------------------------------------------
\* A store fills a place of the buffer two cycles after it has entered the
\* pipe, and in that cycle it has drained one.
LEMMA PlacesStep ==
  ASSUME TypeOK, PlacesKept, NEW take, NEW psn, NEW rdy, Tick(take, psn, rdy)
  PROVE  PlacesKept'
<1>1. /\ take \in Access \cup {None} /\ TlStage(take) /\ TvStage(psn)
      /\ WriteBuffer(take)
  BY TickParts
<1>2. /\ InTl \in {0, 1} /\ InTv \in {0, 1}
      /\ InTl' \in {0, 1} /\ InTv' \in {0, 1}
  BY DEF InTl, InTv
<1>3. /\ Buffered \in Seq(Stored) /\ Len(Buffered) \in Nat /\ Len(wbuf) \in Nat
      /\ Len(Buffered) <= Len(wbuf) + InTv
  <2>1. Buffered \in Seq(Stored) /\ Len(Buffered) \in Nat /\ Len(wbuf) \in Nat
    BY BufferedType
  <2>2. StoreHit => InTv = 1
    BY HitFacts DEF StoreHit, InTv
  <2> QED BY <1>2, <2>1, <2>2, BufferedType
<1>4. InTv' <= InTl
  <2>1. CASE tl = None \/ psn
    BY <1>1, <1>2, <2>1 DEF TvStage, InTv
  <2>2. CASE ~(tl = None \/ psn) /\ IsLoad(tl)
    <3>1. tv'.op = "load"
      BY <1>1, <2>2 DEF TvStage
    <3> QED BY <1>2, <3>1 DEF InTv, IsStore
  <2>3. CASE ~(tl = None \/ psn) /\ ~IsLoad(tl)
    <3>1. IsStore(tl)
      BY <2>3, AccessFacts DEF TypeOK
    <3> QED BY <1>2, <2>3, <3>1 DEF InTl
  <2> QED BY <2>1, <2>2, <2>3
<1>5. CASE Drains(take)
  <2>1. Buffered # <<>> /\ wbuf' = Tail(Buffered)
    BY <1>1, <1>5 DEF Drains, WriteBuffer
  <2>2. Len(wbuf') = Len(Buffered) - 1
    BY <1>3, <2>1, HeadTailProperties
  <2> QED BY <1>2, <1>3, <1>4, <2>2 DEF PlacesKept
<1>6. CASE ~Drains(take)
  <2>1. wbuf' = Buffered
    BY <1>1, <1>6 DEF WriteBuffer
  <2>2. CASE Buffered = <<>>
    <3>1. Len(wbuf') = 0
      BY <2>1, <2>2
    <3>2. \A n, m \in {0, 1} : 0 + n + m <= 2
      OBVIOUS
    <3>3. Len(wbuf') + InTl' + InTv' <= 2
      BY <1>2, <3>1, <3>2, Zenon
    <3> QED BY <3>3 DEF PlacesKept
  <2>3. CASE IsLoad(take)
    <3>1. InTl' = 0
      BY <1>1, <2>3, AccessFacts DEF TlStage, InTl
    <3> QED BY <1>2, <1>3, <1>4, <2>1, <3>1 DEF PlacesKept
  <2> QED BY <1>6, <2>2, <2>3 DEF Drains
<1> QED BY <1>5, <1>6
-----------------------------------------------------------------------------
(* The tags.                                                               *)

\* What a cycle may do to the tags.
Keeps == tagMem' = tagMem
Loses(t, w) ==
  /\ cmd = Inv(t, w) /\ ToInvalidate(t, w) /\ ~serving /\ NotAwaited
  /\ tagMem' = [tagMem EXCEPT ![w] = Invalid]
Gets(st) ==
  /\ serving /\ Filling /\ TagAwaited /\ cmd = SetTag(st) /\ todo = <<>>
  /\ req.way \in Way /\ req.tag \in Tag
  /\ tagMem' = [tagMem EXCEPT ![req.way] = Entry(req.tag, st)]
Upgrades(w) ==
  /\ serving /\ NotAwaited /\ reqSt = "sleep" /\ req.tag \in Tag
  /\ cmd = Command("STW", req.tag, w, "E") /\ todo = <<>>
  /\ tagMem[w] = Entry(req.tag, "S")
  /\ tagMem' = [tagMem EXCEPT ![w] = Entry(req.tag, "E")]

\* Nothing else happens to the tags.
LEMMA TagCases ==
  ASSUME TypeOK, ScriptInv, NEW take, TagMem(Granted(take))
  PROVE  LET g == Granted(take) IN
         \/ Keeps
         \/ /\ take = None /\ cmdSt = "ready" /\ g.tag
            /\ \/ \E t \in Tag, w \in Way : Loses(t, w)
               \/ \E st \in {"S", "E"} : Gets(st) /\ CmdIs({"ST"})
               \/ \E w \in Way : Upgrades(w) /\ CmdIs({"STW"})
<1> DEFINE g == Granted(take)
<1>1. CASE ~g.tag
  BY <1>1, TagEffect DEF Keeps
<1>2. CASE g.tag /\ cmd.op = "INV"
  <2>1. /\ take = None /\ cmdSt = "ready" /\ "invalidated" \notin done
        /\ tagMem' = [tagMem EXCEPT ![cmd.way] = Invalid]
    BY <1>2, TagEffect
  <2>2. PICK t \in Tag, w \in Way :
          cmd = Inv(t, w) /\ (ToInvalidate(t, w) \/ Invalidated(t, w))
    BY <1>2, HeadInv
  <2>3. ~Invalidated(t, w)
    <3>1. cmd # None /\ cmd.op = "INV"
      BY <1>2, CommandFacts
    <3>2. ~Left(<<Wback(t, w)>>) /\ ~Left(<<Transfer(t, w), Wback(t, w)>>)
      BY <3>1, LeftOne, LeftTwo, CommandFacts
    <3>3. done # {"invalidated"}
      BY <2>1
    <3> QED BY <3>2, <3>3 DEF Invalidated
  <2>4. cmd.way = w
    BY <2>2, CommandFacts
  <2>5. ~serving /\ NotAwaited
    BY <1>2, HeadInv
  <2>6. Loses(t, w)
    BY <2>1, <2>2, <2>3, <2>4, <2>5 DEF Loses
  <2> QED BY <1>2, <2>1, <2>6
<1>3. CASE g.tag /\ cmd.op = "ST"
  <2>1. /\ take = None /\ cmdSt = "ready" /\ cmd # None
        /\ tagMem' = [tagMem EXCEPT ![cmd.way] = Entry(cmd.tag, cmd.st)]
    BY <1>3, TagEffect
  <2>2. PICK st \in {"S", "E"} : cmd = SetTag(st)
    BY <1>3, HeadSt
  <2>3. serving /\ Filling /\ TagAwaited /\ todo = <<>> /\ req \in Misses
    BY <1>3, HeadSt DEF TypeOK
  <2>4. tagMem' = [tagMem EXCEPT ![req.way] = Entry(req.tag, st)]
    <3>1. cmd.way = req.way /\ cmd.tag = req.tag /\ cmd.st = st
      BY <2>2, CommandFacts
    <3> QED BY <2>1, <3>1
  <2>5. req.way \in Way /\ req.tag \in Tag
    BY <2>3 DEF Misses
  <2>6. Gets(st) /\ CmdIs({"ST"})
    BY <1>3, <2>1, <2>2, <2>3, <2>4, <2>5 DEF Gets, CmdIs
  <2> QED BY <1>3, <2>1, <2>6
<1>4. CASE g.tag /\ cmd.op = "STW"
  <2>1. /\ take = None /\ cmdSt = "ready" /\ cmd # None
        /\ tagMem' = [tagMem EXCEPT ![cmd.way] = Entry(cmd.tag, cmd.st)]
    BY <1>4, TagEffect
  <2>2. PICK w \in Way : /\ cmd = Command("STW", req.tag, w, "E")
                         /\ tagMem[w] = Entry(req.tag, "S")
    BY <1>4, HeadStw
  <2>3. serving /\ NotAwaited /\ reqSt = "sleep" /\ todo = <<>> /\ req \in Misses
    BY <1>4, HeadStw DEF TypeOK
  <2>4. cmd.way = w /\ cmd.tag = req.tag /\ cmd.st = "E"
    BY <2>2, CommandFacts
  <2>5. tagMem' = [tagMem EXCEPT ![w] = Entry(req.tag, "E")]
    BY <2>1, <2>4
  <2>6. req.tag \in Tag
    BY <2>3 DEF Misses
  <2>7. Upgrades(w) /\ CmdIs({"STW"})
    BY <1>4, <2>1, <2>2, <2>3, <2>5, <2>6 DEF Upgrades, CmdIs
  <2> QED BY <1>4, <2>1, <2>7
<1> QED BY <1>1, <1>2, <1>3, <1>4, TagEffect

\* No two ways get the same block.
LEMMA UniqueStep ==
  ASSUME TypeOK, ScriptInv, UniqueTags, NEW take, TagMem(Granted(take))
  PROVE  UniqueTags'
<1>1. tagMem \in [Way -> Entries]
  BY DEF TypeOK
<1>2. CASE Keeps
  BY <1>2 DEF Keeps, UniqueTags, Holds
<1>3. CASE \E t \in Tag, w \in Way : Loses(t, w)
  BY <1>1, <1>3, EntryFacts DEF Loses, UniqueTags, Holds
<1>4. CASE \E st \in {"S", "E"} : Gets(st)
  <2>1. PICK st \in {"S", "E"} : Gets(st)
    BY <1>4
  <2>2. Gone(req.tag)
    BY <2>1 DEF Gets, TagAwaited
  <2> QED BY <1>1, <2>1, <2>2, EntryFacts DEF Gets, UniqueTags, Holds, Gone
<1>5. CASE \E w \in Way : Upgrades(w)
  <2>1. PICK w \in Way : Upgrades(w)
    BY <1>5
  <2>2. \A v \in Way, t \in Tag : Holds(v, t)' <=> Holds(v, t)
    BY <1>1, <2>1, EntryFacts DEF Upgrades, Holds
  <2> QED BY <2>2 DEF UniqueTags
<1> QED BY <1>2, <1>3, <1>4, <1>5, TagCases

\* What is left is pending, also after a step.
LEMMA LeftPends ==
  /\ \A a : Left(<<a>>) => Pending(a)
  /\ \A a, b : Left(<<a, b>>) => Pending(a) /\ Pending(b)
  /\ \A a, b, c : Left(<<a, b, c>>) => Pending(a) /\ Pending(b) /\ Pending(c)
<1>1. ASSUME NEW a, Left(<<a>>) PROVE Pending(a)
  BY <1>1, LeftOne DEF Pending
<1>2. ASSUME NEW a, NEW b, Left(<<a, b>>) PROVE Pending(a) /\ Pending(b)
  BY <1>2, LeftTwo DEF Pending
<1>3. ASSUME NEW a, NEW b, NEW c, Left(<<a, b, c>>)
      PROVE  Pending(a) /\ Pending(b) /\ Pending(c)
  BY <1>3, LeftThree DEF Pending
<1> QED BY <1>1, <1>2, <1>3

\* A command that is asked for stays so until it is done.
LEMMA PendingKept ==
  ASSUME TypeOK, CmdInv, NEW g, NEW rdy, Cce(g, rdy), NEW c, c # None,
         Pending(c), ~(cmd = c /\ CmdDone(g, rdy))
  PROVE  Pending(c)'
<1>1. ~CceIdle
  BY DEF CceIdle, Pending
<1>2. Receives(g, rdy)
  BY <1>1, CceReceives
<1>3. todo \in Seq(Commands)
  BY DEF TypeOK
<1>4. CASE cmd = c
  <2>1. CmdLeft(g, rdy) = c
    BY <1>4 DEF CmdLeft
  <2>2. cmd' = c
    BY <1>2, <2>1 DEF Receives
  <2> QED BY <2>2 DEF Pending
<1>5. CASE \E i \in DOMAIN todo : todo[i] = c
  <2>1. PICK i \in DOMAIN todo : todo[i] = c
    BY <1>5
  <2>2. CASE todo' = todo
    BY <2>1, <2>2 DEF Pending
  <2>3. CASE todo # <<>> /\ cmd' = Head(todo) /\ todo' = Tail(todo)
    <3>1. CASE i = 1
      BY <1>3, <2>1, <2>3, <3>1 DEF Pending
    <3>2. CASE i # 1
      <4>1. i \in 1 .. Len(todo) /\ Len(todo) \in Nat /\ i - 1 \in 1 .. Len(todo) - 1
        BY <1>3, <2>1, <3>2
      <4>2. Len(todo') = Len(todo) - 1 /\ todo' \in Seq(Commands)
            /\ \A j \in 1 .. Len(todo') : todo'[j] = todo[j + 1]
        BY <1>3, <2>3, HeadTailProperties
      <4>3. i - 1 \in DOMAIN todo' /\ todo'[i - 1] = c
        BY <2>1, <4>1, <4>2
      <4> QED BY <4>3 DEF Pending
    <3> QED BY <3>1, <3>2
  <2> QED BY <1>2, <2>2, <2>3 DEF Receives
<1> QED BY <1>4, <1>5 DEF Pending

\* So does a writeback.
LEMMA WbKept ==
  ASSUME TypeOK, CmdInv, NEW g, NEW rdy, Cce(g, rdy), NEW t, NEW w,
         WbAsked(t, w), ~(cmd = Wback(t, w) /\ CmdDone(g, rdy))
  PROVE  WbAsked(t, w)'
<1> DEFINE c == Wback(t, w)
<1>1. c # None /\ c' = c
  BY CommandFacts DEF Wback, Command
<1>2. Pending(c)
  BY DEF WbAsked
<1> HIDE DEF c
<1>3. Pending(c)'
  BY <1>1, <1>2, PendingKept DEF c
<1> QED BY <1>1, <1>3 DEF WbAsked, c, Wback, Command

\* What is newly asked for is an exclusive block.
LEMMA WbNew ==
  ASSUME TypeOK, CmdInv, NEW g, NEW rdy, Cce(g, rdy), NEW t \in Tag, NEW w \in Way,
         WbAsked(t, w)', ~WbAsked(t, w)
  PROVE  CceIdle /\ tagMem[w] = Entry(t, "E")
<1> DEFINE c == Wback(t, w)
<1>1. c # None /\ c' = c /\ c.op = "WB"
  BY CommandFacts DEF Wback, Command
<1>2. Pending(c)' /\ ~Pending(c)
  BY <1>1 DEF WbAsked, Wback, Command
<1>3. todo \in Seq(Commands)
  BY DEF TypeOK
<1>4. CceIdle
  <2> SUFFICES ASSUME ~CceIdle PROVE FALSE
    OBVIOUS
  <2> HIDE DEF c
  <2>1. Receives(g, rdy)
    BY CceReceives
  <2>2. CASE cmd' = CmdLeft(g, rdy) /\ todo' = todo
    BY <1>1, <1>2, <2>2 DEF Pending, CmdLeft
  <2>3. CASE todo # <<>> /\ cmd' = Head(todo) /\ todo' = Tail(todo)
    <3>1. cmd' # c
      <4>1. Head(todo) = todo[1] /\ 1 \in DOMAIN todo
        BY <1>3, <2>3, EmptySeq, HeadTailProperties
      <4> QED BY <1>2, <2>3, <4>1 DEF Pending
    <3>2. PICK i \in DOMAIN todo' : todo'[i] = c
      BY <1>1, <1>2, <3>1 DEF Pending
    <3>3. Len(todo') = Len(todo) - 1 /\ todo' \in Seq(Commands) /\ Len(todo) \in Nat
          /\ \A j \in 1 .. Len(todo') : todo'[j] = todo[j + 1]
      BY <1>3, <2>3, HeadTailProperties
    <3>4. i + 1 \in DOMAIN todo /\ todo[i + 1] = c
      BY <1>3, <3>2, <3>3
    <3> QED BY <1>2, <3>4 DEF Pending
  <2> QED BY <2>1, <2>2, <2>3 DEF Receives
<1>5. cmd' = None
  <2>1. cmd = None /\ todo = <<>>
    BY <1>4 DEF CceIdle
  <2> QED BY <2>1 DEF Cce, CceWaits, CceCommands, CceFills, CceTakes, CceServes,
         Receive, CmdLeft
<1>6. PICK i \in DOMAIN todo' : todo'[i] = c
  BY <1>1, <1>2, <1>5 DEF Pending
<1>7. CASE CceTakes(g, rdy)
  <2>1. PICK v \in Way : /\ tagMem[v].st # "I"
                       /\ todo' \in IF tagMem[v].st = "S" THEN {<<Inv(tagMem[v].tag, v)>>}
                          ELSE {<<Inv(tagMem[v].tag, v), Wback(tagMem[v].tag, v)>>,
                                <<Inv(tagMem[v].tag, v), Transfer(tagMem[v].tag, v),
                                  Wback(tagMem[v].tag, v)>>}
    BY <1>7 DEF CceTakes, Inv, Wback, Transfer
  <2> DEFINE x == Inv(tagMem[v].tag, v)
             y == Transfer(tagMem[v].tag, v)
             z == Wback(tagMem[v].tag, v)
  <2>2. x.op # "WB" /\ y.op # "WB" /\ z.way = v /\ z.tag = tagMem[v].tag
    BY CommandFacts
  <2>3. \/ todo' = <<x>>
        \/ tagMem[v].st # "S" /\ todo' \in {<<x, z>>, <<x, y, z>>}
    BY <2>1
  <2>4. c.way = w /\ c.tag = t
    BY CommandFacts
  <2> HIDE DEF x, y, z, c
  <2>5. tagMem[v].st # "S" /\ c = z
    BY <1>1, <1>6, <2>2, <2>3
  <2> QED BY <1>4, <2>1, <2>2, <2>4, <2>5, EntryFacts
<1>8. CASE CceServes(g, rdy)
  <2>1. req \in Misses
    BY <1>8 DEF CceServes, TypeOK
  <2> DEFINE z == Wback(tagMem[req.way].tag, req.way)
             evict == IF tagMem[req.way].st = "E" /\ req.dirty
                      THEN <<z>> ELSE <<>>
  <2>2. \/ \E v \in Way : todo' = <<Command("STW", req.tag, v, "E")>>
        \/ \E st \in {"S", "E"} : todo' = Append(evict, SetTag(st))
    BY <1>8 DEF CceServes, Wback, SetTag
  <2>3. \A v, st : Command("STW", req.tag, v, "E").op # "WB" /\ SetTag(st).op # "WB"
    BY CommandFacts
  <2>4. c.way = w /\ c.tag = t /\ z.way = req.way /\ z.tag = tagMem[req.way].tag
    BY CommandFacts
  <2>5. \A v : todo' # <<Command("STW", req.tag, v, "E")>>
    BY <1>1, <1>6, <2>3
  <2>6. PICK st \in {"S", "E"} : todo' = Append(evict, SetTag(st))
    BY <2>2, <2>5
  <2> HIDE DEF c, z
  <2>7. tagMem[req.way].st = "E" /\ c = z
    <3>1. CASE tagMem[req.way].st = "E" /\ req.dirty
      <4>1. todo' = <<z, SetTag(st)>>
        BY <2>6, <3>1, AppendFacts
      <4> QED BY <1>1, <1>6, <2>3, <3>1, <4>1
    <3>2. CASE ~(tagMem[req.way].st = "E" /\ req.dirty)
      <4>1. todo' = <<SetTag(st)>>
        BY <2>6, <3>2, AppendFacts
      <4> QED BY <1>1, <1>6, <2>3, <4>1
    <3> QED BY <3>1, <3>2
  <2> QED BY <1>4, <2>1, <2>4, <2>7, EntryFacts DEF Misses
<1>9. CASE todo' = todo
  BY <1>4, <1>6, <1>9 DEF CceIdle
<1> QED BY <1>4, <1>7, <1>8, <1>9 DEF Cce, CceWaits, CceCommands, CceFills, CceIdle

\* The access in TL sees an invalidation of the cycle in which it moves on.
LEMMA TagsStep ==
  ASSUME TypeOK, CacheInv, NEW take, NEW psn, NEW rdy, Tick(take, psn, rdy)
  PROVE  PipeTags'
<1> PICK g : g = Granted(take)
  OBVIOUS
<1>1. /\ CmdInv /\ ScriptInv /\ PipeTags /\ UniqueTags /\ ReqInv /\ PipeEmptyInMiss
  BY DEF CacheInv
<1>2. /\ TlStage(take) /\ TvStage(psn) /\ TagMem(Granted(take))
      /\ LceCmd(g, rdy) /\ Cce(g, rdy)
  BY TickParts
<1>3. tl' # None => tagOut' = tagMem'
  <2>1. take # None => tagMem' = tagMem
    BY <1>2, TagEffect
  <2> QED BY <1>2, <2>1 DEF TlStage, Taken
<1>4. ASSUME tv' # None PROVE tv'.tags = tagMem' \/ \E w \in Way : Overtaken(w)'
  <2>1. tl # None
    BY <1>2, <1>4 DEF TvStage
  <2>2. tv'.tags = tagMem
    <3>1. tagOut = tagMem
      BY <1>1, <2>1 DEF PipeTags
    <3> QED BY <1>2, <1>4, <2>1, <3>1 DEF TvStage
  <2>3. ~serving
    BY <1>1, <2>1, PipeUsed
  <2>4. CASE Keeps
    BY <2>2, <2>4 DEF Keeps
  <2>5. CASE ~Keeps
    <3>1. take = None /\ cmdSt = "ready"
      BY <1>1, <1>2, <2>5, TagCases
    <3>2. PICK t \in Tag, w \in Way : Loses(t, w)
      BY <1>1, <1>2, <2>3, <2>5, TagCases DEF Gets, Upgrades
    <3>3. tl' = None
      BY <1>2, <3>1 DEF TlStage
    <3>4. cmd.op = "INV" /\ cmd # None
      BY <3>2, CommandFacts DEF Loses
    <3>5. cmdSt' = "ready"
      BY <1>1, <1>2, <3>4, CmdMoves
    <3>6. tagMem[w].tag = t /\ tagMem[w].st # "I"
      BY <3>2, EntryFacts DEF Loses, ToInvalidate
    <3>7. tagMem'[w] = Invalid /\ Gone(t)'
      BY <1>1, <3>2, <3>6, InvalidateGone DEF Loses
    <3>8. \A v \in Way \ {w} : tv'.tags[v] = tagMem'[v]
      BY <2>2, <3>2 DEF Loses, TypeOK
    <3>9. tagMem[w].st = "E" => WbAsked(t, w)'
      <4> SUFFICES ASSUME tagMem[w].st = "E" PROVE WbAsked(t, w)'
        OBVIOUS
      <4>1. tagMem[w] # Entry(t, "S")
        BY EntryFacts
      <4>2. WbAsked(t, w)
        BY <3>2, <4>1, LeftPends DEF Loses, ToInvalidate, WbAsked
      <4>3. cmd # Wback(t, w)
        BY <3>4, CommandFacts
      <4> QED BY <1>1, <1>2, <4>2, <4>3, WbKept
    <3>10. Overtaken(w)'
      BY <2>2, <3>3, <3>5, <3>6, <3>7, <3>8, <3>9 DEF Overtaken, Invalid
    <3> QED BY <3>10
  <2> QED BY <2>4, <2>5
<1> QED BY <1>3, <1>4 DEF PipeTags
-----------------------------------------------------------------------------
(* The stores.                                                             *)

\* Where a block is that is to be written back.
LEMMA WbIs ==
  ASSUME TypeOK, ScriptInv, NEW t \in Tag, NEW w \in Way, WbAsked(t, w)
  PROVE  /\ \A u, v : WbAsked(u, v) => u = t /\ v = w
         /\ \/ tagMem[w] = Entry(t, "E")
            \/ ~serving /\ NotAwaited /\ tagMem[w] = Invalid /\ Gone(t)
         /\ serving => Evicting /\ w = req.way
<1>1. /\ \A u, v : Wback(u, v) # None /\ Wback(u, v).op = "WB"
                   /\ Wback(u, v).tag = u /\ Wback(u, v).way = v
      /\ \A u, v : Inv(u, v).op = "INV" /\ Transfer(u, v).op = "TR"
      /\ \A st, v : SetTag(st).op = "ST" /\ Command("STW", req.tag, v, "E").op = "STW"
  BY CommandFacts
<1>2. CASE serving
  <2>1. ~Upgrading
    <3> SUFFICES ASSUME Upgrading PROVE FALSE
      OBVIOUS
    <3>1. PICK v \in Way : Left(<<Command("STW", req.tag, v, "E")>>)
      BY DEF Upgrading
    <3>2. Wback(t, w) = Command("STW", req.tag, v, "E")
      BY <1>1, <3>1, PendingOne DEF WbAsked
    <3> QED BY <1>1, <3>2
  <2>2. ~Filling
    <3> SUFFICES ASSUME Filling PROVE FALSE
      OBVIOUS
    <3>1. ~TagCame
      BY <1>1, PendingNone DEF WbAsked, TagCame
    <3>2. PICK st \in {"S", "E"} : Left(<<SetTag(st)>>)
      BY <3>1 DEF Filling, TagAwaited
    <3>3. Wback(t, w) = SetTag(st)
      BY <1>1, <3>2, PendingOne DEF WbAsked
    <3> QED BY <1>1, <3>3
  <2>3. Evicting
    BY <1>2, <2>1, <2>2 DEF ScriptInv
  <2>4. PICK s \in Tag, st \in {"S", "E"} :
          /\ Left(<<Wback(s, req.way), SetTag(st)>>)
          /\ tagMem[req.way] = Entry(s, "E")
    BY <2>3 DEF Evicting
  <2>5. \A u, v : WbAsked(u, v) => u = s /\ v = req.way
    <3> SUFFICES ASSUME NEW u, NEW v, WbAsked(u, v) PROVE u = s /\ v = req.way
      OBVIOUS
    <3>1. Wback(u, v) \in {Wback(s, req.way), SetTag(st)}
      BY <1>1, <2>4, PendingTwo DEF WbAsked
    <3>2. Wback(u, v) = Wback(s, req.way)
      BY <1>1, <3>1
    <3> QED BY <1>1, <3>2
  <2> QED BY <1>2, <2>3, <2>4, <2>5
<1>3. CASE ~serving
  <2>1. NotAwaited /\ BeingTaken
    <3>1. ~CceIdle
      BY <1>1, PendingNone DEF WbAsked, CceIdle
    <3> QED BY <1>3, <3>1 DEF ScriptInv
  <2>2. PICK s \in Tag, x \in Way : ToInvalidate(s, x) \/ Invalidated(s, x)
    BY <2>1 DEF BeingTaken
  <2> DEFINE I == Inv(s, x)
             T == Transfer(s, x)
             W == Wback(s, x)
  <2>3. \A u, v : WbAsked(u, v) => Wback(u, v) = W
    <3> SUFFICES ASSUME NEW u, NEW v, WbAsked(u, v) PROVE Wback(u, v) = W
      OBVIOUS
    <3> DEFINE c == Wback(u, v)
    <3>1. c # None /\ c \notin {I, T} /\ Pending(c)
      BY <1>1 DEF WbAsked
    <3>2. \/ Left(<<I>>) \/ Left(<<I, W>>) \/ Left(<<I, T, W>>)
          \/ Left(<<T, W>>) \/ Left(<<W>>)
      BY <2>2 DEF ToInvalidate, Invalidated
    <3> HIDE DEF c, I, T, W
    <3> QED BY <3>1, <3>2, PendingOne, PendingTwo, PendingThree DEF c
  <2>4. \A u, v : WbAsked(u, v) => u = s /\ v = x
    BY <1>1, <2>3
  <2>5. s = t /\ x = w
    BY <2>4
  <2>6. ToInvalidate(s, x) => tagMem[x] = Entry(s, "E")
    <3>1. ~Left(<<I>>)
      <4> SUFFICES ASSUME Left(<<I>>) PROVE FALSE
        OBVIOUS
      <4>1. Wback(t, w) = I
        BY <1>1, PendingOne DEF WbAsked
      <4> QED BY <1>1, <4>1
    <3> QED BY <3>1 DEF ToInvalidate
  <2> QED BY <1>3, <2>1, <2>2, <2>4, <2>5, <2>6 DEF Invalidated
<1> QED BY <1>2, <1>3

\* A store that hits writes to a block that has not left: also one that an
\* invalidation has overtaken.
LEMMA HitHome ==
  ASSUME TypeOK, CacheInv, StoreHit
  PROVE  /\ tv.tag \in Tag /\ StoreHitWay \in Way /\ ~serving /\ NotAwaited
         /\ Home(tv.tag, StoreHitWay)
         /\ cmd.op \in {"TR", "WB"} /\ cmd.tag = tv.tag => cmdSt = "ready"
<1> DEFINE t == tv.tag
           w == StoreHitWay
<1>1. tv # None /\ t \in Tag /\ w \in Way /\ tv.tags[w] = Entry(t, "E")
  BY HitFacts DEF InTvStores
<1>2. ~serving /\ NotAwaited
  BY <1>1, PipeUsed DEF CacheInv
<1>3. \/ tagMem[w] = Entry(t, "E")
      \/ WbAsked(t, w) /\ cmdSt = "ready"
  <2>1. tv.tags = tagMem \/ \E v \in Way : Overtaken(v)
    BY <1>1 DEF CacheInv, PipeTags
  <2>2. ASSUME NEW v \in Way, Overtaken(v)
        PROVE  tagMem[w] = Entry(t, "E") \/ (WbAsked(t, w) /\ cmdSt = "ready")
    <3>1. CASE v = w
      BY <1>1, <2>2, <3>1, EntryFacts DEF Overtaken
    <3>2. CASE v # w
      BY <1>1, <2>2, <3>2 DEF Overtaken
    <3> QED BY <3>1, <3>2
  <2> QED BY <1>1, <2>1, <2>2
<1>4. cmd.op \in {"TR", "WB"} /\ cmd.tag = t => tagMem[w] # Entry(t, "E")
  <2> SUFFICES ASSUME cmd.op \in {"TR", "WB"}, cmd.tag = t, tagMem[w] = Entry(t, "E")
               PROVE  FALSE
    OBVIOUS
  <2>1. PICK x \in Way : Invalidated(t, x)
    BY <1>2, HeadTr, HeadWb, CommandFacts DEF CacheInv
  <2>2. Holds(w, t)
    BY EntryFacts DEF Holds
  <2> QED BY <1>1, <2>1, <2>2 DEF Invalidated, Gone
<1> QED BY <1>1, <1>2, <1>3, <1>4 DEF Home

\* A block does not leave its place before it has been written back.
LEMMA HomeStep ==
  ASSUME TypeOK, CmdInv, ScriptInv, NEW take, NEW g, g = Granted(take), NEW rdy,
         TagMem(Granted(take)), Cce(g, rdy),
         NEW t \in Tag, NEW w \in Way, Home(t, w), t \in unsaved \/ ~serving,
         ~(cmd = Wback(t, w) /\ CmdDone(g, rdy))
  PROVE  Home(t, w)'
<1>1. CASE WbAsked(t, w)
  BY <1>1, WbKept DEF Home
<1>2. CASE tagMem[w] = Entry(t, "E") /\ ~WbAsked(t, w)
  <2>1. tagMem \in [Way -> Entries]
    BY DEF TypeOK
  <2>2. \A s \in Tag, x \in Way : Loses(s, x) => x # w
    <3> SUFFICES ASSUME NEW s \in Tag, Loses(s, w) PROVE FALSE
      OBVIOUS
    <3>1. s = t /\ tagMem[w] # Entry(s, "S")
      BY <1>2, EntryFacts DEF Loses, ToInvalidate
    <3>2. WbAsked(t, w)
      BY <3>1, LeftPends DEF Loses, ToInvalidate, WbAsked
    <3> QED BY <1>2, <3>2
  <2>3. \A st \in {"S", "E"} : Gets(st) => req.way # w
    BY <1>2, EntryFacts DEF Gets, TagAwaited
  <2>4. \A x \in Way : Upgrades(x) => x # w
    BY <1>2, EntryFacts DEF Upgrades
  <2>5. tagMem'[w] = tagMem[w]
    <3>1. CASE Keeps
      BY <3>1 DEF Keeps
    <3>2. CASE \E s \in Tag, x \in Way : Loses(s, x)
      BY <2>1, <2>2, <3>2 DEF Loses
    <3>3. CASE \E st \in {"S", "E"} : Gets(st)
      BY <2>1, <2>3, <3>3 DEF Gets
    <3>4. CASE \E x \in Way : Upgrades(x)
      BY <2>1, <2>4, <3>4 DEF Upgrades
    <3> QED BY <3>1, <3>2, <3>3, <3>4, TagCases
  <2> QED BY <1>2, <2>5 DEF Home, Entry
<1> QED BY <1>1, <1>2 DEF Home

\* The block of a writeback is at home in its way only, and alone there.
LEMMA HomeOfWb ==
  ASSUME TypeOK, ScriptInv, UniqueTags, cmd.op = "WB",
         NEW t \in Tag, NEW w \in Way, Home(t, w)
  PROVE  /\ cmd = Wback(cmd.tag, cmd.way) /\ cmd.tag \in Tag /\ cmd.way \in Way
         /\ WbAsked(cmd.tag, cmd.way)
         /\ t = cmd.tag <=> w = cmd.way
<1>1. PICK s \in Tag, x \in Way : cmd = Wback(s, x)
  BY HeadWb
<1>2. cmd.tag = s /\ cmd.way = x
  BY <1>1, CommandFacts
<1>3. WbAsked(s, x)
  BY <1>1 DEF WbAsked, Pending
<1>4. WbAsked(t, w) => t = s /\ w = x
  BY <1>3, WbIs
<1>5. tagMem[w] = Entry(t, "E") => (t = s <=> w = x)
  <2> SUFFICES ASSUME tagMem[w] = Entry(t, "E") PROVE t = s <=> w = x
    OBVIOUS
  <2>1. Holds(w, t)
    BY EntryFacts DEF Holds
  <2>2. CASE tagMem[x] = Entry(s, "E")
    <3>1. Holds(x, s)
      BY <2>2, EntryFacts DEF Holds
    <3> QED BY <2>1, <2>2, <3>1, EntryFacts DEF UniqueTags
  <2>3. CASE tagMem[x] = Invalid /\ Gone(s)
    BY <2>1, <2>3, EntryFacts DEF Gone
  <2> QED BY <1>3, <2>2, <2>3, WbIs
<1> QED BY <1>1, <1>2, <1>3, <1>4, <1>5 DEF Home

\* When a writeback is done.
LEMMA WbDone ==
  ASSUME CmdInv, NEW g, NEW rdy, CmdDone(g, rdy), cmd.op = "WB"
  PROVE  /\ \/ WroteBack(g, rdy) /\ BlockOut /\ cmdSt = "wb_dirty"
            \/ WroteNull(rdy) /\ ~WroteBack(g, rdy) /\ cmdSt = "wb_not_dirty"
BY DEF CmdDone, SetsTag, CmdIs, InvAcked, Transferred, CmdInv, WroteBack, WroteNull, BlockOut

\* Stores are not forgotten.
LEMMA StoresStep ==
  ASSUME TypeOK, CacheInv, AnswersAreCurrent,
         NEW take, NEW psn, NEW rdy, Tick(take, psn, rdy)
  PROVE  StoresKnown'
<1> PICK g : g = Granted(take)
  OBVIOUS
<1>1. /\ CmdInv /\ ScriptInv /\ UniqueTags /\ StoresKnown
  BY DEF CacheInv
<1>2. /\ TagMem(Granted(take)) /\ StatMem(take, Granted(take))
      /\ LceCmd(g, rdy) /\ Cce(g, rdy) /\ History(g, rdy)
  BY TickParts
<1>3. unsaved \subseteq Tag /\ dirty \in [Way -> BOOLEAN]
  BY DEF TypeOK
<1> SUFFICES ASSUME NEW t \in unsaved'
             PROVE  \E w \in Way :
                      /\ Home(t, w)'
                      /\ dirty'[w] \/ (cmd' = Wback(t, w) /\ cmdSt' = "wb_dirty")
  BY DEF StoresKnown, Wback, Command
<1>4. /\ \/ StoreHit /\ t = tv.tag
         \/ t \in unsaved
      /\ WroteBack(g, rdy) => t # cmd.tag
  BY <1>2 DEF History
<1>5. CASE StoreHit /\ t = tv.tag
  <2> PICK w : w = StoreHitWay
    OBVIOUS
  <2>1. t \in Tag /\ w \in Way /\ ~serving /\ Home(t, w)
        /\ (cmd.op = "WB" /\ cmd.tag = t => cmdSt = "ready")
    BY <1>5, HitHome
  <2>2. ~(cmd = Wback(t, w) /\ CmdDone(g, rdy))
    BY <1>1, <2>1, WbDone, CommandFacts
  <2>3. Home(t, w)'
    BY <1>1, <1>2, <2>1, <2>2, HomeStep
  <2>4. dirty'[w]
    BY <1>2, <1>3, <1>5, <2>1, DirtyFacts
  <2> QED BY <2>1, <2>3, <2>4
<1>6. CASE t \in unsaved
  <2>1. PICK w \in Way : /\ Home(t, w)
                         /\ dirty[w] \/ (cmd = Wback(t, w) /\ cmdSt = "wb_dirty")
    BY <1>1, <1>6 DEF StoresKnown
  <2>2. ~(cmd = Wback(t, w) /\ CmdDone(g, rdy))
    <3> SUFFICES ASSUME cmd = Wback(t, w), CmdDone(g, rdy) PROVE FALSE
      OBVIOUS
    <3>1. cmd.op = "WB" /\ cmd.tag = t
      BY CommandFacts
    <3>2. cmdSt = "wb_not_dirty"
      BY <1>1, <1>4, <3>1, WbDone
    <3> QED BY <1>6, <3>1, <3>2 DEF AnswersAreCurrent
  <2>3. Home(t, w)'
    BY <1>1, <1>2, <1>3, <1>6, <2>1, <2>2, HomeStep
  <2>4. ASSUME cmd = Wback(t, w), cmdSt = "wb_dirty"
        PROVE  cmd' = Wback(t, w) /\ cmdSt' = "wb_dirty"
    <3>1. cmd # None /\ ~CmdDone(g, rdy)
      BY <2>2, <2>4, CommandFacts
    <3>2. cmd' = cmd
      BY <1>2, <3>1, CmdStays
    <3>3. CmdWbDirty(g, rdy) /\ ~WroteBack(g, rdy)
      BY <1>2, <2>4, <3>1 DEF LceCmd, CmdReady, CmdTransfer, CmdWb, CmdWbNotDirty, CmdDone
    <3> QED BY <2>4, <3>2, <3>3 DEF CmdWbDirty
  <2>5. CASE cmd = Wback(t, w) /\ cmdSt = "wb_dirty"
    BY <2>3, <2>4, <2>5
  <2>6. CASE dirty[w] /\ dirty'[w]
    BY <2>3, <2>6
  <2>7. CASE dirty[w] /\ ~dirty'[w]
    <3>1. ClearsDirty(g.data) /\ w = cmd.way
      BY <1>2, <2>7, DirtyFacts
    <3>2. cmdSt = "wb_dirty" /\ cmd.op = "WB"
      BY <1>1, <3>1 DEF ClearsDirty, CmdInv
    <3>3. cmd = Wback(t, w)
      BY <1>1, <1>3, <1>6, <2>1, <3>1, <3>2, HomeOfWb
    <3> QED BY <2>3, <2>4, <3>2, <3>3
  <2> QED BY <2>1, <2>5, <2>6, <2>7
<1> QED BY <1>4, <1>5, <1>6

\* The dirty bit that a writeback looks at is the one it has read.
LEMMA DirtyReadStep ==
  ASSUME TypeOK, CmdInv, NEW take, NEW psn, NEW rdy, Tick(take, psn, rdy)
  PROVE  DirtyRead'
<1> PICK g : g = Granted(take)
  OBVIOUS
<1>1. /\ StatMem(take, Granted(take)) /\ LceCmd(g, rdy)
  BY TickParts
<1> SUFFICES ASSUME cmdSt' = "wb" PROVE dirty'[cmd'.way] => dirtyOut'[cmd'.way]
  BY DEF DirtyRead
<1>2. CmdReady(g, rdy) /\ ReadsStat /\ g.stat
  BY <1>1 DEF LceCmd, CmdReady, CmdTransfer, CmdWb, CmdWbDirty, CmdWbNotDirty, Finish, cmdFsm
<1>3. ~StoreHit
  BY <1>2, GrantFacts, AccessFacts DEF StoreHit
<1>4. ~ClearsDirty(g.data)
  BY <1>2 DEF CmdReady, ClearsDirty
<1>5. dirty' = dirty /\ dirtyOut' = dirty
  BY <1>1, <1>2, <1>3, <1>4 DEF StatMem
<1> QED BY <1>5

\* When the block of a command is out: it was, or it is read in this cycle.
LEMMA OutMoves ==
  ASSUME TypeOK, CmdInv, NEW take, NEW g, g = Granted(take), NEW rdy,
         LceCmd(g, rdy), Cce(g, rdy), BlockOut'
  PROVE  /\ cmd' = cmd /\ ~CmdDone(g, rdy) /\ cmd # None
         /\ cmd.op \in {"TR", "WB"}
         /\ \/ BlockOut /\ "buffered" \in done' /\ buf' = BlockSent
            \/ /\ ReadGranted(g) /\ "buffered" \notin done'
               /\ Buffered = <<>> /\ fill = None /\ ~IsLoad(take)
<1>1. ~CmdDone(g, rdy) /\ cmd # None
  BY CmdMoves DEF BlockOut
<1>2. cmd' = cmd
  BY <1>1, CmdStays
<1>3. ReadGranted(g) => Buffered = <<>> /\ fill = None /\ ~IsLoad(take) /\ CmdReads
  BY GrantFacts
<1>4. CASE CmdReady(g, rdy)
  <2>1. CmdIs({"TR"}) /\ ReadGranted(g)
    BY <1>4 DEF CmdReady, BlockOut
  <2>2. cmd.op = "TR" /\ ~InvAcked(g, rdy)
    BY <2>1 DEF CmdIs, InvAcked
  <2>3. done' = done /\ done = {}
    BY <1>4, <2>2 DEF CmdReady, CmdIs, CmdInv
  <2> QED BY <1>1, <1>2, <1>3, <2>1, <2>2, <2>3
<1>5. CASE CmdTransfer(rdy)
  <2>1. cmdSt = "tr" /\ done' = {"buffered"} /\ buf' = BlockSent
    BY <1>1, <1>5 DEF CmdTransfer, Transferred, CmdDone
  <2> QED BY <1>1, <1>2, <2>1 DEF CmdInv, BlockOut
<1>6. CASE CmdWb
  BY <1>6 DEF CmdWb, BlockOut, CmdInv
<1>7. CASE CmdWbDirty(g, rdy)
  <2>1. /\ cmdSt = "wb_dirty" /\ cmdSt' = "wb_dirty"
        /\ done' = done \cup (IF ReadGranted(g) THEN {"read"} ELSE {})
                        \cup (IF "read" \in done THEN {"buffered"} ELSE {})
                        \cup (IF g.stat THEN {"cleared"} ELSE {})
        /\ buf' = IF "read" \in done THEN BlockSent ELSE buf
    BY <1>1, <1>7 DEF CmdWbDirty, CmdDone
  <2>2. cmd.op = "WB" /\ ("buffered" \in done => "read" \in done)
    BY <2>1 DEF CmdInv
  <2>3. CASE "read" \in done
    BY <1>1, <1>2, <2>1, <2>2, <2>3 DEF BlockOut
  <2>4. CASE "read" \notin done
    <3>1. ReadGranted(g)
      BY <2>1, <2>4 DEF BlockOut
    <3> QED BY <1>1, <1>2, <1>3, <2>1, <2>2, <2>4, <3>1
  <2> QED BY <2>3, <2>4
<1>8. CASE CmdWbNotDirty(rdy)
  BY <1>8 DEF CmdWbNotDirty, Finish, cmdFsm, BlockOut
<1> QED BY <1>4, <1>5, <1>6, <1>7, <1>8 DEF LceCmd

\* The entries of the write buffer after a cycle, and what is known of them.
LEMMA BufferedHome ==
  ASSUME TypeOK, CacheInv, NEW i \in DOMAIN Buffered
  PROVE  /\ Buffered[i] \in Stored
         /\ \/ Buffered[i].tag \in unsaved
            \/ StoreHit /\ Buffered[i].tag = tv.tag
         /\ Home(Buffered[i].tag, Buffered[i].way)
         /\ StoreHit => ~serving
         /\ BlockOut => Buffered[i].tag # cmd.tag
         /\ StoreHit /\ Buffered[i].tag = tv.tag /\ Buffered[i].tag \notin unsaved
              /\ cmd.op = "WB" /\ cmd.tag = tv.tag => cmdSt = "ready"
<1>1. Buffered \in Seq(Stored) /\ Len(Buffered) \in Nat /\ Len(wbuf) \in Nat
      /\ wbuf \in Seq(Stored)
  BY BufferedType
<1>2. Buffered[i] \in Stored /\ i \in 1 .. Len(Buffered)
  BY <1>1
<1>3. CASE StoreHit /\ i = Len(wbuf) + 1
  <2>1. Buffered[i].tag = tv.tag /\ Buffered[i].way = StoreHitWay
    BY <1>3, BufferedType
  <2>2. BlockOut => cmd.op \in {"TR", "WB"} /\ cmdSt # "ready"
    BY DEF BlockOut, CacheInv, CmdInv
  <2> QED BY <1>2, <1>3, <2>1, <2>2, HitHome
<1>4. CASE ~(StoreHit /\ i = Len(wbuf) + 1)
  <2>1. i \in DOMAIN wbuf /\ Buffered[i] = wbuf[i]
    BY <1>1, <1>2, <1>4, BufferedType
  <2>2. /\ Buffered[i].tag \in unsaved
        /\ Home(Buffered[i].tag, Buffered[i].way)
        /\ BlockOut => Buffered[i].tag # cmd.tag
    BY <2>1 DEF CacheInv, BufferInv
  <2> QED BY <1>2, <2>2, HitHome
<1> QED BY <1>3, <1>4

\* The write buffer keeps to blocks that have not left.
LEMMA BufferStep ==
  ASSUME TypeOK, CacheInv, AnswersAreCurrent,
         NEW take, NEW psn, NEW rdy, Tick(take, psn, rdy)
  PROVE  BufferInv'
<1> PICK g : g = Granted(take)
  OBVIOUS
<1>1. /\ CmdInv /\ ScriptInv /\ UniqueTags
  BY DEF CacheInv
<1>2. /\ TagMem(Granted(take)) /\ WriteBuffer(take)
      /\ LceCmd(g, rdy) /\ Cce(g, rdy) /\ History(g, rdy)
  BY TickParts
<1>3. Buffered \in Seq(Stored) /\ Len(Buffered) \in Nat
  BY BufferedType
<1>4. ASSUME NEW i \in DOMAIN wbuf' PROVE \E j \in DOMAIN Buffered : wbuf'[i] = Buffered[j]
  <2>1. CASE Drains(take)
    <3>1. Buffered # <<>> /\ wbuf' = Tail(Buffered)
      BY <1>2, <2>1 DEF Drains, WriteBuffer
    <3>2. /\ Len(wbuf') = Len(Buffered) - 1 /\ wbuf' \in Seq(Stored)
          /\ \A j \in 1 .. Len(wbuf') : wbuf'[j] = Buffered[j + 1]
      BY <1>3, <3>1, HeadTailProperties
    <3>3. i \in 1 .. Len(wbuf') /\ i + 1 \in DOMAIN Buffered
      BY <1>3, <1>4, <3>2
    <3> QED BY <3>2, <3>3
  <2>2. CASE ~Drains(take)
    BY <1>2, <1>4, <2>2 DEF WriteBuffer
  <2> QED BY <2>1, <2>2
<1> SUFFICES ASSUME NEW i \in DOMAIN wbuf'
             PROVE  /\ wbuf'[i].tag \in unsaved'
                    /\ Home(wbuf[i].tag, wbuf[i].way)'
                    /\ BlockOut' => wbuf'[i].tag # cmd'.tag
  BY DEF BufferInv
<1>5. PICK j \in DOMAIN Buffered : wbuf'[i] = Buffered[j]
  BY <1>4
<1>6. PICK e \in Stored : e = Buffered[j]
  BY BufferedHome
<1>7. /\ e.tag \in unsaved \/ (StoreHit /\ e.tag = tv.tag)
      /\ Home(e.tag, e.way) /\ (StoreHit => ~serving)
      /\ BlockOut => e.tag # cmd.tag
      /\ StoreHit /\ e.tag = tv.tag /\ e.tag \notin unsaved
           /\ cmd.op = "WB" /\ cmd.tag = e.tag => cmdSt = "ready"
  BY <1>6, BufferedHome
<1>8. e.tag \in Tag /\ e.way \in Way
  BY DEF Stored
<1>9. e.tag \in unsaved'
  <2>1. WroteBack(g, rdy) => BlockOut
    BY DEF WroteBack, BlockOut
  <2> QED BY <1>2, <1>7, <2>1 DEF History
<1>10. ~(cmd = Wback(e.tag, e.way) /\ CmdDone(g, rdy))
  <2> SUFFICES ASSUME cmd = Wback(e.tag, e.way), CmdDone(g, rdy) PROVE FALSE
    OBVIOUS
  <2>1. cmd.op = "WB" /\ cmd.tag = e.tag
    BY CommandFacts
  <2>2. cmdSt = "wb_not_dirty"
    BY <1>1, <1>7, <2>1, WbDone
  <2>3. e.tag \notin unsaved
    BY <2>1, <2>2 DEF AnswersAreCurrent
  <2> QED BY <1>7, <2>1, <2>2, <2>3
<1>11. Home(e.tag, e.way)'
  BY <1>1, <1>2, <1>7, <1>8, <1>10, HomeStep
<1>12. BlockOut' => e.tag # cmd'.tag
  <2> SUFFICES ASSUME BlockOut' PROVE e.tag # cmd'.tag
    OBVIOUS
  <2>1. cmd' = cmd /\ (BlockOut \/ Buffered = <<>>)
    BY <1>1, <1>2, OutMoves
  <2> QED BY <1>7, <2>1
<1> QED BY <1>5, <1>6, <1>9, <1>11, <1>12
-----------------------------------------------------------------------------
(* The blocks.                                                             *)

\* The words that are written over one another.
LEMMA OverLaws ==
  /\ \A p, q \in Pieces, x \in Words : Over(Over(p, q), x) = Over(p, Over(q, x))
  /\ \A p, q, r \in Pieces : Over(Over(p, q), r) = Over(p, Over(q, r))
  /\ \A x \in Words : Over(<<>>, x) = x
  /\ \A p \in Pieces : Over(<<>>, p) = p /\ Over(p, <<>>) = p
<1>1. ASSUME NEW p \in Pieces PROVE \E m \in SUBSET Byte : p \in [m -> StoreVal]
  BY DEF Pieces
<1>3. ASSUME NEW X, NEW D, NEW x \in [X -> D]
      PROVE  Over(<<>>, x) = x /\ Over(x, <<>>) = x
  BY DEF Over
<1>4. ASSUME NEW p \in Pieces, NEW q \in Pieces, NEW x \in Words
      PROVE  Over(Over(p, q), x) = Over(p, Over(q, x))
  <2>1. PICK m \in SUBSET Byte : p \in [m -> StoreVal]
    BY <1>1
  <2>2. PICK n \in SUBSET Byte : q \in [n -> StoreVal]
    BY <1>1
  <2> QED BY <2>1, <2>2 DEF Over, Words
<1>5. ASSUME NEW p \in Pieces, NEW q \in Pieces, NEW x \in Pieces
      PROVE  Over(Over(p, q), x) = Over(p, Over(q, x))
  <2>1. PICK m \in SUBSET Byte : p \in [m -> StoreVal]
    BY <1>1
  <2>2. PICK n \in SUBSET Byte : q \in [n -> StoreVal]
    BY <1>1
  <2>3. PICK k \in SUBSET Byte : x \in [k -> StoreVal]
    BY <1>1
  <2> QED BY <2>1, <2>2, <2>3 DEF Over
<1>6. \A x \in Words : Over(<<>>, x) = x
  BY <1>3 DEF Words
<1>7. \A p \in Pieces : Over(<<>>, p) = p /\ Over(p, <<>>) = p
  BY <1>1, <1>3
<1> QED BY <1>4, <1>5, <1>6, <1>7

\* What an entry of the buffer writes to a word.
Bytes(e, t, o) == IF e.tag = t /\ e.word = o THEN e.data ELSE <<>>

MergedOf(q, t, o, m) ==
  /\ Len(q) = 0 => m = <<>>
  /\ Len(q) = 1 => m = Bytes(q[1], t, o)
  /\ Len(q) = 2 => m = Over(Bytes(q[2], t, o), Bytes(q[1], t, o))
  /\ Len(q) = 3 => m = Over(Bytes(q[3], t, o),
                           Over(Bytes(q[2], t, o), Bytes(q[1], t, o)))

\* What a queue of up to three stores writes to a word.
LEMMA MergedIs ==
  ASSUME NEW q \in Seq(Stored), Len(q) <= 3, NEW t, NEW o
  PROVE  /\ MergedOf(q, t, o, Merged(q, t, o))
         /\ Len(q) \in Nat
         /\ \A i \in 1 .. Len(q) : Bytes(q[i], t, o) \in Pieces
         /\ Merged(q, t, o) \in Pieces
<1> DEFINE n == Len(q)
           b(i) == Bytes(q[i], t, o)
<1>1. n \in Nat /\ n <= 3
  OBVIOUS
<1>2. Merged(q, t, o) = CASE n = 0 -> <<>>
                          [] n = 1 -> b(1)
                          [] n = 2 -> Over(b(2), b(1))
                          [] OTHER -> Over(b(3), Over(b(2), b(1)))
  BY DEF Merged, Bytes
<1>3. \A i \in 1 .. n : b(i) \in Pieces
  <2> SUFFICES ASSUME NEW i \in 1 .. n PROVE b(i) \in Pieces
    OBVIOUS
  <2>1. q[i] \in Stored
    BY ElementOfSeq
  <2>2. q[i].data \in Pieces
    BY <2>1, OverFacts DEF Stored
  <2> QED BY <2>2, OverFacts DEF Bytes
<1> HIDE DEF n, b
<1>4. /\ n = 0 => Merged(q, t, o) = <<>>
      /\ n = 1 => Merged(q, t, o) = b(1)
      /\ n = 2 => Merged(q, t, o) = Over(b(2), b(1))
      /\ n = 3 => Merged(q, t, o) = Over(b(3), Over(b(2), b(1)))
  BY <1>2
<1>5. Merged(q, t, o) \in Pieces
  <2>1. n \in {0, 1, 2, 3}
    BY <1>1
  <2> QED BY <1>3, <1>4, <2>1, OverFacts
<1> QED BY <1>1, <1>3, <1>4, <1>5 DEF n, b, MergedOf

\* The write buffer offers at most three stores.
LEMMA BufferedLen ==
  ASSUME TypeOK, PlacesKept
  PROVE  /\ Buffered \in Seq(Stored) /\ wbuf \in Seq(Stored)
         /\ Len(Buffered) <= 3 /\ Len(wbuf) <= 2
         /\ Len(Buffered) \in Nat /\ Len(wbuf) \in Nat
<1>1. InTl \in {0, 1} /\ InTv \in {0, 1}
  BY DEF InTl, InTv
<1>2. Len(wbuf) \in Nat /\ Len(Buffered) \in Nat
  BY BufferedType
<1> QED BY <1>1, <1>2, BufferedType DEF PlacesKept

\* A load is bypassed what the buffer and the store in TV write to its word.
LEMMA BypassIsMerged ==
  ASSUME NEW a
  PROVE  Bypass(a) = Merged(Buffered, a.tag, a.word)
BY DEF Bypass, Merged

\* The store in TV is the youngest.
LEMMA MergedBuffered ==
  ASSUME TypeOK, PlacesKept, NEW t, NEW o
  PROVE  /\ ~StoreHit => Merged(Buffered, t, o) = Merged(wbuf, t, o)
         /\ StoreHit => Merged(Buffered, t, o) =
              Over(IF tv.tag = t /\ tv.word = o THEN tv.data ELSE <<>>,
                   Merged(wbuf, t, o))
<1>1. CASE ~StoreHit
  BY <1>1, BufferedType
<1>2. CASE StoreHit
  <2> DEFINE n == Len(wbuf)
             d == IF tv.tag = t /\ tv.word = o THEN tv.data ELSE <<>>
             b(i) == Bytes(Buffered[i], t, o)
             c(i) == Bytes(wbuf[i], t, o)
  <2>1. n \in Nat /\ n <= 2 /\ Len(Buffered) = n + 1
    BY <1>2, BufferedType, BufferedLen
  <2>2. /\ n = 0 => b(1) = d
        /\ n = 1 => b(2) = d /\ b(1) = c(1)
        /\ n = 2 => b(3) = d /\ b(2) = c(2) /\ b(1) = c(1)
    <3>1. b(n + 1) = d /\ \A i \in 1 .. n : b(i) = c(i)
      BY <1>2, BufferedType DEF Bytes
    <3> QED BY <2>1, <3>1
  <2>3. /\ Buffered \in Seq(Stored) /\ wbuf \in Seq(Stored)
        /\ Len(Buffered) <= 3 /\ Len(wbuf) <= 3
    BY <2>1, BufferedLen
  <2>4. /\ n = 0 => Merged(wbuf, t, o) = <<>> /\ Merged(Buffered, t, o) = b(1)
        /\ n = 1 => /\ Merged(wbuf, t, o) = c(1)
                    /\ Merged(Buffered, t, o) = Over(b(2), b(1))
        /\ n = 2 => /\ Merged(wbuf, t, o) = Over(c(2), c(1))
                    /\ Merged(Buffered, t, o) = Over(b(3), Over(b(2), b(1)))
    <3>1. MergedOf(wbuf, t, o, Merged(wbuf, t, o))
      BY <2>3, MergedIs
    <3>2. MergedOf(Buffered, t, o, Merged(Buffered, t, o))
      BY <2>3, MergedIs
    <3>3. /\ n = 0 => Len(Buffered) = 1
          /\ n = 1 => Len(Buffered) = 2
          /\ n = 2 => Len(Buffered) = 3
      <4> HIDE DEF n
      <4> QED BY <2>1
    <3>4. /\ n = 0 => Merged(wbuf, t, o) = <<>>
          /\ n = 1 => Merged(wbuf, t, o) = c(1)
          /\ n = 2 => Merged(wbuf, t, o) = Over(c(2), c(1))
      BY <3>1 DEF MergedOf
    <3>5. /\ n = 0 => Merged(Buffered, t, o) = b(1)
          /\ n = 1 => Merged(Buffered, t, o) = Over(b(2), b(1))
          /\ n = 2 => Merged(Buffered, t, o) = Over(b(3), Over(b(2), b(1)))
      BY <3>2, <3>3 DEF MergedOf
    <3> QED BY <3>4, <3>5
  <2>5. d \in Pieces
    <3>1. tv.data \in Pieces
      BY <1>2, HitFacts, OverFacts DEF InTvStores
    <3> QED BY <3>1, OverFacts
  <2> HIDE DEF n, b, c, d
  <2>6. CASE n = 0
    BY <1>2, <2>2, <2>4, <2>5, <2>6, OverLaws DEF d
  <2>7. CASE n = 1
    BY <1>2, <2>2, <2>4, <2>7 DEF d
  <2>8. CASE n = 2
    BY <1>2, <2>2, <2>4, <2>8 DEF d
  <2> QED BY <2>1, <2>6, <2>7, <2>8
<1> QED BY <1>1, <1>2

\* A store that is drained writes to the word what it was the oldest to write.
LEMMA MergedDrained ==
  ASSUME NEW q \in Seq(Stored), Len(q) <= 3, q # <<>>, NEW t, NEW o, NEW x \in Words
  PROVE  Over(Merged(q, t, o), x) =
           Over(Merged(Tail(q), t, o), Over(Bytes(Head(q), t, o), x))
<1> DEFINE n == Len(q)
           p == Tail(q)
           b(i) == Bytes(q[i], t, o)
           c(i) == Bytes(p[i], t, o)
<1>1. /\ n \in Nat /\ n # 0 /\ n <= 3 /\ Head(q) = q[1]
      /\ p \in Seq(Stored) /\ Len(p) = n - 1 /\ Len(p) <= 3
      /\ \A i \in 1 .. Len(p) : p[i] = q[i + 1]
  BY HeadTailProperties, EmptySeq
<1>2. \A i \in 1 .. n - 1 : c(i) = b(i + 1)
  BY <1>1
<1>3. \A i \in 1 .. n : b(i) \in Pieces
  BY MergedIs
<1>4. /\ n = 1 => Merged(q, t, o) = b(1) /\ Merged(p, t, o) = <<>>
      /\ n = 2 => Merged(q, t, o) = Over(b(2), b(1)) /\ Merged(p, t, o) = c(1)
      /\ n = 3 => /\ Merged(q, t, o) = Over(b(3), Over(b(2), b(1)))
                  /\ Merged(p, t, o) = Over(c(2), c(1))
  <2>1. MergedOf(q, t, o, Merged(q, t, o)) /\ MergedOf(p, t, o, Merged(p, t, o))
    <3> HIDE DEF p
    <3> QED BY <1>1, MergedIs
  <2> QED BY <1>1, <2>1 DEF MergedOf
<1>5. Bytes(Head(q), t, o) = b(1)
  BY <1>1
<1>6. n \in {1, 2, 3}
  BY <1>1
<1> SUFFICES Over(Merged(q, t, o), x) = Over(Merged(p, t, o), Over(b(1), x))
  BY <1>5
<1> HIDE DEF n, p, b, c
<1>7. CASE n = 1
  <2>1. b(1) \in Pieces /\ Over(b(1), x) \in Words
    BY <1>3, <1>7, OverFacts
  <2> QED BY <1>4, <1>7, <2>1, OverLaws
<1>8. CASE n = 2
  <2>1. b(1) \in Pieces /\ b(2) \in Pieces /\ c(1) = b(2)
    BY <1>2, <1>3, <1>8
  <2> QED BY <1>4, <1>8, <2>1, OverLaws
<1>9. CASE n = 3
  <2>1. /\ b(1) \in Pieces /\ b(2) \in Pieces /\ b(3) \in Pieces
        /\ c(1) = b(2) /\ c(2) = b(3)
    BY <1>2, <1>3, <1>9
  <2>2. Over(b(2), b(1)) \in Pieces /\ Over(b(1), x) \in Words
    BY <2>1, OverFacts
  <2>3. Over(Over(b(3), Over(b(2), b(1))), x) = Over(b(3), Over(Over(b(2), b(1)), x))
    BY <2>1, <2>2, OverLaws
  <2>4. Over(Over(b(2), b(1)), x) = Over(b(2), Over(b(1), x))
    BY <2>1, OverLaws
  <2>5. Over(Over(b(3), b(2)), Over(b(1), x)) = Over(b(3), Over(b(2), Over(b(1), x)))
    BY <2>1, <2>2, OverLaws
  <2> QED BY <1>4, <1>9, <2>1, <2>3, <2>4, <2>5
<1> QED BY <1>6, <1>7, <1>8, <1>9

\* Two ways have no bank in common for the same word.
LEMMA XorInjective == \A a, b, c \in Way : Xor(a, c) = Xor(b, c) => a = b
<1>1. \A a, b, c \in 0 .. 7 : Xor(a, c) = Xor(b, c) => a = b
  <2>1. \A a, c \in 0 .. 7 : Xor(a, c) = Xor(c, a)
    BY DEF Xor
  <2>2. \A a, c \in 0 .. 7 : Xor(c, Xor(a, c)) = a
    <3>1. \A a, b \in 0 .. 7 : Xor(a, Xor(a, b)) = b
      BY SMTT(60) DEF Xor
    <3> QED BY <2>1, <3>1
  <2> QED BY <2>2
<1> QED BY <1>1, WayFacts

\* A store of the buffer goes to the way that its block has.
LEMMA HomeResident ==
  ASSUME TypeOK, CacheInv, NEW s \in Tag, NEW v \in Way, Home(s, v),
         s \in unsaved \/ ~serving,
         NEW t \in Tag, NEW w \in Way, Resident(t, w)
  PROVE  s = t <=> v = w
<1>1. /\ ScriptInv /\ UniqueTags
  BY DEF CacheInv
<1>2. \A u \in Tag, x, y \in Way : Holds(x, u) /\ Holds(y, u) => x = y
  BY <1>1 DEF UniqueTags
<1>3. \A u, st : \A x \in Way : st # "I" /\ tagMem[x] = Entry(u, st) => Holds(x, u)
  BY EntryFacts DEF Holds
<1>4. CASE WbAsked(s, v) /\ WbAsked(t, w)
  BY <1>1, <1>4, WbIs
<1>5. CASE ~WbAsked(s, v) /\ WbAsked(t, w)
  <2>1. tagMem[v] = Entry(s, "E") /\ Holds(v, s)
    BY <1>3, <1>5 DEF Home
  <2>2. tagMem[w] = Entry(t, "E") \/ (tagMem[w] = Invalid /\ Gone(t))
    BY <1>1, <1>5, WbIs
  <2> QED BY <1>2, <1>3, <2>1, <2>2, EntryFacts DEF Gone, Holds
<1>6. CASE ~WbAsked(t, w) /\ Holds(w, t)
  <2>1. CASE WbAsked(s, v)
    <3>1. tagMem[v] = Entry(s, "E") \/ (tagMem[v] = Invalid /\ Gone(s))
      BY <1>1, <2>1, WbIs
    <3> QED BY <1>2, <1>3, <1>6, <3>1, EntryFacts DEF Gone, Holds
  <2>2. CASE tagMem[v] = Entry(s, "E")
    BY <1>2, <1>3, <1>6, <2>2, EntryFacts DEF Holds
  <2> QED BY <2>1, <2>2 DEF Home
<1>7. CASE ~WbAsked(t, w) /\ ~Holds(w, t)
  <2>1. Arrived /\ t = req.tag /\ w = req.way
    BY <1>7 DEF Resident
  <2>2. serving /\ Filling
    BY <1>1, <2>1 DEF ScriptInv, NotAwaited, Arrived, Upgrading, Evicting
  <2>3. ~WbAsked(s, v)
    <3>1. ~Evicting
      BY <2>1 DEF Arrived, Evicting
    <3> QED BY <1>1, <2>2, <3>1, WbIs
  <2>4. tagMem[v] = Entry(s, "E") /\ Holds(v, s) /\ s \in unsaved
    BY <1>3, <2>2, <2>3 DEF Home
  <2>5. TagAwaited
    BY <1>7, <2>1, <2>2 DEF Filling, TagCame
  <2>6. s # t
    BY <2>1, <2>4, <2>5 DEF TagAwaited, Gone
  <2>7. v # w
    BY <2>1, <2>4, <2>5, EntryFacts DEF TagAwaited
  <2> QED BY <2>6, <2>7
<1> QED BY <1>4, <1>5, <1>6, <1>7

\* What has been received is kept until the miss is over.
LEMMA RcvMoves ==
  ASSUME TypeOK, CacheInv, NEW g, NEW rdy, NEW missed \in BOOLEAN, NEW m,
         LceReq(missed, m, g, rdy)
  PROVE  /\ rcv' \in {{}, rcv, Received(g)}
         /\ MissOver(g, rdy) => rcv' = {}
<1>1. CASE reqSt = "ready"
  BY <1>1, ReqMoves DEF MissOver, MissAcked, Acknowledging, Woken, reqFsm
<1>2. CASE reqSt = "send"
  BY <1>2, ReqMoves DEF MissOver, MissAcked, Acknowledging, Woken
<1>3. CASE reqSt = "sleep"
  BY <1>3, ReqMoves DEF MissOver, MissAcked, Acknowledging, Woken, ReqSleep, Forget
<1>4. CASE Acknowledging
  BY <1>4, ReqMoves DEF MissOver, MissAcked, Acknowledging, Woken, ReqAck, Forget, reqFsm
<1> QED BY <1>1, <1>2, <1>3, <1>4 DEF TypeOK, ReqState, Acknowledging

\* Without a fill a way belongs to no new block.
LEMMA ResidentBack ==
  ASSUME TypeOK, CacheInv, NEW take, NEW psn, NEW rdy, Tick(take, psn, rdy),
         NEW g, g = Granted(take), ~FillGranted(g),
         NEW t \in Tag, NEW w \in Way, Resident(t, w)'
  PROVE  Resident(t, w)
<1>1. /\ CmdInv /\ ScriptInv /\ UniqueTags
  BY DEF CacheInv
<1>2. /\ TagMem(Granted(take)) /\ Cce(g, rdy) /\ LceCmd(g, rdy) /\ History(g, rdy)
  BY TickParts
<1>3. PICK m : LceReq(Missed, m, g, rdy)
  BY TickParts
<1>4. Missed \in BOOLEAN
  BY DEF Missed
<1>5. rcv' \in {{}, rcv, Received(g)} /\ (MissOver(g, rdy) => rcv' = {})
  BY <1>3, <1>4, RcvMoves
<1>6. serving /\ ~MissOver(g, rdy) => req' = req
  BY <1>2, ServedFacts
<1>7. CASE WbAsked(t, w)'
  <2>1. CASE ~WbAsked(t, w)
    <3>1. CceIdle /\ tagMem[w] = Entry(t, "E")
      BY <1>1, <1>2, <1>7, <2>1, WbNew
    <3> QED BY <1>1, <3>1, EntryFacts DEF Resident, Holds, ScriptInv, CceIdle
  <2> QED BY <2>1 DEF Resident
<1>8. CASE Arrived' /\ t = req'.tag /\ w = req'.way
  <2>1. ~MissOver(g, rdy) /\ Arrived
    BY <1>5, <1>8 DEF Arrived, Received
  <2>2. serving
    BY <1>1, <2>1 DEF Arrived, ScriptInv, NotAwaited
  <2> QED BY <1>6, <1>8, <2>1, <2>2 DEF Resident
<1>9. CASE Holds(w, t)' /\ (NotAwaited' \/ w # req'.way)
  <2>1. tagMem \in [Way -> Entries]
    BY DEF TypeOK
  <2>2. CASE tagMem'[w] = tagMem[w]
    <3>1. Holds(w, t)
      BY <1>9, <2>2 DEF Holds
    <3>2. CASE NotAwaited \/ w # req.way
      BY <3>1, <3>2 DEF Resident
    <3>3. CASE ~NotAwaited /\ w = req.way
      <4>1. serving /\ (Evicting \/ Filling)
        BY <1>1, <3>3 DEF ScriptInv, Upgrading
      <4>2. CASE MissOver(g, rdy)
        <5>1. cmd.op # "STW"
          BY HeadStw, <1>1, <3>3
        <5>2. MissAcked(rdy)
          BY <4>2, <5>1 DEF MissOver, Woken, CmdIs
        <5>3. TagCame /\ BlockCame
          BY <4>1, <5>2 DEF MissAcked, Acknowledging, Evicting, Filling
        <5>4. t = req.tag
          BY <3>1, <3>3, <5>3 DEF TagCame, Holds
        <5> QED BY <3>3, <5>3, <5>4 DEF Resident, BlockCame
      <4>3. CASE ~MissOver(g, rdy)
        <5>1. req' = req /\ NotAwaited'
          BY <1>6, <1>9, <3>3, <4>1, <4>3
        <5>2. CASE Evicting
          <6>1. CceWaits(g, rdy) \/ CceCommands(g, rdy) \/ CceFills(g, rdy)
            BY <1>2, <4>1, ServedFacts
          <6> QED BY <5>1, <5>2, <6>1
              DEF Evicting, NotAwaited, CceWaits, CceCommands, CceFills, None
        <5>3. CASE Filling
          <6>1. BlockAwaited \/ BlockCame
            BY <5>3 DEF Filling
          <6>2. CASE BlockCame
            <7>1. TagAwaited \/ TagCame
              BY <5>3 DEF Filling
            <7>2. CASE TagCame
              BY <1>1, <3>1, <3>3, <6>2, <7>2 DEF TagCame, Resident, BlockCame, Holds
            <7>3. CASE TagAwaited
              <8>1. reqSt = "sleep"
                BY <5>3, <7>3 DEF Filling, TagAwaited, TagCame
              <8>2. rcv' = Received(g)
                BY <1>3, <1>4, <4>3, <8>1, ReqMoves DEF ReqSleep, MissOver
              <8> QED BY <5>1, <6>2, <8>2 DEF NotAwaited, BlockCame, Arrived, Received
            <7> QED BY <7>1, <7>2, <7>3
          <6>3. CASE BlockAwaited
            <7>1. CceWaits(g, rdy) \/ CceCommands(g, rdy) \/ CceFills(g, rdy)
              BY <1>2, <4>1, ServedFacts
            <7> QED BY <5>1, <6>3, <7>1 DEF BlockAwaited, NotAwaited, CceWaits,
                CceCommands, CceFills, None, Receive, FillLeft
          <6> QED BY <6>1, <6>2, <6>3
        <5> QED BY <4>1, <5>2, <5>3
      <4> QED BY <4>2, <4>3
    <3> QED BY <3>2, <3>3
  <2>3. CASE tagMem'[w] # tagMem[w]
    <3>1. ~Keeps
      BY <2>3 DEF Keeps
    <3>2. ASSUME NEW s \in Tag, NEW x \in Way, Loses(s, x) PROVE FALSE
      BY <1>9, <2>1, <2>3, <3>2, EntryFacts DEF Loses, Holds
    <3>3. ASSUME NEW st \in {"S", "E"}, Gets(st), CmdIs({"ST"}), g.tag PROVE FALSE
      <4>1. w = req.way
        BY <2>1, <2>3, <3>3 DEF Gets
      <4>2. reqSt = "sleep" /\ serving
        BY <3>3 DEF Gets, Filling, TagAwaited, TagCame
      <4>3. ~MissOver(g, rdy)
        BY <3>3, <4>2, CommandFacts DEF MissOver, MissAcked, Acknowledging, Woken, CmdIs, Gets
      <4>4. rcv' = Received(g)
        BY <1>3, <1>4, <4>2, <4>3, ReqMoves DEF ReqSleep, MissOver
      <4>5. ~NotAwaited'
        BY <3>3, <4>4 DEF NotAwaited, Received
      <4> QED BY <1>6, <1>9, <4>1, <4>2, <4>3, <4>5
    <3>4. ASSUME NEW x \in Way, Upgrades(x) PROVE Resident(t, w)
      <4>1. w = x
        BY <2>1, <2>3, <3>4 DEF Upgrades
      <4>2. Holds(w, t) /\ NotAwaited
        BY <1>9, <2>1, <3>4, <4>1, EntryFacts DEF Upgrades, Holds
      <4> QED BY <4>2 DEF Resident
    <3> QED BY <1>1, <1>2, <3>1, <3>2, <3>3, <3>4, TagCases
  <2> QED BY <2>2, <2>3
<1> QED BY <1>7, <1>8, <1>9 DEF Resident

\* The banks with the buffer on top of them, the store in TV included, hold
\* what the accesses that have left the pipe have made of a block.
LEMMA BufferedCurrent ==
  ASSUME TypeOK, PlacesKept, BanksCurrent, NEW g, NEW rdy, History(g, rdy),
         ~FillGranted(g),
         NEW t \in Tag, NEW w \in Way, Resident(t, w), NEW o \in Way
  PROVE  /\ Over(Merged(Buffered, t, o), dataMem[Xor(w, o)][o]) = truth'[t][o]
         /\ dataMem[Xor(w, o)][o] \in Words
<1> DEFINE x == dataMem[Xor(w, o)][o]
           M == Merged(wbuf, t, o)
           d == IF tv.tag = t /\ tv.word = o THEN tv.data ELSE <<>>
<1>1. x \in Words
  BY XorFacts DEF TypeOK
<1>2. Over(M, x) = truth[t][o]
  BY DEF BanksCurrent
<1>3. M \in Pieces
  BY BufferedLen, MergedIs
<1>4. truth \in [Tag -> Contents] /\ truth[t][o] \in Words
  BY DEF TypeOK, Contents, Words
<1>5. CASE ~StoreHit
  <2>1. truth' = truth
    BY <1>5 DEF History
  <2> QED BY <1>1, <1>2, <1>5, <2>1, MergedBuffered
<1>6. CASE StoreHit
  <2>1. /\ tv \in InTvStores /\ tv.tag \in Tag /\ tv.word \in Way
        /\ tv.data \in Pieces
    BY <1>6, HitFacts, OverFacts DEF InTvStores
  <2>2. d \in Pieces
    BY <2>1, OverFacts
  <2>3. truth' = [truth EXCEPT ![tv.tag][tv.word] = Over(tv.data, @)]
    BY <1>6 DEF History
  <2>4. truth'[t][o] = Over(d, truth[t][o])
    <3>1. CASE tv.tag = t /\ tv.word = o
      BY <1>4, <2>1, <2>3, <3>1 DEF Contents
    <3>2. CASE ~(tv.tag = t /\ tv.word = o)
      <4>1. truth'[t][o] = truth[t][o]
        BY <1>4, <2>1, <2>3, <3>2 DEF Contents
      <4> QED BY <1>4, <3>2, <4>1, OverLaws
    <3> QED BY <3>1, <3>2
  <2>5. Merged(Buffered, t, o) = Over(d, M)
    BY <1>6, MergedBuffered
  <2> HIDE DEF x, M, d
  <2>6. Over(Over(d, M), x) = Over(d, Over(M, x))
    BY <1>1, <1>3, <2>2, OverLaws
  <2> QED BY <1>1, <1>2, <2>4, <2>5, <2>6 DEF x
<1> QED BY <1>5, <1>6

\* Every step keeps the blocks in the banks.
LEMMA BanksStep ==
  ASSUME TypeOK, CacheInv, NEW take, NEW psn, NEW rdy, Tick(take, psn, rdy),
         UniqueTags', ScriptInv'
  PROVE  BanksCurrent'
<1> PICK g : g = Granted(take)
  OBVIOUS
<1>1. /\ CmdInv /\ ScriptInv /\ UniqueTags /\ PlacesKept /\ BanksCurrent
  BY DEF CacheInv
<1>2. /\ TagMem(Granted(take)) /\ Cce(g, rdy) /\ LceCmd(g, rdy) /\ History(g, rdy)
      /\ DataMem(take, g) /\ WriteBuffer(take)
  BY TickParts
<1>3. dataMem \in [Way -> [Way -> Words]]
  BY DEF TypeOK
<1> SUFFICES ASSUME NEW t \in Tag, NEW w \in Way, Resident(t, w)', NEW o \in Way
             PROVE  Over(Merged(wbuf', t, o), dataMem'[Xor(w, o)][o]) = truth'[t][o]
  BY DEF BanksCurrent, Merged, Over, Xor
<1>4. Xor(w, o) \in Way
  BY XorFacts
<1>5. CASE ~FillGranted(g)
  <2>1. Resident(t, w)
    BY <1>5, ResidentBack
  <2> DEFINE x == dataMem[Xor(w, o)][o]
  <2>2. Over(Merged(Buffered, t, o), x) = truth'[t][o] /\ x \in Words
    BY <1>1, <1>2, <1>5, <2>1, BufferedCurrent
  <2>3. CASE ~Drains(take)
    <3>1. wbuf' = Buffered /\ dataMem' = dataMem
      BY <1>2, <1>5, <2>3 DEF WriteBuffer, DataMem
    <3> QED BY <2>2, <3>1
  <2>4. CASE Drains(take)
    <3> PICK e : e = Head(Buffered)
      OBVIOUS
    <3>1. wbuf' = Tail(Buffered) /\ Buffered # <<>>
      BY <1>2, <2>4 DEF WriteBuffer, Drains
    <3>2. /\ Buffered \in Seq(Stored) /\ Len(Buffered) <= 3
          /\ 1 \in DOMAIN Buffered /\ e = Buffered[1]
      BY <1>1, <3>1, BufferedLen, HeadTailProperties, EmptySeq
    <3>3. /\ e \in Stored /\ Home(e.tag, e.way)
          /\ e.tag \in unsaved \/ ~serving
      BY <3>2, BufferedHome
    <3>4. /\ e.tag \in Tag /\ e.way \in Way /\ e.word \in Way
          /\ e.data \in Pieces
      BY <3>3, OverFacts DEF Stored
    <3>5. e.tag = t <=> e.way = w
      BY <2>1, <3>3, <3>4, HomeResident
    <3>6. dataMem' = [dataMem EXCEPT ![Xor(e.way, e.word)][e.word] = Over(e.data, @)]
      BY <1>2, <2>4 DEF DataMem
    <3>7. Xor(e.way, e.word) \in Way
      BY <3>4, XorFacts
    <3>8. dataMem'[Xor(w, o)][o] = Over(Bytes(e, t, o), x)
      <4>1. CASE e.tag = t /\ e.word = o
        BY <1>3, <1>4, <3>4, <3>5, <3>6, <4>1 DEF Bytes
      <4>2. CASE ~(e.tag = t /\ e.word = o)
        <5>1. e.word = o => Xor(e.way, e.word) # Xor(w, o)
          BY <3>4, <3>5, <4>2, XorInjective
        <5>2. dataMem'[Xor(w, o)][o] = x
          BY <1>3, <1>4, <3>4, <3>6, <3>7, <5>1
        <5> QED BY <2>2, <4>2, <5>2, OverLaws DEF Bytes
      <4> QED BY <4>1, <4>2
    <3>9. Over(Merged(Buffered, t, o), x)
            = Over(Merged(Tail(Buffered), t, o), Over(Bytes(Head(Buffered), t, o), x))
      <4> PICK q : q = Buffered
        OBVIOUS
      <4> HIDE DEF x
      <4> QED BY <2>2, <3>1, <3>2, MergedDrained
    <3> QED BY <2>2, <3>1, <3>8, <3>9
  <2> QED BY <2>3, <2>4
<1>6. CASE FillGranted(g)
  <2>1. fill # None /\ g.data /\ Buffered = <<>> /\ ~Drains(take)
    BY <1>6, GrantFacts DEF Drains
  <2>2. /\ serving /\ req # None /\ Filling /\ BlockAwaited
        /\ fill.tag = req.tag /\ fill.way = req.way /\ reqSt = "sleep"
    BY <1>1, <2>1, FillHeld
  <2>3. req \in Misses /\ req.way \in Way /\ req.tag \in Tag /\ ~StoreHit /\ wbuf = <<>>
    BY <1>2, <2>1, <2>2, ServedFacts DEF Misses
  <2>4. wbuf' = <<>>
    BY <1>2, <2>1 DEF WriteBuffer
  <2>5. truth' = [truth EXCEPT ![req.tag] = fill.data]
    BY <1>2, <1>6, <2>2, <2>3 DEF History
  <2>6. fill.data \in [Way -> Words]
    BY <2>1 DEF TypeOK, Fills, Blocks, Words
  <2>7. \A b, a \in Way : dataMem'[b][a] =
          IF b = Xor(req.way, a) THEN fill.data[a] ELSE dataMem[b][a]
    BY <1>2, <1>6, <2>1, <2>2 DEF DataMem, Filled
  <2>8. Merged(wbuf', t, o) = <<>>
    BY <2>4 DEF Merged
  <2>9. cmd.op # "STW" /\ ~MissOver(g, rdy)
    BY <1>1, <2>1, <2>2, HeadStw
    DEF NotAwaited, MissOver, MissAcked, Acknowledging, Woken, CmdIs
  <2>10. req' = req
    BY <1>2, <2>2, <2>9, ServedFacts
  <2>11. serving' /\ ~NotAwaited'
    <3>1. serving'
      BY <1>2, <2>2, <2>9, ServedFacts DEF CceWaits, CceCommands, CceFills
    <3>2. PICK m : LceReq(Missed, m, g, rdy)
      BY TickParts
    <3>3. rcv' = Received(g)
      <4>1. Missed \in BOOLEAN
        BY DEF Missed
      <4> QED BY <2>2, <2>9, <3>2, <4>1, ReqMoves DEF ReqSleep, MissOver
    <3> QED BY <1>6, <3>1, <3>3 DEF Received, NotAwaited
  <2>12. ~WbAsked(t, w)'
    <3> SUFFICES ASSUME WbAsked(t, w)' PROVE FALSE
      OBVIOUS
    <3>1. WbAsked(t, w)
      BY <1>1, <1>2, <2>2, WbNew DEF CceIdle
    <3>2. Evicting
      BY <1>1, <2>2, <3>1, WbIs
    <3> QED BY <2>1, <3>2 DEF Evicting
  <2>13. CASE w = req.way
    <3>1. t = req.tag
      BY <2>10, <2>11, <2>12, <2>13 DEF Resident
    <3>2. dataMem'[Xor(w, o)][o] = fill.data[o]
      BY <1>4, <2>7, <2>13
    <3>3. truth'[t][o] = fill.data[o]
      BY <2>5, <3>1 DEF TypeOK
    <3> QED BY <2>6, <2>8, <3>2, <3>3, OverLaws
  <2>14. CASE w # req.way
    <3>1. Holds(w, t)'
      BY <2>10, <2>12, <2>14 DEF Resident
    <3>2. tagMem'[w] = tagMem[w]
      <4>1. tagMem \in [Way -> Entries]
        BY DEF TypeOK
      <4>2. ASSUME NEW st, Gets(st) PROVE tagMem'[w] = tagMem[w]
        BY <2>14, <4>1, <4>2 DEF Gets
      <4>3. \A s, x : ~Loses(s, x) /\ ~Upgrades(x)
        BY <2>1, <2>2 DEF Loses, Upgrades, NotAwaited
      <4> QED BY <1>1, <1>2, <4>2, <4>3, TagCases DEF Keeps
    <3>3. Resident(t, w)
      BY <2>14, <3>1, <3>2 DEF Resident, Holds
    <3>4. t # req.tag
      <4>1. (Upgrading \/ Evicting \/ Filling)'
        BY <2>11 DEF ScriptInv
      <4>3. Filling'
        <5>1. fill' = None /\ ~due
          BY <1>2, <1>6, <2>1, <2>2, ServedFacts
          DEF CceWaits, CceCommands, CceFills, Receive, FillLeft, BlockAwaited
        <5>2. ~due'
          BY <1>2, <2>2, <5>1, ServedFacts DEF CceWaits, CceCommands, CceFills
        <5> QED BY <2>11, <4>1, <5>2 DEF Upgrading, Evicting
      <4>4. TagAwaited' \/ TagCame'
        BY <4>3 DEF Filling
      <4>5. Gone(req.tag)' \/ Holds(req.way, req.tag)'
        BY <4>4 DEF TagAwaited, TagCame
      <4>6. CASE Gone(req.tag)'
        BY <2>10, <3>1, <4>6 DEF Gone, Holds
      <4>7. CASE Holds(req.way, req.tag)'
        BY <2>3, <2>10, <2>14, <3>1, <4>7 DEF UniqueTags, Holds
      <4> QED BY <4>5, <4>6, <4>7
    <3>5. dataMem'[Xor(w, o)][o] = dataMem[Xor(w, o)][o]
      <4>1. Xor(w, o) # Xor(req.way, o)
        BY <2>3, <2>14, XorInjective
      <4> QED BY <1>4, <2>7, <4>1
    <3>6. truth'[t] = truth[t]
      BY <2>5, <3>4 DEF TypeOK
    <3>7. Over(Merged(wbuf, t, o), dataMem[Xor(w, o)][o]) = truth[t][o]
      BY <1>1, <3>3 DEF BanksCurrent
    <3> QED BY <2>3, <2>4, <3>5, <3>6, <3>7
  <2> QED BY <2>13, <2>14
<1> QED BY <1>5, <1>6

\* A load has read the banks as they still are.
LEMMA LoadReadStep ==
  ASSUME NEW take, NEW psn, NEW rdy, Tick(take, psn, rdy)
  PROVE  LoadRead'
<1> PICK g : g = Granted(take)
  OBVIOUS
<1>1. TlStage(take) /\ DataMem(take, g)
  BY TickParts
<1> SUFFICES ASSUME IsLoad(tl)'
             PROVE  dataOut' = [b \in Way |-> dataMem'[b][tl'.word]]
  BY DEF LoadRead
<1>2. tl' = take /\ IsLoad(take)
  BY <1>1 DEF TlStage, IsLoad
<1>3. ~Drains(take) /\ ~FillGranted(g)
  BY <1>2, GrantFacts DEF Drains
<1> QED BY <1>1, <1>2, <1>3 DEF DataMem

\* What is sent.
LEMMA AnswersStep ==
  ASSUME TypeOK, CacheInv, AnswersAreCurrent,
         NEW take, NEW psn, NEW rdy, Tick(take, psn, rdy)
  PROVE  AnswersAreCurrent'
<1> PICK g : g = Granted(take)
  OBVIOUS
<1>1. /\ CmdInv /\ ScriptInv /\ UniqueTags /\ PlacesKept /\ BanksCurrent
  BY DEF CacheInv
<1>2. /\ TagMem(Granted(take)) /\ Cce(g, rdy) /\ LceCmd(g, rdy) /\ History(g, rdy)
      /\ DataMem(take, g)
  BY TickParts
<1>3. /\ truth \in [Tag -> Contents] /\ unsaved \subseteq Tag
      /\ dataMem \in [Way -> [Way -> Words]]
  BY DEF TypeOK
<1>4. ASSUME BlockOut' PROVE BlockSent' = truth'[cmd'.tag]
  <2>1. /\ cmd' = cmd /\ cmd # None /\ cmd.op \in {"TR", "WB"}
        /\ \/ BlockOut /\ "buffered" \in done' /\ buf' = BlockSent
           \/ /\ ReadGranted(g) /\ "buffered" \notin done'
              /\ Buffered = <<>> /\ fill = None /\ ~IsLoad(take)
    BY <1>1, <1>2, <1>4, OutMoves
  <2>2. PICK t \in Tag, w \in Way : cmd.tag = t /\ cmd.way = w /\ WbAsked(t, w)
    <3>1. CASE cmd.op = "TR"
      <4>1. PICK t \in Tag, w \in Way :
              cmd = Transfer(t, w) /\ todo = <<Wback(t, w)>>
        BY <1>1, <3>1, HeadTr
      <4>2. 1 \in DOMAIN todo /\ todo[1] = Wback(t, w)
        BY <4>1
      <4> QED BY <4>1, <4>2, CommandFacts DEF WbAsked, Pending
    <3>2. CASE cmd.op = "WB"
      BY <1>1, <3>2, HeadWb, CommandFacts DEF WbAsked, Pending
    <3> QED BY <2>1, <3>1, <3>2
  <2>3. fill = None
    <3> SUFFICES ASSUME fill # None PROVE FALSE
      OBVIOUS
    <3>1. serving /\ BlockAwaited
      BY <1>1, FillHeld
    <3>2. Evicting
      BY <1>1, <2>2, <3>1, WbIs
    <3> QED BY <3>2 DEF Evicting
  <2>4. ~FillGranted(g)
    BY <2>3, GrantFacts
  <2>5. CASE BlockOut /\ "buffered" \in done' /\ buf' = BlockSent
    <3>1. BlockSent = truth[t]
      BY <2>2, <2>5 DEF AnswersAreCurrent, BlockOut
    <3>2. StoreHit => tv.tag # t
      BY <2>1, <2>2, <2>5, HitHome DEF BlockOut
    <3>3. truth'[t] = truth[t]
      BY <1>2, <1>3, <2>4, <3>2 DEF History
    <3> QED BY <2>1, <2>2, <2>5, <3>1, <3>3 DEF BlockSent
  <2>6. CASE /\ ReadGranted(g) /\ "buffered" \notin done'
             /\ Buffered = <<>> /\ ~IsLoad(take)
    <3>1. ~StoreHit /\ wbuf = <<>> /\ ~Drains(take)
      BY <2>6, BufferedType DEF Drains
    <3>2. truth' = truth
      BY <1>2, <2>4, <3>1 DEF History
    <3>3. dataOut' = [b \in Way |-> dataMem[b][Xor(w, b)]]
      BY <1>2, <2>2, <2>6 DEF DataMem
    <3>4. ASSUME NEW o \in Way
          PROVE  dataOut'[Xor(w, o)] = truth[t][o]
      <4>1. Xor(w, o) \in Way /\ Xor(w, Xor(w, o)) = o
        BY XorFacts
      <4>2. dataOut'[Xor(w, o)] = dataMem[Xor(w, o)][o]
        BY <3>3, <4>1
      <4>3. dataMem[Xor(w, o)][o] \in Words
        BY <1>3, <4>1
      <4>4. Resident(t, w)
        BY <2>2 DEF Resident
      <4>5. Over(Merged(wbuf, t, o), dataMem[Xor(w, o)][o]) = truth[t][o]
        BY <1>1, <4>4 DEF BanksCurrent
      <4>6. Merged(wbuf, t, o) = <<>>
        BY <3>1 DEF Merged
      <4> QED BY <4>2, <4>3, <4>5, <4>6, OverLaws
    <3>5. truth[t] = [o \in Way |-> truth[t][o]]
      BY <1>3 DEF Contents
    <3>6. BlockSent' = [o \in Way |-> dataOut'[Xor(w, o)]]
      BY <2>1, <2>2, <2>6 DEF BlockSent, BlockRead, Xor
    <3> QED BY <2>1, <2>2, <3>2, <3>4, <3>5, <3>6
  <2> QED BY <2>1, <2>3, <2>5, <2>6
<1>5. ASSUME cmdSt' = "wb_not_dirty" PROVE cmd'.tag \notin unsaved'
  <2>1. ~CmdDone(g, rdy) /\ cmd # None
    BY <1>1, <1>2, <1>5, CmdMoves
  <2>2. cmd' = cmd
    BY <1>2, <2>1, CmdStays
  <2>3. cmdSt \in {"wb", "wb_not_dirty"} /\ (cmdSt = "wb" => ~dirtyOut[cmd.way])
    BY <1>2, <1>5 DEF LceCmd, CmdReady, CmdTransfer, CmdWb, CmdWbDirty, CmdWbNotDirty, Finish
  <2>4. cmd.op = "WB"
    BY <1>1, <2>3 DEF CmdInv
  <2>5. StoreHit => tv.tag # cmd.tag
    BY <2>3, <2>4, HitHome
  <2>6. cmd.tag \notin unsaved
    <3>1. CASE cmdSt = "wb_not_dirty"
      BY <3>1 DEF AnswersAreCurrent
    <3>2. CASE cmdSt = "wb"
      <4> SUFFICES ASSUME cmd.tag \in unsaved PROVE FALSE
        OBVIOUS
      <4>1. PICK w \in Way : /\ Home(cmd.tag, w)
                             /\ dirty[w] \/ (cmd = Wback(cmd.tag, w) /\ cmdSt = "wb_dirty")
        BY DEF CacheInv, StoresKnown
      <4>2. cmd.tag \in Tag
        BY <1>3
      <4>3. w = cmd.way
        BY <1>1, <2>4, <4>1, <4>2, HomeOfWb
      <4> QED BY <2>3, <3>2, <4>1, <4>3 DEF CacheInv, DirtyRead
    <3> QED BY <2>3, <3>1, <3>2
  <2> QED BY <1>2, <2>2, <2>5, <2>6 DEF History
<1> QED BY <1>4, <1>5 DEF AnswersAreCurrent, BlockOut

\* What a load that enters TV will answer if it hits.
LEMMA LoadsStep ==
  ASSUME TypeOK, CacheInv, TypeOK', NEW take, NEW psn, NEW rdy, Tick(take, psn, rdy)
  PROVE  LoadsAreCurrent'
<1> PICK g : g = Granted(take)
  OBVIOUS
<1>1. /\ ScriptInv /\ ReqInv /\ PipeEmptyInMiss /\ PipeTags /\ LoadRead
      /\ PlacesKept /\ BanksCurrent
  BY DEF CacheInv
<1>2. TvStage(psn) /\ History(g, rdy)
  BY TickParts
<1> SUFFICES ASSUME IsLoad(tv)', LoadHits' # {}
             PROVE  LoadData' = truth'[tv'.tag][tv'.word]
  BY DEF LoadsAreCurrent
<1>3. tl # None /\ IsLoad(tl)
      /\ tv' = [op |-> "load", tag |-> tl.tag, word |-> tl.word,
                tags |-> tagOut, banks |-> dataOut, bypass |-> Bypass(tl)]
  BY <1>2, AccessFacts DEF TvStage, IsLoad, None
<1>4. tl.tag \in Tag /\ tl.word \in Way
  BY <1>3, AccessFacts DEF TypeOK
<1>5. tagOut = tagMem /\ dataOut = [b \in Way |-> dataMem[b][tl.word]]
  BY <1>1, <1>3 DEF PipeTags, LoadRead
<1> PICK t, o, v : t = tl.tag /\ o = tl.word /\ v = tv'
  OBVIOUS
<1>6. LoadHits' = {w \in Way : Holds(w, t)}
  BY <1>3, <1>5 DEF LoadHits, Holds
<1> DEFINE hits == {w \in Way : Holds(w, t)}
<1> PICK w : w = Lowest(hits)
  OBVIOUS
<1>7. w \in Way /\ Holds(w, t)
  BY <1>6, LowestIn
<1>8. LoadHitWay' = w
  BY <1>6 DEF LoadHitWay, Lowest
<1>9. NotAwaited /\ fill = None
  BY <1>1, <1>3, PipeUsed
<1>10. Resident(t, w) /\ ~FillGranted(g)
  BY <1>7, <1>9 DEF Resident, FillGranted
<1>11. Over(Merged(Buffered, t, o), dataMem[Xor(w, o)][o]) = truth'[t][o]
  BY <1>1, <1>2, <1>4, <1>7, <1>10, BufferedCurrent
<1>12. LoadData' = Over(v.bypass, v.banks[Xor(w, o)])
  BY <1>3, <1>8 DEF LoadData, Over, Xor
<1>13. v.bypass = Merged(Buffered, t, o) /\ v.banks[Xor(w, o)] = dataMem[Xor(w, o)][o]
  <2>1. Xor(w, o) \in Way
    BY <1>4, <1>7, XorFacts
  <2> QED BY <1>3, <1>5, <2>1, BypassIsMerged
<1> QED BY <1>3, <1>11, <1>12, <1>13

\* Together.
LEMMA InvStep ==
  ASSUME TypeOK, CacheInv, AnswersAreCurrent, NEW take, NEW psn, NEW rdy,
         Tick(take, psn, rdy)
  PROVE  TypeOK' /\ CacheInv' /\ AnswersAreCurrent' /\ LoadsAreCurrent'
<1> PICK g : g = Granted(take)
  OBVIOUS
<1>1. /\ TagMem(g) /\ Cce(g, rdy) /\ LceCmd(g, rdy) /\ History(g, rdy)
  BY TickParts
<1>2. PICK m : LceReq(Missed, m, g, rdy)
  BY TickParts
<1>3. /\ CmdInv /\ ScriptInv /\ UniqueTags /\ PipeEmptyInMiss /\ PlacesKept
  BY DEF CacheInv
<1>4. TypeOK'
  BY TypeStep
<1>5. CmdInv'
  BY <1>1, <1>3, CmdStep
<1>6. ScriptInv'
  BY <1>1, <1>2, ScriptStep
<1>7. ReqInv' /\ Lacking' /\ VictimKnown'
  BY ReqStep, LackingStep, VictimStep
<1>8. PipeEmptyInMiss' /\ PlacesKept'
  BY <1>3, EmptyStep, PlacesStep
<1>9. UniqueTags' /\ PipeTags'
  BY <1>1, <1>3, UniqueStep, TagsStep
<1>10. StoresKnown' /\ DirtyRead' /\ BufferInv'
  BY <1>3, StoresStep, DirtyReadStep, BufferStep
<1>11. BanksCurrent' /\ LoadRead'
  BY <1>6, <1>9, BanksStep, LoadReadStep
<1>12. AnswersAreCurrent' /\ LoadsAreCurrent'
  BY <1>4, AnswersStep, LoadsStep
<1> QED BY <1>4, <1>5, <1>6, <1>7, <1>8, <1>9, <1>10, <1>11, <1>12 DEF CacheInv

\* The invariant that every step keeps.
FullInv == TypeOK /\ CacheInv /\ AnswersAreCurrent /\ LoadsAreCurrent

\* The first state.
LEMMA InitInv == Init => FullInv
<1> SUFFICES ASSUME Init PROVE FullInv
  OBVIOUS
<1>1. /\ tl = None /\ tv = None
      /\ tagMem = NoTags /\ tagOut = NoTags
      /\ dataMem = [b \in Way |-> NoData]
      /\ dataOut = NoData
      /\ dirty = NoDirty /\ dirtyOut = NoDirty
      /\ wbuf = <<>>
  BY DEF Init, CacheInit
<1>2. /\ cmd = None /\ fill = None
      /\ cmdSt = "ready" /\ done = {} /\ buf = EmptyBuf
      /\ reqSt = "ready" /\ miss = NoMiss /\ flopped = FALSE /\ rcv = {}
      /\ timer = 0
  BY DEF Init, LceInit
<1>3. /\ offered = FALSE /\ lost = FALSE
      /\ req = None /\ serving = FALSE /\ due = FALSE /\ todo = <<>>
      /\ unsaved = {}
  BY DEF Init
<1>4. truth \in [Tag -> Contents]
  <2>1. (CHOOSE v \in FillVal : TRUE) \in FillVal
    BY DCacheAssumption
  <2>2. [o \in Way |-> [b \in Byte |-> CHOOSE v \in FillVal : TRUE]] \in Contents
    BY <2>1 DEF Contents
  <2>3. truth \in [Tag -> {[o \in Way |-> [b \in Byte |-> CHOOSE v \in FillVal : TRUE]]}]
    BY DEF Init
  <2> DEFINE c == [o \in Way |-> [b \in Byte |-> CHOOSE v \in FillVal : TRUE]]
  <2> HIDE DEF c
  <2> QED BY <2>2, <2>3 DEF c
<1>5. \A w \in Way : tagMem[w] = Invalid /\ tagMem[w].st = "I" /\ ~dirty[w]
  BY <1>1 DEF NoTags, NoDirty, Invalid
<1>6. TypeOK
  <2>1. {tagMem, tagOut} \subseteq [Way -> Entries]
    BY <1>1 DEF NoTags, Entries
  <2>2. NoWord \in Words
    BY DEF NoWord, Words
  <2>3. dataMem \in [Way -> [Way -> Words]] /\ dataOut \in [Way -> Words]
    BY <1>1, <2>2 DEF NoData
  <2>4. {dirty, dirtyOut} \subseteq [Way -> BOOLEAN]
    BY <1>1 DEF NoDirty
  <2>5. /\ cmdSt \in CmdState /\ done \subseteq Progress /\ reqSt \in ReqState
        /\ timer \in 0 .. TimeoutMax
    BY <1>2, DcLceAssumption DEF CmdState, Progress, ReqState
  <2>6. \A S : <<>> \in Seq(S)
    OBVIOUS
  <2> QED BY <1>1, <1>2, <1>3, <1>4, <2>1, <2>3, <2>4, <2>5, <2>6 DEF TypeOK
<1>7. CmdInv /\ ScriptInv /\ ReqInv /\ Lacking /\ VictimKnown
  BY <1>2, <1>3 DEF CmdInv, ScriptInv, NotAwaited, CceIdle, ReqInv, Lacking, VictimKnown,
     Acknowledging
<1>8. PipeEmptyInMiss /\ UniqueTags /\ PipeTags
  BY <1>1, <1>2, <1>5 DEF PipeEmptyInMiss, UniqueTags, Holds, PipeTags
<1>9. PlacesKept /\ StoresKnown /\ DirtyRead /\ BufferInv
  <2>1. Len(wbuf) = 0 /\ InTl = 0 /\ InTv = 0
    BY <1>1 DEF InTl, InTv
  <2> QED BY <1>1, <1>2, <1>3, <2>1 DEF PlacesKept, StoresKnown, DirtyRead, BufferInv
<1>10. BanksCurrent /\ LoadRead
  <2>1. \A t, w : ~WbAsked(t, w)
    BY <1>2, <1>3, PendingNone, CommandFacts DEF WbAsked
  <2> QED BY <1>1, <1>2, <1>5, <2>1 DEF BanksCurrent, Resident, Holds, Arrived, LoadRead
<1>11. AnswersAreCurrent /\ LoadsAreCurrent
  BY <1>1, <1>2, AccessFacts DEF AnswersAreCurrent, LoadsAreCurrent
<1> QED BY <1>6, <1>7, <1>8, <1>9, <1>10, <1>11 DEF CacheInv, FullInv

\* A step that changes nothing changes none of the invariant.
LEMMA InvStutter == FullInv /\ UNCHANGED vars => FullInv'
<1> SUFFICES ASSUME FullInv, UNCHANGED vars PROVE FullInv'
  OBVIOUS
<1>1. /\ tl' = tl /\ tv' = tv /\ tagMem' = tagMem /\ tagOut' = tagOut
      /\ dataMem' = dataMem /\ dataOut' = dataOut /\ dirty' = dirty
      /\ dirtyOut' = dirtyOut /\ wbuf' = wbuf /\ cmdSt' = cmdSt /\ done' = done
      /\ buf' = buf /\ reqSt' = reqSt /\ miss' = miss /\ flopped' = flopped
      /\ rcv' = rcv /\ timer' = timer /\ cmd' = cmd /\ fill' = fill /\ req' = req
      /\ serving' = serving /\ due' = due /\ todo' = todo /\ truth' = truth
      /\ unsaved' = unsaved /\ offered' = offered /\ lost' = lost
  BY DEF vars, cacheVars, cmdFsm, reqFsm, envVars, history
<1>2. TypeOK'
  BY <1>1 DEF FullInv, TypeOK
<1>3. (CmdInv /\ ReqInv /\ Lacking /\ VictimKnown)'
  BY <1>1 DEF FullInv, CacheInv, CmdInv, ReqInv, Lacking, VictimKnown, Holds, LruDirty,
     Acknowledging
<1>4. \A q : Left(q)' <=> Left(q)
  BY <1>1 DEF Left
<1>5. \A t, w : WbAsked(t, w)' <=> WbAsked(t, w)
  BY <1>1 DEF WbAsked, Pending, Wback, Command
<1>6. ScriptInv'
  <2>1. \A t, w : ToInvalidate(t, w)' <=> ToInvalidate(t, w)
    BY <1>1 DEF ToInvalidate, Left, Inv, Transfer, Wback, Command, Entry
  <2>2. \A t, w : Invalidated(t, w)' <=> Invalidated(t, w)
    BY <1>1 DEF Invalidated, Gone, Holds, Left, Inv, Transfer, Wback, Command
  <2>3. BeingTaken' <=> BeingTaken
    BY <2>1, <2>2 DEF BeingTaken
  <2>4. /\ NotAwaited' <=> NotAwaited
        /\ CceIdle' <=> CceIdle
    BY <1>1 DEF NotAwaited, CceIdle
  <2>5. Upgrading' <=> Upgrading
    BY <1>1 DEF Upgrading, NotAwaited, Left, Command, Entry
  <2>6. Evicting' <=> Evicting
    BY <1>1 DEF Evicting, Gone, Holds, Left, Wback, SetTag, Command, Entry
  <2>7. TagAwaited' <=> TagAwaited
    BY <1>1 DEF TagAwaited, Gone, Holds, Left, SetTag, Command
  <2>8. TagCame' <=> TagCame
    BY <1>1 DEF TagCame, Holds
  <2>9. /\ BlockAwaited' <=> BlockAwaited
        /\ BlockCame' <=> BlockCame
    BY <1>1 DEF BlockAwaited, BlockCame, Arrived
  <2>10. Filling' <=> Filling
    BY <1>1, <2>7, <2>8, <2>9 DEF Filling
  <2> QED BY <1>1, <2>3, <2>4, <2>5, <2>6, <2>10 DEF FullInv, CacheInv, ScriptInv
<1>7. (PipeEmptyInMiss /\ UniqueTags /\ PipeTags)'
  BY <1>1, <1>5 DEF FullInv, CacheInv, PipeEmptyInMiss, UniqueTags, Holds, PipeTags,
     Overtaken, Gone
<1>8. (PlacesKept /\ StoresKnown /\ DirtyRead /\ BufferInv)'
  BY <1>1, <1>5 DEF FullInv, CacheInv, PlacesKept, StoresKnown, DirtyRead, BufferInv, Home,
     BlockOut, Entry, InTl, InTv, Wback, Command
<1>9. (BanksCurrent /\ LoadRead)'
  <2>1. \A t, w : Resident(t, w)' <=> Resident(t, w)
    BY <1>1, <1>5 DEF Resident, Holds, NotAwaited, Arrived
  <2>2. \A t, o, w : /\ Merged(wbuf, t, o)' = Merged(wbuf, t, o)
                     /\ dataMem'[Xor(w, o)] = dataMem[Xor(w, o)]
    BY <1>1 DEF Merged, Over
  <2>3. BanksCurrent'
    <3> SUFFICES ASSUME NEW t \in Tag, NEW w \in Way, Resident(t, w)', NEW o \in Way
                 PROVE  Over(Merged(wbuf, t, o)', dataMem'[Xor(w, o)][o]) = truth'[t][o]
      BY DEF BanksCurrent, Over, Xor
    <3>1. Over(Merged(wbuf, t, o), dataMem[Xor(w, o)][o]) = truth[t][o]
      BY <2>1 DEF FullInv, CacheInv, BanksCurrent
    <3> QED BY <1>1, <2>2, <3>1
  <2>4. LoadRead'
    BY <1>1 DEF FullInv, CacheInv, LoadRead
  <2> QED BY <2>3, <2>4
<1>10. (AnswersAreCurrent /\ LoadsAreCurrent)'
  <2>1. BlockSent' = BlockSent
    BY <1>1 DEF BlockSent, BlockRead, Xor
  <2>2. LoadHits' = LoadHits
    BY <1>1 DEF LoadHits
  <2>3. LoadHitWay' = LoadHitWay
    BY <2>2 DEF LoadHitWay, Lowest
  <2>4. LoadData' = LoadData
    BY <1>1, <2>3 DEF LoadData, Over, Xor
  <2>5. AnswersAreCurrent'
    BY <1>1, <2>1 DEF FullInv, AnswersAreCurrent
  <2>6. LoadsAreCurrent'
    BY <1>1, <2>2, <2>4 DEF FullInv, LoadsAreCurrent
  <2> QED BY <2>5, <2>6
<1> QED BY <1>2, <1>3, <1>6, <1>7, <1>8, <1>9, <1>10 DEF FullInv, CacheInv

\* The invariant holds in every cycle.
THEOREM InvHolds == Spec => []FullInv
<1>1. FullInv /\ [Next]_vars => FullInv'
  <2> SUFFICES ASSUME FullInv, [Next]_vars PROVE FullInv'
    OBVIOUS
  <2>1. CASE Next
    BY <2>1, NextIsTick, InvStep DEF FullInv
  <2>2. CASE UNCHANGED vars
    BY <2>2, InvStutter
  <2> QED BY <2>1, <2>2
<1> QED BY <1>1, InitInv, PTL DEF Spec
-----------------------------------------------------------------------------
(* The properties.                                                         *)

\* In every cycle, what the registers, the memories and the messages hold is
\* of the kind that the code writes to them; the output of a memory that was
\* not read may be anything.
THEOREM TypeCorrect == Spec => []TypeOK
<1>1. FullInv => TypeOK
  BY DEF FullInv
<1> QED BY <1>1, InvHolds, PTL

\* Each command, fill and miss is at a point of a request where the tags, the
\* dirty bits, the write buffer and the banks are as CacheInv says; most of all,
\* the banks with the write buffer over them are the blocks (BanksCurrent).
THEOREM CacheInvHolds == Spec => []CacheInv
<1>1. FullInv => CacheInv
  BY DEF FullInv
<1> QED BY <1>1, InvHolds, PTL

\* The ways in which an access may hit hold its block, but for one that has
\* just been invalidated, whose block is in no way.
LEMMA HitsAreOne ==
  ASSUME TypeOK, CacheInv, tv # None, NEW v \in Way, NEW w \in Way,
         tv.tags[v].tag = tv.tag, tv.tags[v].st # "I",
         tv.tags[w].tag = tv.tag, tv.tags[w].st # "I"
  PROVE  v = w
<1>1. tv.tag \in Tag
  BY DEF TypeOK, InTvLoads, InTvStores
<1>2. UniqueTags /\ PipeTags
  BY DEF CacheInv
<1>3. CASE tv.tags = tagMem
  BY <1>1, <1>2, <1>3 DEF UniqueTags, Holds
<1>4. CASE \E x \in Way : Overtaken(x)
  <2>1. PICK x \in Way : Overtaken(x)
    BY <1>4
  <2>2. v # x => Holds(v, tv.tag)
    BY <2>1 DEF Overtaken, Holds
  <2>3. w # x => Holds(w, tv.tag)
    BY <2>1 DEF Overtaken, Holds
  <2>4. v = x \/ w = x => Gone(tv.tag)
    BY <2>1 DEF Overtaken
  <2> QED BY <1>1, <1>2, <2>2, <2>3, <2>4 DEF UniqueTags, Gone
<1> QED BY <1>2, <1>3, <1>4 DEF PipeTags

\* A load or a store in TV hits in at most one way, also when the block has
\* been invalidated since it read the tags (bp_be_dcache.v:890-897).
THEOREM HitsInOneWay == Spec => []OneHit
<1>1. FullInv => OneHit
  <2> SUFFICES ASSUME TypeOK, CacheInv PROVE OneHit
    BY DEF FullInv
  <2>1. ASSUME IsLoad(tv), NEW v \in LoadHits, NEW w \in LoadHits PROVE v = w
    <3>1. tv # None
      BY <2>1, AccessFacts
    <3> QED BY <2>1, <3>1, HitsAreOne DEF LoadHits
  <2>2. ASSUME IsStore(tv), NEW v \in StoreHits, NEW w \in StoreHits PROVE v = w
    <3>1. tv # None
      BY <2>2, AccessFacts
    <3>2. \A x \in StoreHits : /\ x \in Way /\ tv.tags[x].tag = tv.tag
                               /\ tv.tags[x].st # "I"
      BY DEF StoreHits
    <3> QED BY <2>2, <3>1, <3>2, HitsAreOne
  <2> QED BY <2>1, <2>2 DEF OneHit
<1> QED BY <1>1, InvHolds, PTL

\* A block with stores that no other copy has is held exclusively, or the
\* command that takes it away has not been answered: no fill, invalidation or
\* null writeback makes a store disappear.
THEOREM StoresAreKept == Spec => []NoStoreLost
<1>1. FullInv => NoStoreLost
  <2> SUFFICES ASSUME TypeOK, CacheInv, NEW t \in unsaved
               PROVE  \/ \E w \in Way : tagMem[w].st = "E" /\ tagMem[w].tag = t
                      \/ t \in Taking(cmd)
                      \/ \E i \in DOMAIN todo : t \in Taking(todo[i])
    BY DEF FullInv, NoStoreLost
  <2>1. PICK w \in Way : Home(t, w)
    BY DEF CacheInv, StoresKnown
  <2>2. CASE tagMem[w] = Entry(t, "E")
    BY <2>2, EntryFacts DEF Entry
  <2>3. CASE WbAsked(t, w)
    <3>1. t \in Taking(Wback(t, w))
      BY CommandFacts DEF Taking
    <3> QED BY <2>3, <3>1 DEF WbAsked, Pending
  <2> QED BY <2>1, <2>2, <2>3 DEF Home
<1> QED BY <1>1, InvHolds, PTL

\* A load that hits answers the newest store to every byte: what the bypass
\* took from TV and the write buffer, over what the bank held when it was read.
THEOREM LoadsSeeStores == Spec => []LoadsAreCurrent
<1>1. FullInv => LoadsAreCurrent
  BY DEF FullInv
<1> QED BY <1>1, InvHolds, PTL

\* A block that is transferred or written back is sent with every store, those
\* included that hit after its invalidation; a null writeback loses none.
THEOREM AnswersSeeStores == Spec => []AnswersAreCurrent
<1>1. FullInv => AnswersAreCurrent
  BY DEF FullInv
<1> QED BY <1>1, InvHolds, PTL

\* The write buffer never has to take a third store, though nothing holds a
\* store back when it is full (bp_be_dcache_wbuf.v:101-110).
THEOREM WriteBufferHolds == Spec => []WriteBufferFits
<1>1. FullInv => WriteBufferFits
  <2> SUFFICES ASSUME TypeOK, PlacesKept PROVE WriteBufferFits
    BY DEF FullInv, CacheInv
  <2>1. Len(wbuf) \in Nat
    BY DEF TypeOK
  <2>2. InTl \in {0, 1} /\ InTv \in {0, 1}
    BY DEF InTl, InTv
  <2> QED BY <2>1, <2>2 DEF PlacesKept, WriteBufferFits
<1> QED BY <1>1, InvHolds, PTL

\* No access can miss while a miss is served, so none goes unnoticed.
THEOREM MissesAreNoticed == Spec => []MissIsNoticed
<1>1. FullInv => MissIsNoticed
  <2> SUFFICES ASSUME PipeEmptyInMiss PROVE MissIsNoticed
    BY DEF FullInv, CacheInv
  <2>1. ~(Missed /\ tv = None)
    BY AccessFacts DEF Missed
  <2> QED BY <2>1 DEF PipeEmptyInMiss, MissIsNoticed
<1> QED BY <1>1, InvHolds, PTL
=============================================================================
