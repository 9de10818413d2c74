---------------------------- MODULE DcInvariant ----------------------------
(***************************************************************************)
(* The inductive invariant of the data cache in its surroundings, part by  *)
(* part: how far the CCE and the engine are with the commands and the fill *)
(* of a request, what the accesses in the pipe know of the tags, where the *)
(* stores of a block are, and that the banks with the write buffer on top  *)
(* of them hold the blocks.                                                *)
(***************************************************************************)
EXTENDS DcSystem

Inv(t, w) == Command("INV", t, w, "I")
Transfer(t, w) == Command("TR", t, w, "I")
Wback(t, w) == Command("WB", t, w, "I")

Entry(t, st) == [tag |-> t, st |-> st]
Holds(w, t) == tagMem[w].st # "I" /\ tagMem[w].tag = t
Gone(t) == \A w \in Way : ~Holds(w, t)

\* The commands q are left; the first of them may be at the engine.
Left(q) ==
  \/ cmd = None /\ todo = q
  \/ q # <<>> /\ cmd = Head(q) /\ todo = Tail(q)

Pending(c) == cmd = c \/ \E i \in DOMAIN todo : todo[i] = c
WbAsked(t, w) == Pending(Wback(t, w))
-----------------------------------------------------------------------------
(* The command machine.                                                    *)

CmdInv ==
  /\ cmdSt = "ready" => \/ done = {}
                        \/ done = {"invalidated"} /\ cmd.op = "INV"
  /\ cmdSt = "tr" => cmd.op = "TR" /\ done \subseteq {"buffered"}
  /\ cmdSt \in {"wb", "wb_not_dirty"} => cmd.op = "WB" /\ done = {}
  /\ cmdSt = "wb_dirty" =>
       /\ cmd.op = "WB" /\ done \subseteq {"read", "buffered", "cleared"}
       /\ "buffered" \in done => "read" \in done

\* The block of the command has been read.
BlockOut == cmdSt = "tr" \/ (cmdSt = "wb_dirty" /\ "read" \in done)
-----------------------------------------------------------------------------
(* What is left of the commands of a request, and the tags meanwhile.      *)

\* A block is taken away and has not been invalidated.
ToInvalidate(t, w) ==
  /\ done = {}
  /\ \/ Left(<<Inv(t, w)>>) /\ tagMem[w] = Entry(t, "S")
     \/ /\ \/ Left(<<Inv(t, w), Wback(t, w)>>)
           \/ Left(<<Inv(t, w), Transfer(t, w), Wback(t, w)>>)
        /\ tagMem[w] = Entry(t, "E")

\* It has been, and more is to come if it was exclusive.
Invalidated(t, w) ==
  /\ tagMem[w] = Invalid /\ Gone(t)
  /\ \/ /\ done = {"invalidated"}
        /\ \/ Left(<<Inv(t, w)>>)
           \/ Left(<<Inv(t, w), Wback(t, w)>>)
           \/ Left(<<Inv(t, w), Transfer(t, w), Wback(t, w)>>)
     \/ Left(<<Transfer(t, w), Wback(t, w)>>)
     \/ Left(<<Wback(t, w)>>)

BeingTaken == \E t \in Tag, w \in Way : ToInvalidate(t, w) \/ Invalidated(t, w)

NotAwaited == ~due /\ fill = None /\ rcv = {}

\* A shared copy is upgraded.
Upgrading ==
  /\ NotAwaited /\ reqSt = "sleep"
  /\ \E w \in Way : /\ Left(<<Command("STW", req.tag, w, "E")>>)
                    /\ tagMem[w] = Entry(req.tag, "S")

SetTag(st) == Command("ST", req.tag, req.way, st)

\* The victim is written back before anything else.
Evicting ==
  /\ due /\ fill = None /\ rcv = {} /\ reqSt = "sleep"
  /\ Gone(req.tag)
  /\ \E t \in Tag, st \in {"S", "E"} :
       /\ Left(<<Wback(t, req.way), SetTag(st)>>)
       /\ tagMem[req.way] = Entry(t, "E")

\* The tag comes, then it is there.
TagAwaited ==
  /\ "tag" \notin rcv /\ Gone(req.tag)
  /\ tagMem[req.way].st # "I" => tagMem[req.way].tag \notin unsaved
  /\ \E st \in {"S", "E"} : Left(<<SetTag(st)>>)
TagCame ==
  /\ "tag" \in rcv /\ Holds(req.way, req.tag)
  /\ cmd = None /\ todo = <<>>

\* So does the block, in any order with the tag.
Arrived == rcv \cap {"data", "tr"} # {}
BlockAwaited ==
  /\ ~Arrived
  /\ \/ due /\ fill = None
     \/ ~due /\ fill # None /\ fill.tag = req.tag /\ fill.way = req.way
BlockCame == Arrived /\ ~due /\ fill = None

Filling ==
  /\ TagAwaited \/ TagCame
  /\ BlockAwaited \/ BlockCame
  /\ reqSt \in IF TagCame /\ BlockCame THEN {"tr_ack", "coh_ack"} ELSE {"sleep"}

ScriptInv ==
  IF serving THEN req # None /\ (Upgrading \/ Evicting \/ Filling)
  ELSE NotAwaited /\ (CceIdle \/ BeingTaken)
-----------------------------------------------------------------------------
(* The miss: what the request says, and that the cache lacks the block.    *)

ReqInv ==
  /\ reqSt \in {"ready", "send"} => req = None
  /\ reqSt \notin {"ready", "send"} => req = miss
  /\ reqSt # "ready" => miss.tag \in Tag
  /\ Acknowledging => serving

Lacking ==
  reqSt # "ready" /\ ~serving =>
    \A w \in Way : Holds(w, miss.tag) => miss.wr /\ tagMem[w].st = "S"

\* If the victim is dirty the request says so.
VictimKnown ==
  /\ reqSt = "send" /\ dirty[miss.way] => LruDirty
  /\ reqSt = "sleep" /\ ~serving /\ dirty[req.way] => req.dirty
-----------------------------------------------------------------------------
(* The tags and the pipe.                                                  *)

\* Nothing enters the pipe until a miss is over.
PipeEmptyInMiss == reqSt # "ready" => tl = None /\ tv = None

UniqueTags == \A t \in Tag, v, w \in Way : Holds(v, t) /\ Holds(w, t) => v = w

\* The access in TV read its tags before an invalidation that has just been.
Overtaken(w) ==
  /\ tl = None /\ cmdSt = "ready"
  /\ tagMem[w] = Invalid
  /\ \A v \in Way \ {w} : tv.tags[v] = tagMem[v]
  /\ tv.tags[w].st # "I" /\ Gone(tv.tags[w].tag)
  /\ tv.tags[w].st = "E" => WbAsked(tv.tags[w].tag, w)

PipeTags ==
  /\ tl # None => tagOut = tagMem
  /\ tv # None => tv.tags = tagMem \/ \E w \in Way : Overtaken(w)
-----------------------------------------------------------------------------
(* The stores.                                                             *)

Home(t, w) == tagMem[w] = Entry(t, "E") \/ WbAsked(t, w)

\* The dirty bit of the way tells of every store not yet written back.
StoresKnown ==
  \A t \in unsaved : \E w \in Way :
    /\ Home(t, w)
    /\ dirty[w] \/ (cmd = Wback(t, w) /\ cmdSt = "wb_dirty")

InTl == IF tl # None /\ IsStore(tl) THEN 1 ELSE 0
InTv == IF tv # None /\ IsStore(tv) THEN 1 ELSE 0

\* Every store in the pipe has a place in the buffer.
PlacesKept == Len(wbuf) + InTl + InTv <= 2

DirtyRead == cmdSt = "wb" /\ dirty[cmd.way] => dirtyOut[cmd.way]

\* The write buffer holds stores to blocks that have not left.
BufferInv ==
  \A i \in DOMAIN wbuf :
    /\ wbuf[i].tag \in unsaved
    /\ Home(wbuf[i].tag, wbuf[i].way)
    /\ BlockOut => wbuf[i].tag # cmd.tag
-----------------------------------------------------------------------------
(* The blocks.                                                             *)

\* Way w of the banks belongs to block t.
Resident(t, w) ==
  \/ Holds(w, t) /\ (NotAwaited \/ w # req.way)
  \/ WbAsked(t, w)
  \/ Arrived /\ t = req.tag /\ w = req.way

\* The bytes that the stores of q write to a word, the youngest first.
Merged(q, t, o) ==
  LET bytes(i) == IF q[i].tag = t /\ q[i].word = o THEN q[i].data ELSE <<>>
  IN  CASE Len(q) = 0 -> <<>>
        [] Len(q) = 1 -> bytes(1)
        [] Len(q) = 2 -> Over(bytes(2), bytes(1))
        [] OTHER -> Over(bytes(3), Over(bytes(2), bytes(1)))

BanksCurrent ==
  \A t \in Tag, w \in Way : Resident(t, w) =>
    \A o \in Way :
      Over(Merged(wbuf, t, o), dataMem[Xor(w, o)][o]) = truth[t][o]

LoadRead ==
  tl # None /\ IsLoad(tl) => dataOut = [b \in Way |-> dataMem[b][tl.word]]

CacheInv ==
  /\ CmdInv /\ ScriptInv
  /\ ReqInv /\ Lacking /\ VictimKnown
  /\ PipeEmptyInMiss /\ UniqueTags /\ PipeTags
  /\ PlacesKept /\ StoresKnown /\ DirtyRead /\ BufferInv
  /\ BanksCurrent /\ LoadRead
=============================================================================
