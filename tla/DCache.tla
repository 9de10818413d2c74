------------------------------- MODULE DCache -------------------------------
(***************************************************************************)
(* The data cache of the back end (bp_be_dcache.v, bp_be_dcache_wbuf.v,    *)
(* bp_be_dcache_wbuf_queue.v), cycle by cycle: an access reads the tags    *)
(* and, if it is a load, all data banks when it is taken, passes the stage *)
(* TL and hits or misses in the stage TV.  A store that hits goes through  *)
(* the write buffer, which writes the banks in cycles that no load takes.  *)
(* The memories are shared with the coherence engine DcLce.  One set is    *)
(* modelled.  A word of the banks is a function of its bytes; what a store *)
(* writes is such a function on the bytes of its mask.                     *)
(***************************************************************************)
EXTENDS DcLce

CONSTANTS
  Masks,      \* the byte masks of the store sizes
  StoreVal,   \* the values of a byte that stores write
  FillVal     \* the values of a byte that memory returns

ASSUME DCacheAssumption == Masks \subseteq SUBSET Byte /\ FillVal # {}

VARIABLES
  tl,        \* the access in TL, or None
  tv,        \* the access in TV with what it has read, or None
  tagMem,    \* tag_mem
  tagOut,    \* its output, for the access in TL
  dataMem,   \* data_mem: bank and row
  dirty,     \* the dirty bits of stat_mem
  wbuf       \* the write buffer, oldest entry (el1) first

cacheVars == <<tl, tv, tagMem, tagOut, dataMem, dataOut, dirty, dirtyOut, wbuf>>

Loads == [op : {"load"}, tag : Tag, word : Way]
Stores == [op : {"store"}, tag : Tag, word : Way,
           data : UNION {[m -> StoreVal] : m \in Masks}]
Access == Loads \cup Stores

\* The output of a memory that was not read in the last cycle is not defined:
\* no value that was ever written, and the bit that would lose a store.
Undefined == -1
NoWord == [b \in Byte |-> Undefined]
NoData == [b \in Way |-> NoWord]
NoDirty == [w \in Way |-> FALSE]
\* The tag of an invalid way is compared with nothing.
Invalid == [tag |-> None, st |-> "I"]
NoTags == [w \in Way |-> Invalid]

\* The bytes of new where it has any, those of old elsewhere.
Over(new, old) ==
  [b \in DOMAIN new \cup DOMAIN old |->
     IF b \in DOMAIN new THEN new[b] ELSE old[b]]
-----------------------------------------------------------------------------
(* TV: hit or miss.                                                        *)

IsLoad(a) == a.op = "load"
IsStore(a) == a.op = "store"

LoadHits == {w \in Way : tv.tags[w].tag = tv.tag /\ tv.tags[w].st # "I"}
StoreHits == {w \in Way : tv.tags[w] = [tag |-> tv.tag, st |-> "E"]}

Lowest(ways) == CHOOSE w \in ways : \A x \in ways : w <= x
LoadHitWay == Lowest(LoadHits)
StoreHitWay == Lowest(StoreHits)

\* load_miss_tv or store_miss_tv.
Missed == \/ IsLoad(tv) /\ LoadHits = {}
          \/ IsStore(tv) /\ StoreHits = {}
StoreHit == IsStore(tv) /\ StoreHits # {}

\* What a load answers: bypassed bytes over the word of the way that hits.
LoadData == Over(tv.bypass, tv.banks[Xor(LoadHitWay, tv.word)])

\* lce_lru_way_li: the first invalid way, or else any that the pseudo LRU tree
\* may point at.
Victims ==
  LET invalid == {w \in Way : tv.tags[w].st = "I"}
  IN  IF invalid = {} THEN Way ELSE {Lowest(invalid)}

MissOf(w) == [wr |-> IsStore(tv), tag |-> tv.tag, way |-> w, dirty |-> FALSE]

\* cache_miss_o and ready_o, after the synchronisation with the CCE.
CacheMiss == reqSt # "ready" \/ Missed

\* Mutation: the timer does not close the pipe.
ReadyUntimed == ~CacheMiss

Ready == ~Timeout /\ ~CacheMiss
-----------------------------------------------------------------------------
(* The memories' arbitration.  take is what enters TL in this cycle.       *)

Taken(take) == take # None

\* The store that leaves TV, if it hits, and what the write buffer offers.
Leaving ==
  IF StoreHit
  THEN <<[tag |-> tv.tag, word |-> tv.word, way |-> StoreHitWay,
          data |-> tv.data]>>
  ELSE <<>>
Buffered == wbuf \o Leaving

\* Mutation: the write buffer gives way to stores as well.
DrainsWhenIdle(take) == Buffered # <<>> /\ ~Taken(take)

\* The banks are free for the write buffer unless a load reads them.
Drains(take) == Buffered # <<>> /\ ~IsLoad(take)

\* The engine comes last: lce_snoop_match_lo is implied by wbuf_v_lo.
DataGranted(take) == DataPkt /\ ~IsLoad(take) /\ Buffered = <<>>

\* Mutation: the dirty bits are read while a store sets one.
StatGrantedAlways(take) == StatPkt(DataGranted(take))

StatGranted(take) == StatPkt(DataGranted(take)) /\ tv = None

Granted(take) ==
  [data |-> DataGranted(take),
   tag  |-> TagPkt /\ ~Taken(take),
   stat |-> StatGranted(take)]
-----------------------------------------------------------------------------
(* One cycle of each part.  psn is poison_i.                               *)

TlStage(take) ==
  /\ tl' = take
  /\ tagOut' = IF Taken(take) THEN tagMem ELSE NoTags

\* Mutation: the store in TV is not looked at.
BypassBuffered(a) ==
  LET match(i) == wbuf[i].tag = a.tag /\ wbuf[i].word = a.word
      bytes(i) == IF match(i) THEN wbuf[i].data ELSE <<>>
  IN  CASE Len(wbuf) = 0 -> <<>>
        [] Len(wbuf) = 1 -> bytes(1)
        [] OTHER -> Over(bytes(2), bytes(1))

\* The younger of two stores to a byte wins; the one in TV is the youngest.
Bypass(a) ==
  LET match(i) == Buffered[i].tag = a.tag /\ Buffered[i].word = a.word
      bytes(i) == IF match(i) THEN Buffered[i].data ELSE <<>>
  IN  CASE Len(Buffered) = 0 -> <<>>
        [] Len(Buffered) = 1 -> bytes(1)
        [] Len(Buffered) = 2 -> Over(bytes(2), bytes(1))
        [] OTHER -> Over(bytes(3), Over(bytes(2), bytes(1)))

TvStage(psn) ==
  tv' = IF tl = None \/ psn THEN None
        ELSE IF IsLoad(tl)
        THEN [op |-> "load", tag |-> tl.tag, word |-> tl.word,
              tags |-> tagOut, banks |-> dataOut, bypass |-> Bypass(tl)]
        ELSE [op |-> "store", tag |-> tl.tag, word |-> tl.word,
              tags |-> tagOut, data |-> tl.data]

WriteBuffer(take) ==
  wbuf' = IF Drains(take) THEN Tail(Buffered) ELSE Buffered

\* Mutation: a block is filled without the interleaving of the banks.
FilledStraight == [b \in Way |-> [o \in Way |->
                    IF o = fill.way THEN fill.data[b] ELSE dataMem[b][o]]]

\* Word o of the block in way w is in bank w xor o, row o.
Filled == [b \in Way |-> [o \in Way |->
            IF b = Xor(fill.way, o) THEN fill.data[o] ELSE dataMem[b][o]]]

\* A store writes its bytes of one bank; a fill writes a row of every bank.
DataMem(take, g) ==
  LET e == Head(Buffered)
      bank == Xor(e.way, e.word)
  IN  /\ dataMem' = IF Drains(take)
                    THEN [dataMem EXCEPT ![bank][e.word] = Over(e.data, @)]
                    ELSE IF FillGranted(g) THEN Filled ELSE dataMem
      /\ dataOut' = IF IsLoad(take) THEN [b \in Way |-> dataMem[b][take.word]]
                    ELSE IF ReadGranted(g)
                    THEN [b \in Way |-> dataMem[b][Xor(cmd.way, b)]]
                    ELSE NoData

\* Mutation: a tag is set in the way that the request named.
TagWayOfMiss == miss.way

\* The way that a set tag command writes.
TagWay == cmd.way

TagMem(g) ==
  tagMem' = IF ~g.tag THEN tagMem
            ELSE IF SetsTag
            THEN [tagMem EXCEPT ![TagWay] = [tag |-> cmd.tag, st |-> cmd.st]]
            ELSE [tagMem EXCEPT ![cmd.way] = Invalid]

\* An access in TV reads the dirty bits when it misses, and a store that hits
\* sets one; otherwise the engine reads them or clears one.
StatMem(take, g) ==
  /\ dirty' = IF StoreHit THEN [dirty EXCEPT ![StoreHitWay] = TRUE]
              ELSE IF g.stat /\ ClearsDirty(g.data)
              THEN [dirty EXCEPT ![cmd.way] = FALSE] ELSE dirty
  /\ dirtyOut' = IF Missed \/ (g.stat /\ ReadsStat) THEN dirty ELSE NoDirty

CacheInit ==
  /\ tl = None /\ tv = None
  /\ tagMem = NoTags /\ tagOut = NoTags
  /\ dataMem = [b \in Way |-> NoData]
  /\ dataOut = NoData
  /\ dirty = NoDirty /\ dirtyOut = NoDirty
  /\ wbuf = <<>>

\* A cycle in which take enters the pipe.
Cycle(take, psn, rdy) ==
  LET g == Granted(take)
  IN  /\ TlStage(take) /\ TvStage(psn) /\ WriteBuffer(take)
      /\ DataMem(take, g) /\ TagMem(g) /\ StatMem(take, g)
      /\ LceCmd(g, rdy)
      /\ \E w \in IF Missed THEN Victims ELSE {0} :
           LceReq(Missed, IF Missed THEN MissOf(w) ELSE NoMiss, g, rdy)
      /\ Timer(g)
=============================================================================
