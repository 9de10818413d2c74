------------------------------ MODULE DcSystem ------------------------------
(***************************************************************************)
(* The data cache between the pipeline that uses it and the CCE.  The      *)
(* pipeline presents an access one cycle after the cache was ready         *)
(* (bp_be_detector.v, bp_be_pipe_mem.v) and poisons what is younger than a *)
(* miss.  The CCE is what its microcode lets the cache see: it invalidates *)
(* a block before it takes it away, has a dirty victim written back before *)
(* it serves a miss, and serves one miss or one other cache at a time.     *)
(***************************************************************************)
EXTENDS DCache

VARIABLES
  offered,   \* mmu_cmd_ready_o in the last cycle: an access may be in EX1
  lost,      \* the access in EX1 was not taken in the last cycle
  req,       \* the request at the CCE, or None
  serving,   \* the CCE serves it
  due,       \* the block that it asks for is to come
  todo,      \* the commands that are to come
  truth,     \* the blocks as the accesses of the pipe should see them
  unsaved    \* the blocks with a store that no other copy holds

envVars == <<cmd, fill, req, serving, due, todo>>
history == <<truth, unsaved>>
vars == <<cacheVars, cmdFsm, reqFsm, timer, envVars, history, offered, lost>>

Command(op, t, w, st) == [op |-> op, tag |-> t, way |-> w, st |-> st]
Commands == [op : {"INV", "TR", "WB", "ST", "STW"}, tag : Tag, way : Way,
             st : {"I", "S", "E"}]
Blocks == [Way -> [Byte -> FillVal]]
Fills == [op : {"fill"}, tr : BOOLEAN, tag : Tag, way : Way, data : Blocks]
Contents == [Way -> [Byte -> FillVal \cup StoreVal]]

Init ==
  /\ CacheInit /\ LceInit
  /\ offered = FALSE /\ lost = FALSE
  /\ req = None /\ serving = FALSE /\ due = FALSE /\ todo = <<>>
  /\ truth \in [Tag -> {[o \in Way |-> [b \in Byte |-> CHOOSE v \in FillVal : TRUE]]}]
  /\ unsaved = {}
-----------------------------------------------------------------------------
(* The CCE, after the events of this cycle.                                *)

CmdLeft(g, rdy) == IF CmdDone(g, rdy) THEN None ELSE cmd
FillLeft(g) == IF FillGranted(g) THEN None ELSE fill
MissOver(g, rdy) == MissAcked(rdy) \/ Woken(g)
ReqLeft(g, rdy) ==
  IF Requested(rdy) THEN Request ELSE IF MissOver(g, rdy) THEN None ELSE req

Receive(g, rdy) ==
  /\ cmd' = CmdLeft(g, rdy)
  /\ fill' = FillLeft(g)

CceWaits(g, rdy) ==
  /\ Receive(g, rdy)
  /\ serving' = (serving /\ ~MissOver(g, rdy))
  /\ UNCHANGED <<due, todo>>

\* The next command arrives.
CceCommands(g, rdy) ==
  /\ CmdLeft(g, rdy) = None /\ todo # <<>>
  /\ cmd' = Head(todo) /\ todo' = Tail(todo)
  /\ fill' = FillLeft(g)
  /\ UNCHANGED <<serving, due>>

WritebackAsked(g, rdy) ==
  \E c \in {CmdLeft(g, rdy)} \cup {todo[i] : i \in DOMAIN todo} : c.op = "WB"

\* The block arrives, from memory or from another cache, once the victim has
\* been written back; its tag comes on another channel.
CceFills(g, rdy) ==
  /\ due /\ ~WritebackAsked(g, rdy)
  /\ \E data \in Blocks, tr \in BOOLEAN :
       fill' = [op |-> "fill", tr |-> tr, tag |-> req.tag, way |-> req.way,
                data |-> data]
  /\ due' = FALSE
  /\ cmd' = CmdLeft(g, rdy)
  /\ UNCHANGED <<serving, todo>>

CceIdle == ~serving /\ cmd = None /\ todo = <<>>

\* Another cache asks for a block that this one holds: it is invalidated and,
\* if it was exclusive, transferred and written back, or written back.
CceTakes(g, rdy) ==
  /\ CceIdle
  /\ \E w \in Way :
       LET take(op) == Command(op, tagMem[w].tag, w, "I")
       IN  /\ tagMem[w].st # "I"
           /\ todo' \in IF tagMem[w].st = "S" THEN {<<take("INV")>>}
                        ELSE {<<take("INV"), take("WB")>>,
                              <<take("INV"), take("TR"), take("WB")>>}
  /\ Receive(g, rdy)
  /\ UNCHANGED <<serving, due>>

\* The request is served: an upgrade, or a block with the victim written back
\* before.
CceServes(g, rdy) ==
  LET shared == {w \in Way : tagMem[w] = [tag |-> req.tag, st |-> "S"]}
      evict == IF tagMem[req.way].st = "E" /\ req.dirty
               THEN <<Command("WB", tagMem[req.way].tag, req.way, "I")>>
               ELSE <<>>
  IN  /\ CceIdle /\ req # None
      /\ serving' = TRUE
      /\ IF req.wr /\ shared # {}
         THEN /\ \E w \in shared :
                   todo' = <<Command("STW", req.tag, w, "E")>>
              /\ due' = FALSE
         ELSE /\ \E st \in IF req.wr THEN {"E"} ELSE {"S", "E"} :
                   todo' = Append(evict, Command("ST", req.tag, req.way, st))
              /\ due' = TRUE
      /\ Receive(g, rdy)

Cce(g, rdy) ==
  /\ req' = ReqLeft(g, rdy)
  /\ \/ CceWaits(g, rdy)
     \/ CceCommands(g, rdy)
     \/ CceFills(g, rdy)
     \/ CceTakes(g, rdy)
     \/ CceServes(g, rdy)
-----------------------------------------------------------------------------
(* What the accesses that leave TV and the coherence traffic mean.         *)

History(g, rdy) ==
  /\ truth' = IF StoreHit
              THEN [truth EXCEPT ![tv.tag][tv.word] = Over(tv.data, @)]
              ELSE IF FillGranted(g) THEN [truth EXCEPT ![fill.tag] = fill.data]
              ELSE truth
  /\ unsaved' = (unsaved \cup (IF StoreHit THEN {tv.tag} ELSE {}))
                \ (IF WroteBack(g, rdy) THEN {cmd.tag} ELSE {})

\* One cycle: take enters the cache, psn poisons what is younger than TV.
Step(take, psn, rdy) ==
  /\ Cycle(take, psn, rdy)
  /\ Cce(Granted(take), rdy)
  /\ History(Granted(take), rdy)
  /\ offered' = Ready

\* Mutation: a miss does not poison what is younger.
PoisonNever(psn) == TRUE

\* chk_psn_ex_i: at least in the cycle of a miss.
Poison(psn) == Missed => psn

\* The access in EX1 enters the cache.
Accept(a, rdy) ==
  /\ offered /\ Ready
  /\ Step(a, FALSE, rdy)
  /\ lost' = FALSE

\* Nothing is in EX1, or it is poisoned.
Bubble(psn, rdy) ==
  /\ Poison(psn)
  /\ Step(None, psn, rdy)
  /\ lost' = FALSE

\* The access in EX1 is not poisoned, and the cache is not ready any more.
NotTaken(rdy) ==
  /\ offered /\ ~Ready
  /\ Poison(FALSE)
  /\ Step(None, FALSE, rdy)
  /\ lost' = TRUE

Clock(rdy) ==
  \/ \E a \in Access : Accept(a, rdy)
  \/ \E psn \in BOOLEAN : Bubble(psn, rdy)
  \/ NotTaken(rdy)

Next == \E rdy \in SUBSET Offers : Clock(rdy)

Spec == Init /\ [][Next]_vars

\* The clock ticks, a channel in time accepts what is offered on it, and the
\* CCE in time serves a request and sends what it has to send.  Nothing is
\* assumed of the pipeline: it may present an access in every cycle.
Fairness ==
  /\ WF_vars(Next)
  /\ \A c \in Channel :
       WF_vars(\E rdy \in SUBSET Offers : c \in rdy /\ Clock(rdy))
  /\ WF_vars(Next /\ todo # <<>> /\ todo' = Tail(todo))
  /\ WF_vars(Next /\ due /\ ~due')
  /\ WF_vars(Next /\ ~serving /\ serving')

FairSpec == Spec /\ Fairness
-----------------------------------------------------------------------------
Words == [Byte -> FillVal \cup StoreVal \cup {Undefined}]
Entries == [tag : Tag, st : {"S", "E"}] \cup {Invalid}
Writes == UNION {[m -> StoreVal] : m \in Masks}

Pieces == UNION {[m -> StoreVal] : m \in SUBSET Byte}
InTvLoads == [op : {"load"}, tag : Tag, word : Way, tags : [Way -> Entries],
              banks : [Way -> Words], bypass : Pieces]
InTvStores == [op : {"store"}, tag : Tag, word : Way, tags : [Way -> Entries],
               data : Writes]
Misses == [wr : BOOLEAN, tag : Tag, way : Way, dirty : BOOLEAN]

TypeOK ==
  /\ tl \in Access \cup {None}
  /\ tv \in InTvLoads \cup InTvStores \cup {None}
  /\ {tagMem, tagOut} \subseteq [Way -> Entries]
  /\ dataMem \in [Way -> [Way -> Words]]
  /\ dataOut \in [Way -> Words]
  /\ {dirty, dirtyOut} \subseteq [Way -> BOOLEAN]
  /\ wbuf \in Seq([tag : Tag, word : Way, way : Way, data : Writes])
  /\ cmd \in Commands \cup {None}
  /\ todo \in Seq(Commands)
  /\ fill \in Fills \cup {None}
  /\ cmdSt \in CmdState /\ done \subseteq Progress
  /\ buf = EmptyBuf \/ buf \in [Way -> Words]
  /\ reqSt \in ReqState
  /\ miss \in Misses \cup {NoMiss} /\ req \in Misses \cup {None}
  /\ flopped \in BOOLEAN /\ rcv \subseteq {"data", "tr", "tag"}
  /\ timer \in 0 .. TimeoutMax
  /\ {offered, lost, serving, due} \subseteq BOOLEAN
  /\ truth \in [Tag -> Contents] /\ unsaved \subseteq Tag

\* A load that hits answers the newest store to every byte, wherever that
\* store is: in the banks, in either entry of the write buffer or in TV.
LoadsAreCurrent ==
  IsLoad(tv) /\ LoadHits # {} => LoadData = truth[tv.tag][tv.word]

\* What leaves the cache has every store: also one that read its tag before
\* the invalidation and hits after it.  A null writeback is sent for a block
\* without stores.
AnswersAreCurrent ==
  /\ cmdSt = "tr" \/ (cmdSt = "wb_dirty" /\ "read" \in done)
       => BlockSent = truth[cmd.tag]
  /\ cmdSt = "wb_not_dirty" => cmd.tag \notin unsaved

Taking(c) == IF c.op \in {"INV", "TR", "WB"} THEN {c.tag} ELSE {}

\* A stored block is held, or on its way out, until it has been written back.
NoStoreLost ==
  unsaved \subseteq {tagMem[w].tag : w \in {v \in Way : tagMem[v].st = "E"}}
                    \cup Taking(cmd)
                    \cup UNION {Taking(todo[i]) : i \in DOMAIN todo}

\* wbuf_v_o has no case for a third entry (bp_be_dcache_wbuf.v:101-110).
WriteBufferFits == Len(wbuf) <= 2

\* A miss that comes while another one is served would go unnoticed.
MissIsNoticed == Missed => reqSt = "ready"

\* The assertions of bp_be_dcache.v:890-897.
OneHit ==
  /\ IsLoad(tv) => \A v, w \in LoadHits : v = w
  /\ IsStore(tv) => \A v, w \in StoreHits : v = w

\* The timer "allows [the LCE] to access mem by creating a free slot"
\* (bp_be_dcache_lce.v:458-463), though the write buffer and the bubbles'
\* way through TV come first: no command waits for ever.
CommandsEnd == cmd # None ~> cmd = None

\* "cache_miss_o remains asserted until the miss is resolved"
\* (bp_be_dcache_lce.v:22-23), and every miss is.
MissesEnd == reqSt # "ready" ~> reqSt = "ready"

\* "this signal indicates that there will be no hazards from this point on"
\* (bp_be_detector.v:24-26): what was dispatched is taken by the cache.
DispatchedIsTaken == ~lost
=============================================================================
