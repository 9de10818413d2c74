--------------------------------- MODULE Me ---------------------------------
(***************************************************************************)
(* The memory end: LCEs, the CCE running demo-v2, the coherence network    *)
(* between them and the memory behind the CCE.                             *)
(***************************************************************************)
EXTENDS Cce, Lce

VARIABLE mem  \* the memory's contents

vars == <<netVars, lceVars, cceVars, mem>>

\* bp_mem serves a write first: it stores the block and returns the payload.
MemWrite ==
  /\ memDataCmd # <<>>
  /\ mem' = [mem EXCEPT ![Head(memDataCmd).tag] = Head(memDataCmd).data]
  /\ memResp' = Append(memResp, Head(memDataCmd).pl)
  /\ memDataCmd' = Tail(memDataCmd)
  /\ UNCHANGED <<pc, ctlVars, memCmd, memDataResp, netVars, lceVars>>

MemRead ==
  /\ memDataCmd = <<>>
  /\ memCmd # <<>>
  /\ memDataResp' = Append(memDataResp, [data |-> mem[Head(memCmd).tag],
                                         cmd |-> Head(memCmd)])
  /\ memCmd' = Tail(memCmd)
  /\ UNCHANGED <<pc, ctlVars, memDataCmd, memResp, netVars, lceVars, mem>>

Init ==
  /\ NetInit
  /\ CceInit
  /\ LceInit
  /\ mem \in [Tag -> Value]

Next ==
  \/ CceNext /\ UNCHANGED <<lceVars, mem>>
  \/ LceNext /\ UNCHANGED <<cceVars, mem>>
  \/ MemWrite
  \/ MemRead

Spec == Init /\ [][Next]_vars

\* Types of every message and register.  The one that is not by construction
\* is r0: the invalidation loop (demo-v2.S:75-92) stops before it names an
\* LCE that does not exist.
TypeOK ==
  /\ NetTypeOK
  /\ CceTypeOK
  /\ LceTypeOK
  /\ mem \in [Tag -> Value]

-----------------------------------------------------------------------------
(* Invariants.                                                             *)

\* Single copy: no two ways, of one cache or of two, are valid for the same
\* block.  The microcode never shares: a second requestor must first have
\* taken the block away from the first (demo-v2.S inv and transfer routines).
SingleCopy ==
  \A k, l \in LCE, v, w \in Way :
    /\ tags[k][v].st # "I" /\ tags[l][w].st # "I"
    /\ tags[k][v].tag = tags[l][w].tag
    => k = l /\ v = w

\* The fill under way: the directory already names the requestor as owner
\* (wde comes before the pushes), the tag array does not yet.
FillUnderWay(l, w) ==
  /\ l = req.lce /\ w = req.way
  /\ pc \in {"transfer_wb", "transfer_mem", "read_l2_tr", "mem_data_resp",
             "send_st", "coh_ack"}

\* The directory's invalidation under way: the directory forgets the copy when
\* it sends INV (wds), the tag array when the LCE handles it.
InvUnderWay(l, w) ==
  /\ lceCmd[l] # <<>>
  /\ Head(lceCmd[l]).type = "INV" /\ Head(lceCmd[l]).way = w
  /\ ~invd[l]

\* The directory is the tag arrays, but for the two transients above: whatever
\* it says of any other way is what that cache's tag memory holds.
DirectoryAccurate ==
  \A l \in LCE, w \in Way :
    \/ FillUnderWay(l, w)
    \/ InvUnderWay(l, w) /\ dir[l][w].st = "I"
    \/ dir[l][w].st = tags[l][w].st
       /\ (dir[l][w].st # "I" => dir[l][w].tag = tags[l][w].tag)

\* The sharer list of a block is a singleton at most, which bsg_encode_one_hot
\* in bp_cce_gad.v needs to name the transfer LCE.
OneSharer == \A t \in Tag : Cardinality(SharersHits(dir, t)) <= 1

\* The microcode never tests an acknowledgement's type ("TODO: check
\* ack_type"): every one it can pop is the one it waits for.
AcksMatch ==
  \A l \in LCE : lceResp[l] # <<>> =>
    LET m == Head(lceResp[l])
    IN  /\ m.tag = req.tag
        /\ pc \in {"inv_top", "inv_ack_top"} =>
             m.type = "inv_ack" /\ l \in gad.hits \ {req.lce}
        /\ pc = "coh_ack" => m.type = "coh_ack" /\ l = req.lce
        /\ pc \in {"inv_top", "inv_ack_top", "coh_ack"}

\* Writebacks answer the command outstanding: from the LCE and for the block
\* the microcode sends to memory.
WritebacksMatch ==
  \A l \in LCE : lceDataResp[l] # <<>> =>
    LET m == Head(lceDataResp[l])
    IN  \/ pc = "replace_wb" /\ l = req.lce /\ m.tag = gad.lruTag
        \/ pc = "transfer_wb" /\ l = gad.trLce /\ m.tag = req.tag

\* A replaced block is sent to memory without a look at the writeback's type,
\* so the LRU dirty bit of the request must still be right when the WB is
\* answered: a null writeback there would zero the block in memory.
ReplacementIsDirty ==
  pc = "replace_wb" =>
    \A l \in LCE : lceDataResp[l] # <<>> => Head(lceDataResp[l]).type = "wb"

\* A fill never lands on a way that still holds the only current copy of some
\* block: the victim was written back before, or never dirty.
FillsCleanWay ==
  \A l \in LCE :
    /\ lceDataCmd[l] # <<>> => ~dirty[l][Head(lceDataCmd[l]).way]
    /\ lceCmd[l] # <<>> /\ Head(lceCmd[l]).type = "ST" =>
         ~dirty[l][Head(lceCmd[l]).way]

\* Request by request: the pending bit is never found set and a request is
\* never an upgrade, so the microcode never stalls in error.
NeverStalls == pc # "error"

\* The commands and answers between the engine and an LCE.
InFlight(l) == Len(lceCmd[l]) + Len(lceResp[l]) + Len(lceDataResp[l])

\* The engine talks to one cache at a time, as a block never has a second owner
\* to invalidate: over all LCEs together there is at most one command or answer,
\* and at most one fill.  So the two-entry FIFOs the LCEs share for their answers
\* (bp_cce_top.v:162, 177), and those at each LCE for what it is sent, hold at
\* most one message, for any number of LCEs.  Not so the FIFO they share for their
\* requests (bp_cce_top.v:147): of those there is one per LCE, and it is full when
\* two of them miss while the engine is busy.  The others wait in the network of
\* the requests (bp_coherence_network.v:183), where nothing but requests is.
ChannelBound ==
  /\ \A l \in LCE : Len(lceReq[l]) <= 1 /\ InFlight(l) <= 1 /\ Len(lceDataCmd[l]) <= 1
  /\ \A k, l \in LCE :
       k # l => /\ InFlight(k) = 0 \/ InFlight(l) = 0
                /\ lceDataCmd[k] = <<>> \/ lceDataCmd[l] = <<>>

-----------------------------------------------------------------------------
(* Refinement: the caches together behave as one memory.                   *)

DirtyCopies(t) ==
  {c \in LCE \X Way : dirty[c[1]][c[2]] /\ tags[c[1]][c[2]].tag = t}

Writers(t) ==
  {l \in LCE : cmdSt[l] \in {"wb_read", "wb_cleared"} /\ Head(lceCmd[l]).tag = t}

WritebacksInFlight(t) ==
  {l \in LCE : lceDataResp[l] # <<>> /\ Head(lceDataResp[l]).tag = t
               /\ Head(lceDataResp[l]).type = "wb"}

\* Where the current contents of a block are: in the cache that wrote it, in
\* a writeback on its way, or in memory.
Current(t) ==
  IF DirtyCopies(t) # {}
  THEN LET c == CHOOSE x \in DirtyCopies(t) : TRUE IN data[c[1]][c[2]]
  ELSE IF Writers(t) # {} THEN buf[CHOOSE l \in Writers(t) : TRUE]
  ELSE IF WritebacksInFlight(t) # {}
  THEN Head(lceDataResp[CHOOSE l \in WritebacksInFlight(t) : TRUE]).data
  ELSE IF memDataCmd # <<>> /\ Head(memDataCmd).tag = t
  THEN Head(memDataCmd).data
  ELSE mem[t]

\* What an LCE's processor would load, while its pipe is open.
View(l) ==
  LET hits == IF lceSt[l] = "ready" THEN {t \in Tag : LoadHit(l, t)} ELSE {}
  IN  [t \in hits |-> data[l][CHOOSE w \in Way : /\ tags[l][w].tag = t
                                                 /\ tags[l][w].st # "I"]]

Atomic == INSTANCE AtomicMemory WITH
            Cache <- LCE, ReadOnly <- ICache, Block <- Tag, Content <- Value,
            memory <- [t \in Tag |-> Current(t)],
            view <- [l \in LCE |-> View(l)]

\* The memory end implements one atomic memory: only a store changes a block's
\* current contents, and every load that hits returns them.
ImplementsAtomicMemory == Atomic!Spec

-----------------------------------------------------------------------------
(* Liveness.                                                               *)

\* Clocked engines: each takes its next step when it can.  The LCE's arrays
\* are reached at the latest after its timeout (bp_be_dcache_lce.v:458-494).
\* Strong fairness for the requests: the routers arbitrate round-robin.
Fairness ==
  /\ WF_vars(CceNext /\ UNCHANGED <<lceVars, mem>>)
  /\ \A l \in LCE : SF_vars(LceReq(l) /\ UNCHANGED <<lceVars, mem>>)
  /\ \A l \in LCE : WF_vars(LceStep(l) /\ UNCHANGED <<cceVars, mem>>)
  /\ WF_vars(MemWrite)
  /\ WF_vars(MemRead)

FairSpec == Spec /\ Fairness

\* Every miss is answered: the LCE that asked opens its pipe again, however
\* the other caches' misses, invalidations and writebacks interleave with it.
MissesEnd == \A l \in LCE : (lceSt[l] # "ready") ~> (lceSt[l] = "ready")
=============================================================================
