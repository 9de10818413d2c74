-------------------------------- MODULE DcLce --------------------------------
(***************************************************************************)
(* The coherence engine of the data cache, cycle by cycle: the command     *)
(* state machine (bp_be_dcache_lce_cmd.v), the miss state machine          *)
(* (bp_be_dcache_lce_req.v), the fill path (bp_be_dcache_lce_data_cmd.v,   *)
(* bp_be_dcache_lce_tr.v) and the timer and arbiters that join them        *)
(* (bp_be_dcache_lce.v).  The engine asks for the cache memories with      *)
(* packets; the cache grants each of them or not in the same cycle.  A     *)
(* grant is a record g of three Booleans; rdy is the set of outgoing       *)
(* channels that accept a message in this cycle.                           *)
(***************************************************************************)
EXTENDS Integers, Sequences

CONSTANTS
  NumWay,      \* ways_p: ways of the set, and words of a block; at most 8
  Tag,         \* the blocks that map to the set
  Byte,        \* the bytes of a word
  TimeoutMax   \* timeout_max_limit_p

ASSUME DcLceAssumption == NumWay \in {1, 2, 4, 8} /\ TimeoutMax \in Nat

VARIABLES
  cmd,       \* the command at the head of lce_cmd_fifo, or None
  fill,      \* the block at the head of the data command or transfer FIFO
  cmdSt,     \* state_r of lce_cmd
  done,      \* its progress flags that are set
  buf,       \* data_buf_r
  reqSt,     \* state_r of lce_req
  miss,      \* the miss: direction, tag, victim way and its dirty bit
  flopped,   \* dirty_lru_flopped_r
  rcv,       \* which of tr_received_r, cce_data_received_r, tag_set_r are set
  timer,     \* timeout_count_r
  dataOut,   \* the output of the data banks
  dirtyOut   \* the dirty bits of the output of stat_mem

cmdFsm == <<cmdSt, done, buf>>
reqFsm == <<reqSt, miss, flopped, rcv>>

None == [op |-> "none"]
Way == 0 .. NumWay - 1
Channel == {"req", "resp", "data", "tr"}

\* The exclusive or of two way or word numbers.
Xor(a, b) ==
  LET bit(i) == i * (((a \div i) + (b \div i)) % 2)
  IN  bit(1) + bit(2) + bit(4)

CmdState == {"ready", "tr", "wb", "wb_dirty", "wb_not_dirty"}
ReqState == {"ready", "send", "sleep", "tr_ack", "coh_ack"}
Progress == {"invalidated", "read", "buffered", "cleared"}
-----------------------------------------------------------------------------
(* The packets and the messages of this cycle.                             *)

CmdIs(types) == cmdSt = "ready" /\ cmd # None /\ cmd.op \in types

CmdReads == CmdIs({"TR"}) \/ (cmdSt = "wb_dirty" /\ "read" \notin done)

\* A fill goes before a command's read.
DataPkt == fill # None \/ CmdReads
ReadGranted(g) == g.data /\ fill = None
FillGranted(g) == g.data /\ fill # None

SetsTag == CmdIs({"ST", "STW"})
Invalidates == CmdIs({"INV"}) /\ "invalidated" \notin done
TagPkt == SetsTag \/ Invalidates

\* The dirty bit is cleared as soon as the block is, or is being, read.
ClearsDirty(dataGranted) ==
  /\ cmdSt = "wb_dirty"
  /\ "cleared" \notin done
  /\ "read" \in done \/ (dataGranted /\ fill = None)
ReadsStat == CmdIs({"WB"})
StatPkt(dataGranted) == ReadsStat \/ ClearsDirty(dataGranted)

Acknowledging == reqSt \in {"tr_ack", "coh_ack"}

\* The acknowledgement of a miss goes before that of an invalidation.
InvAcked(g, rdy) ==
  /\ CmdIs({"INV"})
  /\ "invalidated" \in done \/ g.tag
  /\ ~Acknowledging /\ "resp" \in rdy

Transferred(rdy) == cmdSt = "tr" /\ "tr" \in rdy

WroteBack(g, rdy) ==
  /\ cmdSt = "wb_dirty"
  /\ "read" \in done
  /\ "cleared" \in done \/ g.stat
  /\ "data" \in rdy

WroteNull(rdy) == cmdSt = "wb_not_dirty" /\ "data" \in rdy

CmdDone(g, rdy) ==
  \/ SetsTag /\ g.tag
  \/ InvAcked(g, rdy)
  \/ Transferred(rdy)
  \/ WroteBack(g, rdy)
  \/ WroteNull(rdy)

\* Mutation: the words of a block are not put back in order.
BlockReadInBankOrder == dataOut

\* The block that the data banks have read, its words in order.
BlockRead == [o \in Way |-> dataOut[Xor(cmd.way, o)]]

\* The block that is sent: from the buffer, or directly after the read.
BlockSent == IF "buffered" \in done THEN buf ELSE BlockRead
-----------------------------------------------------------------------------
(* lce_cmd: a command stays in its FIFO until it has been answered.  The   *)
(* buffer is forgotten with the command: the next one fills it again.      *)

EmptyBuf == <<>>

CmdReady(g, rdy) ==
  /\ cmdSt = "ready"
  /\ cmdSt' = IF CmdIs({"TR"}) /\ ReadGranted(g) THEN "tr"
              ELSE IF ReadsStat /\ g.stat THEN "wb" ELSE "ready"
  /\ done' = IF CmdIs({"INV"}) /\ ~InvAcked(g, rdy) /\ g.tag
             THEN {"invalidated"}
             ELSE IF InvAcked(g, rdy) THEN {} ELSE done
  /\ UNCHANGED buf

Finish == cmdSt' = "ready" /\ done' = {} /\ buf' = EmptyBuf

CmdTransfer(rdy) ==
  /\ cmdSt = "tr"
  /\ IF Transferred(rdy) THEN Finish
     ELSE /\ done' = {"buffered"}
          /\ buf' = BlockSent
          /\ UNCHANGED cmdSt

CmdWb ==
  /\ cmdSt = "wb"
  /\ cmdSt' = IF dirtyOut[cmd.way] THEN "wb_dirty" ELSE "wb_not_dirty"
  /\ UNCHANGED <<done, buf>>

CmdWbDirty(g, rdy) ==
  /\ cmdSt = "wb_dirty"
  /\ IF WroteBack(g, rdy) THEN Finish
     ELSE /\ done' = done \cup (IF ReadGranted(g) THEN {"read"} ELSE {})
                          \cup (IF "read" \in done THEN {"buffered"} ELSE {})
                          \cup (IF g.stat THEN {"cleared"} ELSE {})
          /\ buf' = IF "read" \in done THEN BlockSent ELSE buf
          /\ UNCHANGED cmdSt

CmdWbNotDirty(rdy) ==
  /\ cmdSt = "wb_not_dirty"
  /\ IF WroteNull(rdy) THEN Finish ELSE UNCHANGED cmdFsm

LceCmd(g, rdy) ==
  \/ CmdReady(g, rdy)
  \/ CmdTransfer(rdy)
  \/ CmdWb
  \/ CmdWbDirty(g, rdy)
  \/ CmdWbNotDirty(rdy)
-----------------------------------------------------------------------------
(* lce_req.  A miss is the record of the instruction; the victim is chosen *)
(* by the cache.  The registers of a miss that is over are forgotten: the  *)
(* next miss loads them again.                                             *)

NoMiss == [wr |-> FALSE, tag |-> None, way |-> 0, dirty |-> FALSE]

Forget == miss' = NoMiss /\ flopped' = FALSE /\ rcv' = {}

ReqReady(missed, m) ==
  /\ reqSt = "ready"
  /\ IF missed
     THEN reqSt' = "send" /\ miss' = m /\ flopped' = FALSE /\ rcv' = {}
     ELSE UNCHANGED reqFsm

\* Mutation: the dirty bit is read again in every cycle of the wait.
LruDirtyUnflopped == dirtyOut[miss.way]

\* The victim's dirty bit is there in the first cycle after the miss only.
LruDirty == IF flopped THEN miss.dirty ELSE dirtyOut[miss.way]

Request == [miss EXCEPT !.dirty = LruDirty]
Requested(rdy) == reqSt = "send" /\ "req" \in rdy

ReqSend(rdy) ==
  /\ reqSt = "send"
  /\ flopped' = TRUE
  /\ miss' = Request
  /\ reqSt' = IF Requested(rdy) THEN "sleep" ELSE "send"
  /\ UNCHANGED rcv

\* Mutation: what came in an earlier cycle is forgotten.
ReceivedNow(g) ==
  (IF FillGranted(g) THEN {IF fill.tr THEN "tr" ELSE "data"} ELSE {})
  \cup (IF CmdIs({"ST"}) /\ g.tag THEN {"tag"} ELSE {})

\* What has come, with this cycle's.
Received(g) ==
  rcv \cup (IF FillGranted(g) THEN {IF fill.tr THEN "tr" ELSE "data"} ELSE {})
      \cup (IF CmdIs({"ST"}) /\ g.tag THEN {"tag"} ELSE {})

Woken(g) == reqSt = "sleep" /\ CmdIs({"STW"}) /\ g.tag

ReqSleep(g) ==
  /\ reqSt = "sleep"
  /\ reqSt' = IF Woken(g) THEN "ready"
              ELSE IF "tag" \notin Received(g) THEN "sleep"
              ELSE IF "tr" \in Received(g) THEN "tr_ack"
              ELSE IF "data" \in Received(g) THEN "coh_ack" ELSE "sleep"
  /\ IF Woken(g) THEN Forget
     ELSE rcv' = Received(g) /\ UNCHANGED <<miss, flopped>>

MissAcked(rdy) == Acknowledging /\ "resp" \in rdy

ReqAck(rdy) ==
  /\ Acknowledging
  /\ IF MissAcked(rdy) THEN reqSt' = "ready" /\ Forget ELSE UNCHANGED reqFsm

LceReq(missed, m, g, rdy) ==
  ReqReady(missed, m) \/ ReqSend(rdy) \/ ReqSleep(g) \/ ReqAck(rdy)
-----------------------------------------------------------------------------
\* Mutation: the timer never closes the pipe.
TimeoutNever == FALSE

\* The timer closes the pipe for a cycle when nothing was granted for long.
Timeout == timer = TimeoutMax

Timer(g) ==
  timer' = IF \/ Timeout
              \/ g.data \/ g.tag \/ g.stat
              \/ ~(DataPkt \/ TagPkt \/ StatPkt(g.data))
           THEN 0 ELSE timer + 1

\* The channels on which something may be offered in this cycle.
Offers ==
  (IF reqSt = "send" THEN {"req"} ELSE {})
  \cup (IF Acknowledging \/ CmdIs({"INV"}) THEN {"resp"} ELSE {})
  \cup (IF cmdSt \in {"wb_dirty", "wb_not_dirty"} THEN {"data"} ELSE {})
  \cup (IF cmdSt = "tr" THEN {"tr"} ELSE {})

LceInit ==
  /\ cmd = None /\ fill = None
  /\ cmdSt = "ready" /\ done = {} /\ buf = EmptyBuf
  /\ reqSt = "ready" /\ miss = NoMiss /\ flopped = FALSE /\ rcv = {}
  /\ timer = 0
=============================================================================
