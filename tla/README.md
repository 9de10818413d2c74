# Verification of the BlackParrot pre-alpha release

This directory holds TLA+ models of the BlackParrot RTL, the TLC runs that
check them and the TLAPS proofs about them.  Paths below are relative to the
repository root.

## 1. The system

BlackParrot is a cache-coherent RISC-V multicore in SystemVerilog.

| part | state it keeps | operations | talks to |
|---|---|---|---|
| FE (`bp_fe/src/v`): pc_gen, I$, ITLB, BHT/BTB | PC pipeline, predictor tables, cache arrays | fetch, predict, redirect, stall | BE by a queue of fetched instructions and a queue of commands; ME by its LCE |
| BE (`bp_be/src/v`): checker (director, detector, scheduler), calculator, MMU, D$ | expected next PC, pipeline of in-flight instructions, register file, D$ arrays, write buffer | issue, bypass, commit, roll back, flush, load, store | FE, ME by its LCE |
| LCEs (`bp_be_dcache_lce*.v`, `bp_fe_lce*.v`) | one miss, one command in progress, a block buffer | miss, fill, set tag, invalidate, write back, acknowledge | the L1 arrays; CCE over five channels |
| coherence network (`bp_me/src/v/network`) | two-entry FIFOs, wormhole routers | ordered delivery between one source and one destination of a channel | LCEs, CCE |
| CCE (`bp_me/src/v/cce`) | directory (way groups, pending bits), request registers and flags, microcode PC and registers | one microcode instruction per cycle from a program in `bp_me/src/asm/microcode/cce` | LCEs, memory |
| memory (`bp_me/test/common/bp_mem.v`) | blocks | read, write, with the request's registers carried along as payload | CCE |
| microcode assembler (`bp_me/src/asm/src/bp_as.cc`, the headers in `bp_me/src/include/c`) | line being read, statements, labels, the image written | read, collect labels, parse, write a word per statement | the ROM generator, which reads its output; the CCE's decoder, which must read the words as the headers write them |
| other tools (`*/software`, traces) | none | generate programs and traces | - |

What is hard here: the LCEs, the CCE, the memory and five channels run
concurrently and are ordered only within a channel; a fill is two messages on
two channels; the directory is written before the caches it describes change;
the microcode never looks at an acknowledgement's type; the dirty bit it
decides by is as old as the request; the CCE's request registers travel through
memory and come back; queues hold two entries; the LCE gets at the cache arrays
only when the pipeline leaves them idle; the issue queue keeps speculative
reads; redirects overtake fetched instructions.  There are no lost messages and
no crashes in this design, and no property is about them.

What makes each part right:
 * memory end: the caches behave as one memory; a block is owned once; the
   directory is what the caches hold; every miss ends;
 * CCE fetch: the pipelined fetch executes the program's sequential semantics;
 * assembler: the statements of a text are neither lost nor merged, a label is
   the address of its statement, and the word of a statement makes the decoder
   and the data path do what the statement says;
 * issue queue: what is read, rolled back and read again is what was written
   since the checkpoint, and the checkpoint is the oldest word of the pipe;
 * director, detector and bypass: the registers and the accesses to memory are
   those of the program run one instruction at a time (but for what a
   register read returns in the cycle of its write, see section 3), and a redirect is eventually answered;
 * D$ pipeline: a load sees the youngest older store, wherever it sits.

`PROJECT.json` lists every component with its sources, and under `hazards` the
places in the code where a test would hardly reach, with the properties that
cover them.

## 2. Modules

| module | models |
|---|---|
| `MeIf` | message types and channels (`bp_common_me_if.vh`, the network) |
| `CceGad` | `bp_cce_gad.v`: sharer list, flags, transfer LCE, the unit's assertions |
| `Cce` | the engine running `demo-v2.S`, directory, registers, memory ports |
| `Lce` | miss, command and fill state machines, and the arrays of one set |
| `Me` | the composition with `bp_mem.v`; all properties of the memory end |
| `AtomicMemory` | the abstract specification: one memory, exclusive permissions |
| `MCMe` | TLC instances |
| `MeInvariant` | the inductive invariant of the memory end, part by part |
| `MeCoherence` | type correctness; the invariant is inductive, and the safety theorems that follow |
| `MeMessages` | what the messages under way say fits the request, and what is known of victims and dirty ways: invariants, theorems, proofs |
| `MeAtomic` | the last value stored is never lost; the memory end implements `AtomicMemory`: theorems and proofs |
| `ReplayQueue` | the abstract FE queue: a FIFO with replay from a checkpoint |
| `RollyFifo` | `bsg_fifo_1r1w_rolly.v`: ring and three pointers |
| `RollyProofs` | `RollyFifo` implements `ReplayQueue`: theorem and proof |
| `BeIsa` | what the pipeline tells apart in an instruction |
| `SeqMachine` | the abstract processor: one instruction at a time |
| `BePipe` | checker and calculator around the FE queue; its properties |
| `MCBePipe` | TLC instances and the small programs they run |
| `BeProofs` | types, npc, the checkpoint; the back end implements `SeqMachine` but for stale operands: theorems and proofs |
| `DcLce` | the data cache's coherence engine cycle by cycle: command, miss and fill machines, arbiters, timer |
| `DCache` | `bp_be_dcache.v`: TL and TV stages, write buffer, banks, tag and dirty memories and who gets them |
| `DcSystem` | the data cache between the pipeline and the CCE; its properties |
| `DcInvariant` | the inductive invariant of the data cache, part by part |
| `MCDCache` | TLC instances |
| `DcProofs` | the invariant is inductive; all safety properties follow: theorems and proofs |
| `CceInst` | the layouts of a microcode word: the assembler's (`bp_cce_inst.h`) and the RTL's (`bp_cce_inst.vh`) |
| `AsmParse` | `bp_as.cc`, second half: the parser of each statement, its operand tables, the word it writes |
| `AsmText` | `bp_as.cc`, first half and `main`: arguments, lines, tokens, labels, the two passes |
| `CceIsa` | what `microcode/inst.txt` says a statement does, without any encoding |
| `CceDecode` | `bp_cce_inst_decode.v` and what each decoded field selects in the data path |
| `CceFetch` | `bp_cce_pc.v`: boot from the ROM, instruction RAM, pc, stall, branch |
| `Microcode` | the composition from text over ROM to execution; its properties |
| `MCMicrocode` | TLC instance: statements, layouts, programs |
| `InstProofs` | one instruction: its word, its fields, what the parser and the decoder make of it: theorems and proofs |
| `MicrocodeProofs` | types, boot and fetch, that no statement of a clear text is lost and that a CCE executes them in order: theorems and proofs |

### How the state and the steps correspond

*CCE.*  An action of `Cce` is one labelled block of `demo-v2.S` from one queue
instruction to the next.  Between two queue instructions the engine touches
only its own registers and directory, and everything an LCE or the memory can
do meanwhile commutes with that, so nothing is hidden by the grouping; what
interleaves - requests, acknowledgements, writebacks, fills - is an action of
its own.  `pc` is the label.  `req` is the request registers and the rqf/ldf
flags, `gad` what the last `gad` instruction latched, `r0` and `r2` the loop
registers of the invalidation routine.  `popq memResp` and `popq memDataResp`
restore the registers from the payload, as `bp_cce_reg.v` does.  A `stall` is
the label `error`, which has no step.

*LCE.*  `lceSt` is the state of `lce_req`, `cmdSt` that of `lce_cmd` with the
progress flags of a writeback folded in, so that the dirty bit lookup, the read
of the block and the clearing of the dirty bit are separate steps: the
processor's stores may come between them.  A command is dropped when its answer
has been accepted.  A fill (`RecvData`) writes the data array in whatever state
the miss machine is.  The coherence ack goes before the invalidation ack on
their shared channel.  LCEs in `ICache` are the front end's; they read only.

*Processor.*  Any load or store to any block may come at any time the pipe is
open (`lceSt = "ready"`): a miss is `Miss`, a store that hits is `Store`, a load
that hits changes nothing (the pseudo-LRU bits are abstracted into the choice of
a victim).

*Network.*  One FIFO per channel and LCE; no order across them.

*Abstractions of the memory end.*  One CCE and one cache set: the CCE serves one request at a
time and a request touches one set.  Tags and block contents are abstract.

*Data cache.*  A step of `DcSystem` is one clock cycle.  `DCache` and `DcLce` say
for each register what it holds after it; they meet in `Granted`, which of the
packets of the engine the memories accept in this cycle.  The order is the
code's: an access that enters TL has the tags and, if it is a load, the banks;
then the write buffer has the banks; then a fill, then the engine's read.  An
access in TV has the dirty bits.  What the model keeps of the data are bytes,
words and the interleaving of words over banks (`Xor`), since that is what the
bypass and the snooping can get wrong.

 * A memory that was not read in the last cycle has `Undefined` on its output; the
   dirty bits then read as clean, the value that would lose a store.
 * The pipeline presents an access one cycle after the cache was ready
   (`offered`): that is where `bp_be_detector.v` looks at `mmu_cmd_ready_o`.  It may
   squash what is younger at any time and must do so in the cycle of a miss
   (`Poison`); a squashed access and none are the same (`Bubble`).
 * The CCE sends what any of its microcode versions may send to one cache, for
   one request of this cache or of another at a time: invalidations, writebacks,
   transfers, set tag with or without wakeup.  It asks for the writeback of a
   victim only if the request says that it is dirty, so a wrong dirty bit has its
   consequence.  What one outgoing channel accepts in a cycle is open (`rdy`).
 * `truth` is the memory as the accesses that left TV have it, `unsaved` the
   blocks with a store that have not been written back.  Both are history: no
   action's guard reads them.
 * `lce_snoop_match_o` is left out: it is one of the terms of a conjunction of
   which `~wbuf_v_lo` is another that is never the weaker.

`Lce` and `DcLce` model the same engine on purpose.  `Lce` has one step per array
access and runs against other caches and the directory; there a store reaches
the array at once and memory access is fair.  `DcSystem` shows that this is what
the pipeline, the write buffer and the timer provide: `AnswersAreCurrent`,
`NoStoreLost` and `CommandsEnd`.

*Back end.*  A step of `BePipe` is one clock cycle; what the modules compute
combinationally in it is one action.  Which of the three applies is decided by
the cache's answer in MEM3 (`Rollback`), by a mispredicted word in ISD that has
not been announced (`Redirect`), or is everything else (`Flow`).  `isd` is
`issue_pkt_r`, `stage` is `calc_stage_r` with the exception and completion
registers that travel along, `npc` and `redirectPending` are the director's.

 * The FE queue appears as the two sequences of `ReplayQueue`; `RollyProofs` shows
   that the pointers of the real queue implement them.  What the users of the
   queue never do (a read with a rollback, a checkpoint with a rollback, a write
   with a clear) is left out of both.
 * An instruction that was rolled back, that does not decode or that is a nop has
   no effect from then on: a bubble.  A poisoned one still counts for the
   checkpoint, as `instr_cmt_v` does not look at `poison_v`.
 * A load may be answered any value; that it is the right one is the concern of
   the memory end.  The ALU is a sum modulo the word, and a word is a pc in
   instructions, an address and a value at once; pcs wrap around.
 * The register file is read in the cycle in which a word enters ISD or waits
   there; `irf` is what the read has delivered a cycle later.  If that cycle
   writes a register that the word reads (`Collision`), the read returns the value
   before or after the write.  `bp_be_regfile.v:11-12` says that it returns the old
   one, but the memory that decides it is not in the repository, and the log
   `bp_top/test/tb/bp_single_demo/rv64ui_p_add_rom_simout.txt:369-387` shows such a
   collision (of the write of x3 with a read of it) after which the branch that
   read it has the new value.  So both are possible.  `stale` is
   history: the registers an instruction was dispatched with an old value of.
 * The front end is anything that delivers the word at its pc, predicts one of
   the pcs in `Predict` and follows a redirect after any delay, stale words first.
   Its command queue has always room, since the front end takes a command in the
   cycle it sees it.  It is not sent commands other than redirects here.

*Microcode.*  The assembler is a sequential program: `mode` is where it is, and
one step is one option (`args`), one lexeme or one statement.  A text is a
sequence of lexemes, the characters that `readLine` tells apart and the runs of
words between them; a statement is the sequence of its words, an opcode or an
operand is a string that the tables of `AsmParse` look up as the `if` chains of
`bp_as.cc` do.  `tokens` and `labels` are what the first pass leaves, `image` the
words that the second has written.  `named` is history: the label, if any, that
each statement was written with.

 * What the program leaves unspecified is open: the constructor does not set
   `output_format`, and words from an earlier line may still lie behind the end
   of the current one (`Leftover`).  `WithEof` is what a word becomes when `fgetc`'s
   EOF is stored behind it as a character.
 * `Statements` is the text read without the assembler: its lines, those of them
   that are code, and their words.  `TextKept` compares the two where the text is
   `Clear`.  Among other things a clear text has no more statements than there are
   addresses (`AddrMod`); TLC's short texts would not have shown that this is
   needed, the proof did: a label at statement 65536, counted from 0, stands for
   address 0 again.
 * `Generate` is `roms.py`: it takes what the assembler has written and does not ask
   how it ended, so the ROM of a text with an error is a beginning of its image.
 * Numerals are those that `Stoi` gives a value; `StoiAssumption` says that it is
   an integer, and that the digits 0 to 6 are read as what they are.  inst.txt's
   targets and immediates are labels and numerals of 16 bits (`Numerals`).
 * Addresses are those of the assembler (16 bits, `AddrMod`) and of the RAM
   (`Els`), each wrapping at its own width; immediates are cut to the widths of
   their fields.
 * A step of `CceFetch` is one clock cycle.  The RAM has one port and answers a
   cycle later.  `stall` and `taken` are what decode and ALU answer: a choice
   among what the word at hand can give, since queues and operands are left
   open.  A word about which nothing is known (`Unknown`) may give anything.
 * `Effects` gives the facts that executing a word establishes, symbolically:
   <<destination, source>>, flags set, queues popped, the fields of a message.  It
   is built from the decoder and the muxes alone, `CceIsa` from the documented
   syntax alone; `EffectsAsWritten` compares the two.  `CceInst` keeps the assembler's
   layout and the RTL's apart for the same reason.

`AsmParse` has been compared with what the repository ships: it gives all 119 words
of the demo-v2 ROM and all 130 of the demo-v2-mesi ROM.

`CceIsa!Departs` names the documented statements to which the code gives another
meaning, all of them ends left open in this version: `wds` with a constant state
loses the constant and writes state I; `mov` to the next coherence state takes
the immediate; the pending queue is not built.  Branches that compare with 0 or
1 have no spelling the parser accepts.

## 3. Runs

| run | instance | states | shows |
|---|---|---|---|
| `me_coherence` | 2 LCEs (1 I$), 2 ways, 3 tags, 1 value | 892 k | types and the safety invariants |
| `me_atomic` | 2 D$, 1 way, 2 tags, 2 values | 569 k | the memory end implements `AtomicMemory`; every miss ends |
| `dc_pipe` | 1 way, 2 tags, 2 bytes, stores of 1 and 2 bytes, timer of 4 | 164 k | loads see the newest store, the cache gives away no block without its stores, the write buffer fits |
| `dc_ways` | 2 ways of 2 words, 2 tags, timer of 1 | 498 k | the same with interleaved banks and a choice of victim; a tag is in one way; the inductive invariant |
| `dc_liveness` | 1 way, 2 tags, 1 byte | 11 k | commands and misses end |
| `dc_drop` | as `dc_liveness`, the timer at 4 as in the code | stops early | violated: see the findings |
| `rolly_queue` | 4 slots, 2 words | 1.9 k | the FIFO implements `ReplayQueue` |
| `be_in_order` | 4 programs of 3 words, 3 registers, queue of 5 | 885 k | the back end implements `SeqMachine` but for stale operands; npc and checkpoint |
| `be_liveness` | 3 looping programs, queue of 4 | 90 k | redirects are answered, programs move on |
| `be_wedge` | a loop before data, queue of 4 | 229 | violated: see the findings |
| `microcode` | 550 statements alone, layouts of up to 4 lexemes, 13 programs; a RAM of 4 words | 93 k | the text is kept, words mean what they say, the fetch executes the ROM in order, everything ends |
| `microcode_labels` | as `microcode` | stops early | violated: see the findings |

In the data cache one way makes every miss evict and every command meet the block
in the pipe; two bytes and stores of one or both make three stores to one word
merge in every way the bypass can get them; two ways of two words are the least
with an interleaving that is not the identity.  The timer has the code's limit of
4 in `dc_pipe` and `dc_drop`; the lower limits of the other two let it fire more
often against everything else.  `StateView` hides `lost` and the truth about
blocks that the cache no longer knows of, which is set anew before it is read.

The programs of `MCBePipe` are chosen by what they put into the pipe together: a
load and its use, two writers of one register of which one is a load, a store
behind a miss, a computed jump, a branch taken and not taken, data behind a
jump.  The predictor may predict every word after every word, so most fetches
are wrong and stale ones abound; `FetchAhead` bounds only how many of them wait
unread.  The pipe holds four words that are in the queue (ISD to MEM3), so a queue
of five is the smallest that lets one more wait while the pipe is full, and a
queue of four the smallest that is full; the full and the empty queue both
occur.  For the ring itself, four slots let all three pointers wrap apart.

The bounds of the memory end are enough for what they are for: one tag more than ways makes every
block the victim of another; two ways make the choice of way and the sharer's
way matter; two LCEs give one owner and one requestor; that three or more
make no difference to the safety of the directory is what `MeCoherence` proves.  A fill, a writeback and
an invalidation all occur (each has a mutant that only their occurrence can
reveal).  Nothing is counted, so no counter needs a bound: the channels bound
themselves (`ChannelBound`).  Over all caches together there is at most one
command or answer and one fill, so of the two-entry FIFOs at the ends of the
channels those for commands, fills and answers never hold a second message.
The FIFO of the requests at the CCE (`bp_cce_top.v:147`), which all caches share,
does fill, when two of them miss while the engine is busy; further requests
wait in their own network, behind nothing but requests.  In the model each
cache has a request channel of its own, and which one is next is open.

The statements of `MCMicrocode` are every one of the syntax with each operand run
through all its words, and some that do not belong there, while the others stay
at one: the parser and the decoder treat operands one by one.  Four lexemes are
enough for two statements with what stands before, between and behind them,
which is all that `readLine` keeps from one character to the next.  One program
has a statement of more than `MaxTokens` words, others a label twice, a label
alone, an unknown word, a loop, a branch in the first and in the last place.  A
RAM of 4 words lets programs fill it exactly, be shorter, be longer and wrap
around.  The run does not check deadlock: an assembler stops.

`LiveView` hides, from the comparison of states only, registers that are always
written before they are read again; `Symmetry` permutes tags, which no
definition distinguishes.  `me_atomic` does without `Symmetry`, which is not sound
for liveness.  Its two data caches subsume an instruction cache, which is one that
never stores, as no fairness makes a cache store.

### Fairness

The hardware is clocked, so an engine that can take its next step takes it:
weak fairness of the CCE, of each LCE and of the memory.  For an LCE this
includes the access to the cache arrays, which `bp_be_dcache_lce.v:458-494`
forces by closing the pipe after a timeout.  Which of two waiting requests the
CCE pops is the routers' choice; they arbitrate round robin, which gives strong
fairness of `LceReq(l)` for each `l` (the routers come from a library outside
`src/`, so this is assumed from how they are used).  Nothing is assumed of the
processor: it need never load, store or miss.

For the data cache the clock gives weak fairness of `Next`; a channel in time accepts
what is offered, and the CCE in time serves a request and sends its commands and
its fill.  The pipeline is not assumed to pause: only the timer makes it, and
without the timer `CommandsEnd` fails.

For the back end the clock gives weak fairness of `Next`.  The rest is what it
may rely on from its surroundings: the front end, which has no condition to
wait for but room in the queue, in time delivers its next word and follows a
redirect; the data cache in time accepts an instruction, and does not let the
same one miss for ever - the memory end's `MissesEnd`.  These need strong
fairness because a rollback or a stall may interrupt the waiting.

The assembler is a sequential program that nothing waits for, and the CCE behind
it has a clock: weak fairness of `Next`.  Nothing is assumed of what stalls or
branches.

### Findings

 * `be_wedge` (code bug).  A word that does not decode is read from the FE queue,
   but `instr_cmt_v` (`bp_be_calculator_top.v:530`) requires `instr_v`, which the
   decoder leaves 0 for it, so the checkpoint never passes its slot.  A program
   need not execute such a word: it is enough that one lies behind a loop
   and is fetched down the wrong path.  Each time a slot is lost until a cache
   miss rolls the queue back to its checkpoint.  In a loop without a miss all slots go (16 in
   `bp_multi_top.v`), the front end can deliver nothing, and the redirect stays
   pending, although `bp_be_director.v:190-191` has it pending "until the correct
   instruction has been fetched".
 * `dc_drop` (code bug).  `bp_be_detector.v:151` dispatches when the cache is ready,
   but the access reaches the cache one cycle later, from EX1, and
   `bp_be_pipe_mem.v:96` marks `mmu_cmd_ready_i` unused there.  If the engine has been
   kept from the arrays long enough, the timer lowers `ready_o` in just that cycle
   (`bp_be_dcache_lce.v:496`), `tl_we` stays low and the access is dropped.  When
   the instruction reaches MEM3 no miss is reported, so a load commits
   whatever is on `data_o` and a store is lost.  `bp_be_detector.v:24-26` has it
   that after dispatch "there will be no hazards from this point on".
 * `microcode_labels` (code bug).  A label's address comes from the count of the
   newlines that ended statements (`bp_as.cc:858`), so behind a statement that a
   comment or a semicolon ended it points too low, and before the first such
   newline to 65535.  `bp_as.h:48` calls the map one "from assembly code to instruction
   addresses".  The shipped sources have neither.  `bp_as.cc:1176-1178` means to give up on a
   "Duplicate label", but looks it up with its colon while labels are stored
   without (1167-1169): the second place is taken and the first address stays,
   which `LabelsAreAddresses` does not allow either.

What `be_in_order` shows besides: a register that is read in the cycle of its
write is not forwarded.  The register file is written from the last stage of the
pipe (`bp_be_calculator_top.v:203-207`), and when the word it was read for is
dispatched a cycle later, the bypass sees that stage with the next instruction
(533-540).  `bp_be_regfile.v:97-99` has it that this case "should be taken care of
by forwarding"; if such a read returned the old value, as 11-12 say, the word
would compute with it.  Whether it does depends on the memory under the register
file, see section 2.  `InOrderButStale` and `FreshReadsInOrder` say what
remains: everything but these operands is right, and everything is if the memory
returns the new value.

What `microcode` shows besides, where no line of the repository says otherwise:

 * a text that ends in a comment behind a statement is read for ever
   (`bp_as.cc:1082`; the exception in `Settles`);
 * instruction 0 may be executed twice (`NextPc`), since the decoder may raise
   the stall on the RAM's unspecified first output.  The first instruction of the
   shipped programs sets a register, and does not mind.

## 4. Proofs

`MeCoherence` proves, for every number of caches, ways and tags:

 * `TypeCorrect`: `Spec => []TypeOK`.  `TypeOK` is not inductive: `r0` stays a
   cache number only because the loop is entered below its bound (`LoopRange`),
   and `WbRead`, `WbClear` and the writeback sends look at the head of a command
   queue that is non-empty only because a writeback in progress keeps its
   command queued (`CmdHeld`).  `TypeInv` adds the two;
 * `Coherent`: `Spec => []CoherenceInv`, and from it
 * `SingleCopyHolds`, `DirectoryHolds`, `AtMostOneSharer`, `EngineNeverStalls`.

None of these four is inductive.  `SingleCopy` breaks in `SetTag` unless the
directory names one owner (`DirUnique`) and agrees with the arrays
(`DirectoryAccurate`).  The directory stays unique in `wde` only because the
invalidation routine has by then removed every owner of the block
(`OwnersInv`), and stays accurate only because it has heard from each of them:
`CountInv` says that `r2` is the number of caches with an invalidation or its
acknowledgement in flight, so a count of zero means empty queues (`Settled`).
That no acknowledgement is taken for another needs the queues by phase
(`CommandInv`, `AnswerInv`), and that `gad` never finds an upgrade needs that a
cache does not hold what it waits for (`AbsentInv`).  `EngineInv` carries the
registers through the memory and back (`MemWriteInv`, `MemReadInv`): the
payload restores what they were (`Restored`).  There is one lemma per action;
`LceFrame`, `QuietStep` and `DirSame` say what a step that leaves part of the
system alone need not show again.  Its parts were
checked by TLC, on instances with two and with three caches, before they were
proved.

`MeMessages` proves `AcksMatchHolds` and `WritebacksMatchHolds`.
`CoherenceInv` bounds the queues but does not look into the messages.  `MessageInv` does:
an acknowledgement is of the kind its phase waits for and of the block being
served (`AnswerFits`, which needs `ServedTag`: until it has acknowledged the
requestor waits for what the engine serves); a writeback is of the way and comes
back with the tag it was asked for (`WritebacksFit`); and a block in flight is
the one of a requestor that sleeps and has not had it (`FillFits`).  It is
inductive together with `CoherenceInv`.

It also proves `ReplacementsAreDirty` and `FillsLandClean`, of which neither is
inductive with all of the above.  The request carries a dirty bit that may be out of
date when the engine acts on it.  `VictimKnown` says how: only when the way
has been taken away since, and then the directory says so, so that the
replacement flag is the dirty bit when the request is taken up.  From then on
`VictimInv` keeps the two together until the writeback has cleared the bit.  That
nothing else takes the way in between needs that dirty ways are owned ones
(`DirtyOwned`) but for the one being transferred (`TakenAway`, `TransferInv`).
`ChannelsBounded` follows from the same invariants: in each phase they name the one
cache that a command or an answer can be with (`OneExchange`), and while copies are
invalidated `TransferInv` has it that there is a single owner to address.

`MeAtomic` proves `DataIsCurrent` and, from it, `MemoryIsAtomic`: the memory end
implements `AtomicMemory` for every number of caches, ways, tags and values.
`DataInv` says where the last value stored to a block is: in the dirty way, if there
is one; after that way was read, in the buffer of the writeback and in its
message; from the moment the engine takes that message up, in the write to
memory; else in memory, and in every clean copy, block in flight and read from
memory.  It is a statement about the phase of the request in progress, which is
why it needs all of the invariants above.  For the refinement each step is shown
to be a store to one block by the one cache with the permission, a change of
permissions that takes one away before it gives another, or a stutter.

The proofs assume `MeAssumption` only.

`RollyProofs` proves, for every number of slots and every set of words:

 * `TypeCorrect`, `PointersStayOrdered`: types and order are inductive together,
   since `full` is measured from the checkpoint;
 * `QueueImplemented`: `Spec => ImplementsReplayQueue`.  Its lemmas say what the
   run of words between two pointers is after one of them moves (`DropWord`,
   `JoinWords`, `OneWord`) and that a write within one ring of the checkpoint
   does not touch it (`SlotsApart`, `WordsKept`); then there is one lemma per
   action that maps it to the action of `ReplayQueue`.

`BeProofs` proves, for every word size, register file, queue size, set of programs
and predictor:

 * `TypeCorrect`; `NpcHolds`, which is inductive by itself;
 * `CheckpointNeverAhead` and `CheckpointStaysExact`.  Neither is inductive: a
   count does not say which words the queue holds.  `QueuedInOrder` says that
   the words in ISD, EX1, EX2 and MEM3 are found in the queue in this order,
   oldest first, possibly with undecodable words between them - and in a program
   without such words at exactly the first places.  `PipeQueued` shows that a cycle
   keeps this, with the places moved on by the checkpoint;
 * `PipeImplementsMachine`: `Spec => InOrderButStale`, the refinement of `SeqMachine`
   in which an operand that was read in the cycle of its last write may be any
   value, and every other one is right.  An instruction takes effect in the cycle in which it leaves MEM3 without a miss;
   every other cycle is a stutter.  `OrderInv` says that the pcs of EX1, EX2, MEM3
   and npc follow one another (`PcsFollow`: what is not poisoned was fetched behind
   the one before), and that each live instruction holds the operands that the
   sequential machine would give it once the older ones in the pipe have taken
   effect, but for the stale ones (`OperandsRight`; `Seen` is a register past those older ones, and no load
   that is still on its way writes it).  `BypassIs` shows that the bypass network
   computes `Seen`, `SeenMoves` what a cycle does to it, `ArchStep` what the one
   instruction does to registers and memory; `ExecStep`, `IdleStep` and `MissStep` map
   the three kinds of cycles;
 * `FreshReadsInOrder`: if the register file returns what is written in the cycle of a
   read, `ExecutesInOrder`, the refinement of `SeqMachine` without exception.

They assume `ElsAssumption`, and `BeIsaAssumption` and `BePipeAssumption`.

`DcProofs` proves, for every number of ways, tags, bytes, masks and timer limit,
`Spec => []FullInv`, and from it every safety property of `DcSystem` but the one
that is a finding: `TypeCorrect`, `LoadsSeeStores`, `AnswersSeeStores`, `StoresAreKept`,
`HitsInOneWay`, `WriteBufferHolds`, `MissesAreNoticed`.  None of them is inductive.
The invariant `CacheInv` (in `DcInvariant`, checked by the run `dc_ways`) is built up
from what the code relies on without looking:

 * `ScriptInv`: the commands that are left, at the engine and on the way, are
   those of one request at one point of it, and the tags are as at that point: a
   block is invalidated before its transfer and its writeback (`ToInvalidate`, then
   `Invalidated`), a victim is written back before its way is filled (`Evicting`),
   the tag and the block of a fill may come in either order (`Filling`);
 * `ReqInv`, `Lacking`, `VictimKnown`: while a miss waits nobody gives the cache what
   it asked for but the answer, and the request says of its victim at least that
   it is dirty when it is;
 * `PipeEmptyInMiss`, `PlacesKept`: nothing enters the pipe until a miss is over, since
   the cycle of the miss poisons TL; and each store in TL and TV has a place in the
   buffer, because the cycle in which it enters the pipe lets the buffer drain;
 * `PipeTags`: an access in TV has the tags as they are, or one way has been
   invalidated since (`Overtaken`), in which case the writeback of its block is still
   to come: this is why a store that hits there is not lost;
 * `StoresKnown`, `DirtyRead`, `BufferInv`: a block with stores is in one place (`Home`),
   the dirty bit of the way says so until the writeback is sure to have seen it,
   and the write buffer has no store to a block that has been read out;
 * `BanksCurrent`: the banks of a way with the stores of the buffer over them are
   the block (`Resident` says of which block a way is, also between the two halves of
   a fill).

`TypeOK`, `AnswersAreCurrent` and `LoadsAreCurrent` complete it.  A step of the model is
a cycle in which everything moves, so there is no lemma per action: `Tick` is the
cycle, each part of the invariant has a lemma of its own, and within it the cases
are those of what is granted and of the CCE.  `OverLaws` and `MergedDrained` are
the laws of merging by bytes, `XorFacts` and `XorInjective` those of the interleaving.

They assume `DcLceAssumption` (1, 2, 4 or 8 ways) and `DCacheAssumption`.

`MicrocodeProofs` proves, for every RAM size, ROM, text and argument list:

 * `RomIsExecuted` and `FetchOrder`.  `FetchInv` says for each state of the fetch
   FSM what has been copied and what is on its way, so that the RAM holds the
   ROM before the first fetch (`Copied`), and that the RAM's output is the ROM at
   the PC and the read address one ahead, or both still 0;
 * `TypeCorrect`: `Spec => []TypeOK`, from three invariants: `FetchInv`; `AsmInv`, the
   types of the assembler and that a line is made of words of the text; `RomInv`,
   that the ROM of a CCE out of reset is the image, or the first words of one that
   was given up, and that the image is not written to any more;
 * `TextIsKept`: `Spec => []TextKept`, for texts of any length.  `KeptInv` says what the
   first pass holds at each place of a clear text: the tokens and labels of
   exactly the statements before (`TextRead`), and the words since the line began,
   with nothing but blanks and words between (`LineRead`).  That a semicolon or a
   comment sign is not met inside a statement, and the end of the file not inside
   a line, follows from `Clear` (`SignOnLine`, `RestBlank`); that the statement at a
   newline is the next one of the text is `StatementAt`, by counting.

 * `TextIsRun`: `Spec => RunsAsWritten`.  `ImageInv` says that the image holds the words
   of the first statements of the second pass, none of which the parser has
   rejected, so that with `KeptInv`, `RomInv` and `FetchInv` the word a CCE executes is
   that of the statement at the PC (`StatementAtPc`).  What may follow is then a
   question about one statement (`StatementAnswers`): that only `stall` halts, that
   only `wfq` and `pushq` can wait, that exactly the branches branch, and where to;
 * `EffectsHold`: `Spec => []EffectsAsWritten`, by `ImageInv` and the theorem about single
   statements, `StatementMeans`.  The run varies one operand at a time and
   reads a few numbers; the theorem holds for every combination of operands, every
   number of 16 bits and every label.

`InstProofs` has what this needs about instructions:

 * `WordIsUnpacked`: the printers of the assembler, in the header's order and
   widths, and the struct of the RTL are inverse to each other for every
   instruction whose fields fit (`Fits`).  The word is a sum of parts of different
   lengths: `WordParts` says where each begins, `BitsValue` that its bits are the
   binary digits of the field, and `SliceIs` that the RTL cuts at the same places;
 * `StatementIsUnpacked`: the fields of every statement that is not rejected do
   fit, whatever its words.  This is a theorem about every table and every
   range check of the parser (`AssignedTyped`): a select that the parser could
   set to more than its field holds would spill into nothing, and be read back
   as another one;
 * `Forms` and `OrdinaryForms` take inst.txt's syntax apart into the words each
   mnemonic may have, and `MnemonicCodes` gives each its opcode;
 * `StatementMeans`: a documented statement that the assembler takes does in the RTL
   what inst.txt says of it, unless `Departs` names it.  One lemma for each kind of
   statement (`AluMeans` to `PushMeans`) goes from the fields that the parser has set
   (`Fills`) through the decoder (`DecodeFields`, `DecodeSelects`, `DecodeEnables`,
   `DecodeQueues`) to the facts of its muxes.  That each table is injective
   (`Injective`, `TableNames`, `SelectNames`, `LoadNames`) makes the source a mux takes
   the one that was named; that a mask's bits are those that were put in it
   (`FlagsWritten`, `WfqMaskIs`) says which flags are written and which queues are
   waited for; and that the enables of all other kinds stay 0 (`NoEnables`,
   `NoBranch`, `NoWrite`, `NoDir`, `NoQueue`) says that nothing else happens.

`TextIsKept` needs what `FlattenSeq` computes for one sequence more (`FlattenExtends`).
The library's induction theorems cannot be instantiated, but an induction over
numbers is still possible: `SetInduction` is the same statement about a set, and
follows from the least element outside it (`LeastNat`, by `WFMin`).

They assume `ElsAssumption` (the RAM has a power of two of words, as its address
wraps), `TextAssumption` and `StoiAssumption`.

Every invariant and every action property of the runs that pass is proved.  Only
model-checked is liveness: under fairness it is out of the provers' reach.

## 5. Not modelled

 * Reset and synchronisation: set_clear and sync from any contents of the arrays.
   The models of the memory end start from the state it leaves.  It needs an
   engine of its own, since everything else relies on it being over.
 * The MESI microcode and the other versions: sharing, upgrades, set-tag-and-wakeup
   and transfers between caches.  The top level boots demo-v2; the others need
   another engine and another LCE protocol, over the same `CceGad`.
 * The filter left of the prefetcher in `bp_be_mmu_top.v`, which may drop a fill by a
   remembered address, and the TLB.  The models pass addresses through.
 * The pseudo-LRU tree (`bp_be_dcache_lru_encode.v`, `bp_be_dcache_lru_decode.v`): any
   way may be the victim, which includes the tree's.
 * The front end's pc generation, instruction cache pipeline and predictors.  The back
   end is right whatever they fetch, and that is what `BePipe` shows; that they
   follow a redirect in time is assumed in its fairness.
 * Attaboys, front end exceptions and the reset command of the director: metadata
   for the predictors, and paths whose other end is not built.
 * The tops of FE and BE: wiring.
 * RISC-V arithmetic and decode tables, generated ROMs, test benches and traces:
   combinational or data, with no order of steps to get wrong.
 * Of the microcode assembler: lines of `MAX_LINE_LENGTH` characters, the character
   \0, and the wording of the debug listing.  The macros of message and directory
   widths in `bp_cce.h` and `microcode.h`, which the assembler does not use.

What would add most next: the reset exchange, then the MESI engine, whose
upgrades `CceGad` already computes.
