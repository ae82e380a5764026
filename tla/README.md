# A TLA+ model of the Perseus core model

Perseus is a timing model of an out-of-order RISC-V core: C++ on the Sparta
event framework, with Spike or a recorded trace as the source of instructions.
This directory holds TLA+ modules of its core, of its memory system and of the
rollback of Spike, TLC configurations that check them on small instances, and
TLAPS proofs of what matters most for every size.
`PROJECT.json` lists the runs, the mutants, the theorems, the hazards, and for
every definition the source lines it stands for. Paths below are relative to
the repository.

## The system

| Component | State | Operations | Talks to |
|---|---|---|---|
| `PerfectFrontend` | `credit_`, the generator's position | accept credits, produce a group, steer Spike at branches | sends groups to renaming |
| `RenamingStage` | queue, two credit counters, `Freelist`, `RenamingTable` | accept credits, queue a group, rename, release at commit, flush | dispatch, reorder buffer; credits to the frontend |
| `Rob` | a `LoopQueue` of entries | allocate, mark finished, commit in order, ask for a flush | credits and committed groups to renaming; flush manager |
| `DispatchStage` | queue, credits per station, pending groups, `Scoreboard` | queue, select, check registers, issue, pop | the stations; credits to renaming |
| `ReservationStation` (4) | entries, `credit_` | allocate, resolve operands, pass to the unit, pop | its function unit; credits to dispatch |
| `PerfectFu` (4), `WriteBackStage` | queues | execute, arbitrate, broadcast | stations, dispatch, reorder buffer |
| `FlushManager` | the criteria | turn a request into a global flush | every unit |
| `LoopQueue` | ring of slots, two indices, a flag | push, pop, pop_back, clear, walk | used by `Rob` |
| `GlobalParam` | dispatch and write back map | parse | read by dispatch and write back |
| `BaseCache`, `Mshr` | tags, miss queue, response queue, credits | request, miss, refill, evict, respond | memory below, another cache above |
| `AbstractMemory`, `DRAMsim3` | request queue | request, respond after a latency | a cache |
| Spike interface, `DataBackup` | two simulators, undo log of memory, register checkpoints | step, back up, resolve, roll back | generator |
| generators (`InstGenerator`) | input position, `fetch_nop_inst_` | next instruction, decode (`InsnComplete`) | frontend, Spike interface |
| Mavis, `simulation/`, `main.cpp` | | decode, set up | |

The units are Sparta units. They share no state except the instruction objects,
which travel by pointer and are written by several units. A unit runs when a
message arrives at a port (in the same cycle or the next, by the port's delay)
or when one of its events is due; an event is *unique*, it runs at most once a
cycle however often it is scheduled. Room in a queue is tracked by the sender,
as credits that the receiver sends back.

What is hard about it:

* the order of handlers within a cycle, which a few `>>` declarations and
  Sparta's rules only partly fix: operands are broadcast while the instruction
  that waits for them is between two units;
* credits, events and instructions in flight: a unit that forgets to wake itself
  sleeps for ever, a credit too many overflows a queue;
* identity under reuse: slots of the ring are tags, physical registers come back;
* two copies of the renaming state, one speculative and one committed, kept in
  step only by the order of commits;
* the flush, which comes two cycles after the commit that asked for it;
* requests to the caches that travel by pointer, are noted in by every cache on
  the way, and come back on a port of their own, apart from their credits;
* a miss queue that is a ring for some of its methods and an array for others;
* a functional simulator that runs down wrong paths, several deep, and has to
  come back to the byte.

`PROJECT.json` lists these as hazards, each at its line, with the properties
that watch it.

What makes each component correct: the ring buffer is a bounded queue whose
slots are stable; renaming gives out only registers that nobody can reach, loses
none, and returns to the last commit after a flush; every credit link conserves
its places; the reorder buffer waits for exactly what is under way; no wake-up
is lost; instructions start after their producers, retire in order, and all of
them do. The memory side answers each request once and nothing else, whatever lies
below, loses no credit and comes to rest. A rollback leaves Spike where a simulator is that
never left the right path.

## The modules

| Module | Models |
|---|---|
| `BoundedFifo` | abstract: what a ring buffer promises |
| `LoopQueue` | `resources/LoopQueue.hpp`: each method an operator on the record of its fields |
| `LoopQueueSpec` | a `LoopQueue` used in any order, and its properties |
| `Freelist`, `RenamingTable` | the classes of the same names; what renaming and committing an instruction does to them |
| `RegisterRenaming` | the two together, one instruction at a time, with commits in order and flushes |
| `Wiring` | ports with delays, events, precedence of handlers |
| `Scheduler` | Sparta as the units use it (external) |
| `PerfectFrontend`, `RenamingStage`, `Rob`, `DispatchStage`, `ReservationStation`, `FuncUnits`, `FlushManager` | the units, one action per handler |
| `DataflowCore` | abstract: what an out-of-order core promises its program |
| `Backend` | the core without speculation, as shipped (`is_speculation` false) |
| `BackendProperties` | its properties and refinement mappings |
| `Speculation` | the core with `is_speculation` set |
| `Mshr` | `uncore/cache/Mshr.hpp`: the miss queue, each method an operator |
| `UncorePorts` | the links between core, caches and memory: requests, responses, credits |
| `BaseCache`, `AbstractMemory` | the units of those names, one action per handler |
| `MemoryPort` | abstract: what the core may expect of the memory side |
| `MemorySystem` | a core, a chain of caches and a memory, their properties and the refinement of `MemoryPort` |
| `DataBackup` | `spikeInterface/src/DataBackup.hpp`: the undo log, each method an operator |
| `SpikeAdapter` | the part of `spikeInterface.cpp` that backs up and rolls back, with two simulators |
| `SpeculativeFetch` | frontend, generator and commit of branches around it, its properties |
| `MCBackend`, `MCSpeculation`, `MCMemorySystem` | instances for TLC |
| `SeqParts` | sums and joins of sequences, picking by place |
| `DataLemmas` | lemmas about them, about counting and about values that occur once, and induction over the numbers in a form the provers take |
| `LoopQueueProofs`, `RegisterRenamingProofs`, `SpeculativeFetchProofs` | the proofs about the modules of those names |
| `BackendProofs` | the proof about the credits of `Backend`; extends `BackendProperties` |
| `UnderWayProofs` | the proofs about what is under way in `Backend` and its tags; extends `BackendProofs` |
| `WakeupProofs` | the proof that no wake-up is lost in `Backend`; extends `UnderWayProofs` |
| `MemorySystemProofs` | the proofs about `MemorySystem` |

A unit's module declares the unit's fields as variables, under the names of the
members without the trailing underscore where two units do not clash. Each
handler is one action: its guard is that the port or event is *ready*, its
effect everything the C++ function does, including the messages it sends
(`Fire`). `Backend` composes the units by saying, for each unit's step, that the
others' variables stay.

The scheduler. `now` maps each port and event to what it is to handle in this
cycle, `later` to what it is to handle in the next. A handler is ready when it is
pending and no handler that must go before it is; where nothing orders two
handlers, either may go first, so a property that holds does not depend on the
order in which Sparta happens to build its graph. What must go before what comes
from three sources: the `>>` declarations in the constructors, Sparta's rule that
a unit's ports go before its events, and its rule that the sender of a
zero-delay message goes before the receiver. `OrderAssumption` says the result
is acyclic, and TLC evaluates it in every run of the core.

Instructions are indices into `inst`, the program so far; the record at an index
has the fields of `InstInfo` that any unit reads for control. Values of
registers and memory, logging and statistics are left out: no guard of the core
reads them. `PhysicalRegfile` is left out for the same reason. Handlers without
effect (`DummyFunc_`) and ports whose messages nobody acts on are left out;
`Wiring` names them.

The memory system. `arches/dev.yaml` binds a load and store queue, `l1d_cache`,
`l2_cache` and `abstract_memory` in a chain; level 0 is the core, level
`LevelNum + 1` the memory. Unlike the core it is modelled without cycles: a
message arrives some time after it was sent, in order on its port, and an event
runs some time after it was scheduled. The latencies are parameters of the code,
so what holds here holds for all of them. A handler is one action, as in the
core. An assertion that fails sets `failed` and stops everything, as the program
does. What the code reads past the end of the miss queue is unspecified:
`handleMshr` and `OverrunMshr` are the two outcomes, an entry no walk cares for
and an entry that looks refilled.

The rollback. Two simulators run the program in the code itself: `spike_sim`,
which the frontend sends down predicted paths, and `spike_sim_fast`, which only
steps on the right one and with which the code compares. Both are here, as a
pc, one value for the registers and a memory of bytes; an instruction writes the
registers, stores a power of two of bytes, traps, reads a CSR or is a branch.
The log of overwritten bytes and its unwinding, word by word with masks, are
modelled as they are. `Next` is what the rollback is made for: between the commit
of a mispredicted branch and the flush nothing else is fetched or committed.
`LateFlushSpec` leaves that out, as the backend does.

`inflight` in `RenamingStage` is a history variable: the instructions renamed
and not committed. No action reads it.

## The runs

`tlc -config X.cfg M`, with the modules and configurations of `PROJECT.json`.
Times are for two workers.

| Run | Question | Instance | States |
|---|---|---|---|
| `loop_queue` | is the ring a bounded queue with stable slots, and are its entries valid? | depth 4, 2 values | 320 |
| `register_renaming` | are the lists, counters and tables right under every order of renames, commits, flushes? | 6 physical, 3 architectural registers | 2,173 |
| `backend` | credits, identity, busy bits, wake-ups, registers, sleep; does the core implement `DataflowCore`? | 2 pipes, groups of 2, 4 instructions of 3 kinds | 119,599 (120 s) |
| `backend_narrow` | does the core take the steps of `RegisterRenaming`, do programs end? | 2 pipes, groups of 1, 4 instructions of 2 kinds | 42,140 (100 s) |
| `speculation_freelist`, `speculation_stall` | do the code's own assertions hold with speculation? No | 1 pipe and 3 instructions, 2 pipes and 9 | |
| `memory_system` | assertions, credits, inclusion; is every request answered once, do the caches come to rest? | 2 caches, 3 lines, 3 requests, 3 segments, 1 miss each | 20,552 (48 s) |
| `memory_two_misses` | is the miss queue a queue, does it go on? | 2 misses over a perfect cache, 3 lines, 4 requests | 173,390 |
| `memory_overrun` | do the assertions hold with two misses? No | as `memory_two_misses` | |
| `memory_one_way` | and with one way? No | 2 caches, 3 lines, 3 requests, 2 segments, 1 miss each | |
| `speculative_fetch` | does the rollback restore everything? | 5 instructions, 2 words of 2 bytes, 2 commits at a time | 1,442,383 (60 s) |
| `speculative_fetch_late` | and with the flush as late as it is? No | 3 instructions | |

The bounds. Every queue of the core has at least one instance in which it is
full while its sender has more: the reorder buffer has 3 places for 4
instructions, so that it also wraps, stations and units have one or two places,
the renaming and dispatch queues two. Four physical registers with three
architectural ones leave three to hand out, so the free list runs empty in the
middle of a group. The kinds are chosen so that an instruction reads what it
writes, reads the other's result, reads two results at once, needs a certain
pipe, or writes nothing. The second pipe has both kinds, so two stations compete
for the same instruction and two units for the write back width. Depth 4 of the
ring lets each index wrap with every distance between them; larger depths are
covered by the proofs. `backend_narrow` is narrow because a step of
`RegisterRenaming` is one instruction; groups are covered by `RegistersAreSafe`
and `StopsOnlyWhenDone` in the wide run.

In the memory system three lines compete for the one set of the first cache and
the two sets of the second, three requests are enough for a miss, a conflict miss
and a miss of the first cache that hits in the second, and three segments have a first, a middle and a last one.
Two entries in the miss queue let it wrap. Five instructions of
`speculative_fetch` are two nested wrong branches with overlapping stores of both
widths on each path, and a third fetch after the first commit.

Deadlock is not checked for the core, for the memory system (the core need not
ask) and for `speculative_fetch`, which ends at its bound.
For the core: the simulation ends when no event is left, and
`StopsOnlyWhenDone` says that this happens only at the end of the program, so
a core that has fallen asleep is still an error.

Fairness. `FairSpec` is weak fairness of the whole next-state relation: Sparta
runs whatever is pending and goes to the next cycle while anything is scheduled.
No single handler is assumed to be favoured, and none needs to be: the handlers
of a cycle are finite in number and each runs when its turn comes. The memory
system has no cycles, but the assumption is the same and no stronger: as long as
a message has been sent or an event is due, some handler runs (`Handlers`),
whichever it is. The core is not assumed to ask for anything.

### Speculation

With `is_speculation` set (it ships false) assertions of the code can fail; the
runs give the shortest histories.

* `Rob::Commit_` leaves a mispredicted instruction in the buffer, and the flush
  it asks for comes two cycles later. In between the instruction commits again:
  its `LPhyRd` is released twice (`speculation_freelist`). The credit for it is
  given though its place is not free, so a full buffer can also be sent another
  group, against the assertion in `push` (`RobPushAssertion`, not a run of its
  own because the cause is the same).
* A flush clears a station's credits, but a function unit returns only those of
  the instructions it drops (`speculation_stall`): the station has none left.

`SpeculativeNext` stops at the first failed assertion, as the program does.

The busy bits are a third matter, of which no line of the repository claims
anything, so no run is spent on it: `DispatchStage::HandleFlush_` clears neither
the scoreboard nor what is pending or on its way. Without speculation the
register of whatever dispatch has taken is busy until its result is broadcast
(`BusyUntilBroadcast`, in `backend`). With it this is false: the result of a
flushed instruction may still be on its way when its register is handed out
again, and as nothing orders `AllocateInst_` and `FuncUnitBack_` in a cycle, the
late broadcast can clear the bit that the new writer has just set (a mispredicted
branch followed by six independent instructions and four registers are enough). Nor are
the bits left behind always those of free registers: an instruction renamed
between the commit and the flush survives on the wires, its own commit takes
somebody else's register off the committed list, and after a second misprediction
a stale busy register is neither free nor anybody's (six registers are enough).

`speculative_fetch_late` shows the first of the two from the other end: the
second commit of the branch rolls Spike back once more, to the checkpoint of
another branch.

### The memory system off its defaults

By default each cache has one miss entry and four ways, and then all the
assertions hold (`AssertionsHold`). With two miss entries the walks leave the
queue at its end: `memory_overrun` shows the assertion in `deallocate` fail, and
`memory_two_misses` checks what still holds.

With one way a set that holds a line is full, and a cache evicts. The write back
has no miss entry of its own and carries the default number, 0; it is answered
like a read, and `memory_one_way` shows the answer reach entry 0, which waits for
none, against the assertion that begins `mshrRecvResp`. The entry would not be
refilled either: `evict` leaves its victim valid, so the set stays full and the
entry in `EVICT`. With more ways nothing is ever evicted: `checkWayAvail` reports
the way it found by value, every refill goes to way 0, and the cache is direct
mapped whatever `way_num` says. So the passing runs have no write backs, and what
they show of answers is about those to requests.

One more failure off the defaults is reached with other values of the same
constants, and no run is spent on it. With two entries in an upper cache and
one in a lower that is not perfect, answers go to the wrong entry, because the
lower cache overwrites the number in the shared request.

A request travels by value in the model and by pointer in the code. With two
caches, or with one miss entry each, that is exact. With three caches and several
entries the second answers the first with the number the third has written into
the object; `RequestsByValue` leaves those chains out.

### A unit narrower than its station

`PerfectFu::WriteBack_` handles `alu_width` instructions of what has arrived, and
its event is scheduled by arrivals only. `simple_arch.json` gives unit and station
the same width, and so do the runs; then nothing is left over. With a narrower
unit (two instructions that become ready at once are enough, and such values of
`RsWidth` and `FuWidth`) the last one stays in the unit for ever, the reorder
buffer waits for it, and `ProgramsEnd` is false. The proofs do not need the widths
to be equal: what they say of credits, tags and wake-ups holds for such a core too.

### Iterators of the ring

The comment at `LoopQueue.hpp:74` says that `isValid` tells whether an iterator
points to a valid entry. It never rejects one (`EntriesAreValid`, checked and
proved), so the assertions in the dereferencing operators raise no false alarm.
But once `is_rolling` is set the interval it tests is empty and it accepts every
slot, so that it finds no stale iterator either.

## The proofs

`tlapm M.tla` for each of the modules with `Proofs` in its name, and for
`DataLemmas`. All the invariants and the refinement of the runs `loop_queue`,
`register_renaming` and `speculative_fetch`, and of `memory_two_misses` and
`memory_system` (but for the latter's two liveness properties), and
`CreditsConserved`, `RobAwaitsWhatIsUnderWay`, `RobTagIsOwn` and `NoLostWakeup`
of the run `backend`, are proved for every value of the constants.

**Induction.** The library's induction theorems take an operator, which the
provers cannot instantiate. `NatSetInduction` takes a set instead: one that has 0
and with each number the next has every number. It is proved from the
well-foundedness of `<`. A recursive function of the models is reasoned about in
three steps: a function with the same recursion equation exists (induction over
its domain), so the one that `CHOOSE` picks satisfies it, and what is claimed of
its values follows by another induction.

**The ring buffer.** For every depth and set of values: the indices stay in
range, the size assertion holds, iterators meet the contents, the validity check
rejects no entry, and every method
is a step of `BoundedFifo` on `Contents(queue)`. The inductive invariant adds to
the type that the size computed from the indices and the flag is the counted
usage; the flag alone does not say which of full and empty the ring is, so the
range of `usage` is needed with it. The refinement is proved index by index:
`Contents` after a push, a pop, a pop_back or a clear against `Append`, `Tail`,
`SubSeq` and the empty sequence. `TagsAreStable`, an action property, says that
the slots of the entries that stay keep their contents: a push writes only the
slot behind the last, and the others only move the indices.

**Register renaming.** For every number of physical and architectural registers:
type correctness, the assertions in `Push`, the relation between the committed
list, the in-flight instructions and the free list, the table, no leaks, and
that a free register is unreachable. None of these is inductive alone. `IInv`
(checked with TLC before it was proved) consists of

* `BackupIsInflightThenFree`, which makes `BackupPop` and `RollBack` right;
* `CommittedListDistinct` and `CommittedTableApart`: registers on the committed
  list are distinct, not 0, and not in the committed table, whose own non-zero
  entries are distinct. A commit moves one register from the list to the table
  and one back;
* `WriterIsDecided`, `TableIsYoungest`, `LPhyRdIsPrevious`: each architectural
  register has a youngest in-flight writer or none, and table and `LPhyRd`
  follow it. The register a commit releases is then the committed mapping that
  it replaces;
* `NoRegisterLeaks`, `CountersMatchLists`.

The proof has one lemma per action and one step per conjunct below it. The
assumptions are only that there is at least one register of each kind.

`EmptyListMeansWriterInFlight` is a pigeonhole argument on top of it: if the list
were empty with no writer in flight, every physical register but 0 would be in
the table, that is, the table would map the architectural registers other than 0
onto more registers than there are of them.

`CountersMatchLists` and `LPhyRdIsPrevious` are theorems without a run of their own:
they hold for every size.

**The rollback of registers.** For every number of instructions, values, memory
sizes and commit widths, under `Spec`: the assertion at the end of
`RegRollBack_` holds, and nops are given out on a wrong path only. `RollBackInv`
follows the oldest mispredicted branch through the queue of checkpoints. Its
checkpoint holds the registers of the simulator that stopped there, and its place
in the queue is its place among the branches, while younger checkpoints join and
older ones leave (`Settled`), while a group of rightly predicted branches is
between commit and frontend (`CommittingRight`), and until the rollback itself
(`CommittingMissed`). `RedirectIsAwaited` ties the path to the second message, so
that either may come first.

**The rollback of memory.** Under the same specification: the checkpoints are
those of the unresolved branches, unwinding the log leads back to the memory of
the right path, and on the right path the two simulators agree in pc, registers
and every byte. The invariant is `LogInv`, together with `RollBackInv`:

* `LogRestores`: for each byte, either no entry of the log has it and it is
  that of the right path, or the oldest entry that has it holds the byte of the
  right path. A store on a wrong path adds an entry for bytes that are right or
  already logged;
* `CleanOnRightPath`, `CleanBeforeMiss`, `CleanWhileFlushing`: the checkpoints
  that are older than the mispredicted branch have no entries, so what a commit
  drops says nothing about the memory;
* `PcOnRightPath`, `PcAfterMiss`, `PcWhileFlushing`: the pc of the right path is
  that of both simulators or the target of the branch that will be taken back.

What the loop of `MemoryRollBack_` computes is shown in pieces. `WithinWord`: an
aligned access of 1, 2, 4 or 8 bytes lies in one word, so the entry merged last
has its bytes and no others (`MergedByte`). `RestoresLeft`: taking the newest entry
off the log and into the map keeps what the rest of the log restores.
`SizeLeft`: each turn makes the log smaller, so the turns are enough. `UnwoundIs`
puts them together by induction over the turns. The bytes of a word are assumed
to be a power of two up to 8 (8 in the code): otherwise an aligned access could
reach into the next word, and the code would lose its end.

**The credits of the core.** For every number of pipes, all widths and all
depths, of the core without speculation as a whole (`CoreCreditsAreConserved`):
along each link (fetch to renaming, renaming to the reorder buffer and to
dispatch, dispatch to each station, each station to its function unit) the
credits at the sender, the credits and instructions on their way, and the
occupied places at the receiver add up to the receiver's depth. So no queue is
ever sent more than it can hold and no place is lost. The hypothesis
`WellPredicted` says that no instruction is marked mispredicted, and in this
machine none can be: `setIsMissPrediction(true)` is called at
`PerfectFrontend.cpp:107` only, under `is_speculation_`. With speculation the
property is false, and `speculation_stall` shows it. The inductive invariant
`CreditInv` has, besides the sums,

* `WiresOK`: what is on a wire is of that wire's kind, credits, groups of known
  instructions or a station's name with its credit; a port without delay keeps
  nothing for the next cycle. Then taking the first message moves from the wire
  what the handler adds to its unit, and sending moves the other way;
* `RobRing!Ring(rob)` and `RobHolds`: the reorder buffer is a ring as
  `LoopQueueProofs` has it, of known instructions. `AllocateRob_` pushes a whole
  group without looking, and it is the link's own sum that makes room for it;
* `Increasing(FrontLine)`: from the head of the dispatch queue back to the fetch
  stage the instructions are in program order. So none is in the dispatch queue
  twice, and each choice of `SelectInst_` marks exactly one entry, for which one
  credit of the station is spent.

One lemma per handler; the handlers with a loop (`RenameInst_`, `AllocateRob_`,
`Commit_`, `SelectInst_`, `PassingInst`) first have what the loop computes stated
and proved by induction over its turns, from the recursion equation of the
function that models it.

**What is under way.** For the same core and under the same hypothesis: the
unfinished instructions of the reorder buffer are those somewhere between
dispatch's wire and the message that reports them, none twice
(`CoreAwaitsWhatIsUnderWay`), and each of them carries the tag of its own slot
(`CoreTagsAreOwn`). Neither is inductive: that a handler takes an instruction from
one queue says nothing unless it is in no other. `FateInv` adds to `CreditInv`

* `Fates`: each instruction is in one of four conditions. Fetched: before the
  renaming stage has sent it. Renamed: once on the wire to the reorder buffer and
  once on the wire to dispatch or in dispatch, before any station. Awaited: once in
  the reorder buffer, unfinished, and in exactly one of the places behind (`Place`:
  the wires, dispatch's queues, and for each pipe its station, its unit and its
  queue at write back). Finished: in none of them;
* `SameSent`: the renaming stage sends the same groups to the reorder buffer and
  to dispatch, and both wires take a cycle. The order of the handlers puts the
  reorder buffer's port before the event that issues, so a group is taken before
  any of it can be issued, and nothing reaches a station before it is awaited;
* `OwnTags`: the tag of each entry's instruction is the entry's slot. Slots of the
  entries that stay do not change (`TagsAreStable` of the ring), and those of a
  group that joins are the ones its instructions were told;
* `LateWires` and `LateQueues`: the types of what is behind the function units.

The proof follows the groups: each handler moves one from place to place, from one
place to that of each pipe (dispatch, by what unit it needs) or from each pipe's
to one (write back), and a group that moves keeps the fates of its members as
long as `RenameInst_`, `AllocateRob_`, `Commit_` and `Finish_` do not touch them;
these four have lemmas of their own.

**No wake-up is lost.** For the same core and under the same hypothesis: whatever
operand an entry of a reservation station waits for, the writer of the register
waits, executes, or has its broadcast on the way to that station
(`CoreLosesNoWakeup`). The danger is the gap between two looks: dispatch reads its
scoreboard when it chooses an instruction (`SelectInst_`) and writes down which
sources are to be forwarded; the station hears of it a cycle later, and a
broadcast is heard once. `WakeInv` says, on top of `FateInv`, of everyone who
waits that a writer still comes, in terms of what is due to whoever looks:

* `BoardInv`: each register on the scoreboard has a writer not yet broadcast, or
  whose broadcast is on its way to dispatch;
* `PendingInv`, `SentInv`, `ArrivingInv`, `StationsInv`: so has each source to be
  forwarded of an instruction chosen, sent, arriving at its station or kept there.
  For the first two it is what arrives in the *next* cycle that counts, for the
  last two what is on the station's wire. `SelectInst_` may write down only what
  is true in the next cycle, because Sparta lets the in-ports of a unit, dispatch's
  broadcasts among them, go before its events (`PortsBeforeEvents`);
* `SameHeard`: what dispatch and the stations will hear in the next cycle is the
  same, as write back broadcasts to all in one handler; when the cycle ends, `SentInv`
  becomes `ArrivingInv`. A station takes its instructions before it hears
  broadcasts, so one that arrives together with its broadcast hears it;
* `TurnInv`: dispatch chooses at most once in a cycle and issues in the same cycle
  what it has chosen, so nothing it has looked up grows old in its queue;
* `OpenInv` and `HeardRenamed`: what dispatch has not looked at yet forwards
  nothing, and what is broadcast was renamed, so renaming never gives a new
  destination to a writer somebody waits for.

Which writer comes is left open: a register that is handed out again may be
broadcast for its new writer. That it is the writer the reader means is a matter
of `RegistersAreSafe` and `DataflowCore`.

**The memory system.** For chains of any number of caches of any size:

* without further conditions (but `RequestsByValue`): types, that a miss queue
  is a ring without holes, and that no wake-up is lost. `ChainInv` says of each
  miss queue that the statuses of its entries, counted from the header, are
  those in use and then free ones, wherever the array ends;
* if no cache but a perfect one gives out more credits than it has miss entries
  (`CreditsFit`; both are 1 by default): on each link the credits are conserved,
  so a miss finds a free entry. `CreditInv` relates the two: the places a cache
  has given away and not had back are its requests on the way and its entries in
  use;
* for the defaults of `BaseCacheParameterSet` (one credit, one miss entry, more
  than one way, no perfect cache), with `upstream_is_core` and `downstream_is_mem`
  set by a cache's place in the chain, true for the first and for the last only
  (`DefaultChain`): no assertion fails, the chain implements `MemoryPort`,
  and the caches are inclusive. `PortInv` follows the one request that can be on
  a link through its stations (on the way, in the miss entry, sent below, coming
  back segment by segment), each of which determines the status of the entry
  above. `AnswersInv` reads all the stations as one queue of requests that still
  wait for their answer, without a duplicate; the core counts an answer to
  anything else as `unasked`, and that there is none is part of `MemoryPort`.
  `InclusionInv` adds, for two neighbouring caches, that the line being fetched
  above is the one being fetched below, so that a line is replaced below only
  while its set above is about to be replaced too; the sets of one are unions of
  sets of the other because both numbers are powers of two.

The conditions are needed: with more entries the walks leave the queue
(`memory_overrun`), or the shared request has its number overwritten by the
cache below (the section on the defaults above, without a run); with one way
write backs are answered like requests (`memory_one_way`). With more credits
than entries a cache may be asked while it has no entry free, and a miss then
finds none (also without a run). The instance of `memory_system` satisfies
`DefaultChain`, and that of `memory_two_misses` `CreditsFit`. All the invariants
were checked with TLC before they were proved.

**Only model-checked.** Of the composed core without speculation (`Backend`):
its types, `RegistersAreSafe`, `BusyUntilBroadcast`, `StopsOnlyWhenDone` and the
refinement of `DataflowCore`, of the narrow instance that of `RegisterRenaming`;
all the properties of `Speculation`; and liveness, which is out of reach of the
prover.

## What is not modelled

* `DRAMsim3`: it begins with an uninitialised number of null entries in its queue,
  which its callbacks dereference; the rest is timing of an external simulator.
* `BaseMemory` and `PhysicalRegfile`: values, without control that depends on them.
* Spike, Mavis and Sparta are external; so is the load and store queue that
  `arches/dev.yaml` puts above the caches. CSRs: on a wrong path none is written,
  and the two counters that `CsrRollBack_` sets are never compared.
* Access ports of the caches wider than one request, which are not the default.
  They are more than bigger groups: `downstream_access_ports_num` also bounds the
  walk of `mshrSendRequest`, so that a miss behind the first could be sent while
  that one waits, and misses end out of order.
* `InsnComplete`, which turns the decoder's answer into operand fields: a function
  of one instruction, without steps. It leaves the types of operands it does not
  find uninitialised, and drops the sources of an instruction that has three. The
  trace and JSON formats of the generators; the JSON one never calls it.
* `GlobalParam`: two lists of words parsed once into constants of the model.
* The non-perfect load/store path of `RenamingStage`: the unit that would send
  its credits is not in the repository.
* Set-up, configuration scripts, ELF parsing: input handling without state of
  their own. `legacy/` is not built, `thirdparty/` (by far most of the lines of the
  repository) is vendored, `traces/` holds benchmark programs.

## Plan

What is left is proofs about the composed core: that the registers are safe, with
the invariant of `RegisterRenaming` carried over to the instructions on the
wires; then, from that and `WakeInv`, the refinement of `DataflowCore`.
