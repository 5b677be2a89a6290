# A TLA+ verification of llvm-power

llvm-power is LLVM 2.3 and the PTLsim processor simulator, changed to study
compiler-directed power gating. The compiler's X86 back end inserts *GATE*
instructions that say which functional units of the processor the code ahead
needs; the simulator switches those units on and off, with the delays of a real
unit, and reports time and energy; the JIT recompiles functions that get hot so
that the gates follow a profile.

This directory holds TLA+ modules of the parts that carry the project's own
logic, TLC configurations that check them, and TLAPS proofs. `PROJECT.json` is
the index: components, runs, mutants, the map from definitions to source lines,
findings, hazards and theorems. All source paths below are relative to
`src/llvm-2.3/`.

## 1. The system: inventory

| Component | State | Operations | Interacts with | What makes it correct |
|---|---|---|---|---|
| Functional unit (`ptlsim/gatinglib.{h,cpp}`) | status, start and scheduled end of a transition, power level at its start, accumulated times and energy | `turnOn`, `turnOff`, `synchronize`, `checkAvailable`, statistics | manager; the availability test has no caller but the library's test driver | times of disjoint stretches, no unit usable before it is charged, assertions never fire |
| Unit manager (`gatinglib.cpp:49-118,348-477`) | the units, `offset` of the measured run, global clock | `processAtIssue(mask)`, `initializationComplete`, `functionalUnitAvailable`, `dumpStats` | decoder (GATE and 0x0f39), final flush of the block cache | every unit follows its mask bit; report relative to the measured run |
| GATE decoding (`ptlsim/decode-complex.cpp:2350-2395`) | none of its own | a GATE is executed when it is *translated* | basic block cache, manager | gates take effect in program order |
| Power pass (`lib/Target/X86/X86PowerPass.cpp`) | machine code, loop info, profile per module | `runOnMachineFunction`, `generateTraces`, `generateTrace`, `addMachineBasicBlock`, `optimizeTrace`, `insertGatingInstruction` | profile, opcode table, JIT | no instruction runs with a unit it needs gated; hot traces pay no gate |
| Basic block cache (`ptlsim/decode-core.cpp:1360-2125`) | blocks, reference counts, lists by page, dirty bits | `translate`, `invalidate`, `invalidate_page`, `reclaim`, `flush` | both cores; the memory manager calls `reclaim` from inside any allocation | lists and cache agree, no block freed in use, no stale translation survives an invalidation |
| Out-of-order core (`ptlsim/ooocore.cpp`, `ooopipe.cpp`, `oooexec.cpp`) | fetch block, fetch queue, reorder buffer, per-thread pending invalidation | `fetch`, `commit`, `flush_pipeline`, `invalidate_smc`, redirects, barriers | block cache, caches, predictor | commits in order what memory held; references released exactly once |
| Sequential core (`ptlsim/seqcore.cpp`) | current block | fetch, execute, check for self-modifying code | block cache | executes what memory holds |
| Out-of-order back end: load and store queues (`ptlsim/oooexec.cpp:600-1790`, commit in `ooopipe.cpp`) | an entry per uop in flight, alias predictor, memory interlocks, queued releases | issue of loads, stores and fences, replay, `redispatch`, `annul`, `fencewakeup`, `commit`, `flush_pipeline` | fetch and commit, data cache, the other threads through memory | what commits is what in-order threads would do; every lock is given back; everything commits |
| Data cache: miss buffer and load fill request queue (`ptlsim/dcache.{h,cpp}`) | request slots, miss buffers, who waits in which | `issueload_slowpath`, `probe_icache`, `commitstore`, `initiate_prefetch`, `annul_lfrq_slot`, `complete(threadid)`, `clock` | load queue, fetch unit | a slot wakes the load it was taken for, and every load and fetch wakes |
| Rename, clusters, physical registers; cache lines and tags | - | - | - | not modelled; see section 7 |
| Edge profiling (`lib/Transforms/Instrumentation/EdgeProfiling.cpp`, `runtime/libprofile`, `lib/Analysis/ProfileInfoLoader.cpp`, `MyProfileInfo.cpp`) | one counter per edge, an append-only file, a map from edges to counts | instrument, count, write at hot points, load, sum | JITPass, power pass | the loaded weights are the executed counts |
| Dynamic optimization (`lib/Transforms/Instrumentation/JITPass.cpp`, `tools/lli/lli.cpp`) | a countdown per trampoline, `powerPassEnabled` | `InsertMessage`: write profile, enable the pass, recompile | JIT, profiling, power pass | each report makes one new copy, calls reach it, it is laid out by a profile of this run |
| JIT (`lib/ExecutionEngine/JIT`) | address of each function, lock | `getPointerToFunction`, `recompileAndRelinkFunction` | JITPass, generated code | a function is compiled once and callers reach its newest code |
| PTLsim decoder, kernel and syscalls, Xen port, memory manager, predictor, statistics | - | - | - | not modelled; see section 7 |
| The rest of LLVM 2.3 (IR, analyses, transformations, code generator, other targets, readers and writers, linker, tools) | - | - | - | unchanged from upstream; not modelled |

How they interact: the power pass runs inside code generation of one function
at a time, and what it leaves is machine code. The simulator runs that code:
its core fetches basic blocks from the block cache, which translates x86 bytes
to uops and *applies* GATE instructions while it does so. Cores and cache share
one address space and one thread, but any allocation may call back into
`bbcache.reclaim` before it returns, so that most of the concurrency of this
code is re-entrance. Hardware threads of one core are interleaved by the
machine's loop, one cycle of each at a time.

What is hard to test in it: interrupted transitions (a chain of requests, each
computing from the power level the last one left); re-entrant reclaim between
the steps of a translation; self-modifying code while references are held;
traces that overlap, share preheaders or follow each other; loads that ran
ahead of the stores they depend on, replayed under fences and locks of several
threads; flushes that free what another structure still names; and reports of
several threads that enable the power pass, write the profile and replace
running code without a common lock, in a process whose file outlives it.
`PROJECT.json` lists each hazard at its line.

## 2. Modules

| Module | Models | State and actions |
|---|---|---|
| `GatingLib` | one functional unit as a record and its pure operations | `Synchronize`, `TurnOff`, `TurnOn`, reported times |
| `FunctionalUnit` | a unit driven by requests | `fu`, the clock, the assertion that fired; `Tick`, `RequestOff`, `RequestOn`, `Poll`, `EnergyAbort` |
| `GatingLib_proofs`, `FunctionalUnit_proofs` | - | lemmas about the operations, theorems about `FunctionalUnit` |
| `GatedUnits` | what gating promises, abstractly | `wanted`, `available`; `Request`, `Rise` |
| `FunctionalUnitManager`, `MC_FunctionalUnitManager` | all units under their manager | units, clock, offset, phase, last mask; `Tick`, `InitializationComplete`, `ProcessAtIssue`, `DumpStats` |
| `FunctionalUnitManager_proofs` | - | the manager implements `GatedUnits` |
| `GatePass`, `MC_GatePass` | the power pass and the run of the code it leaves | pass: `StartTrace`, `ExtendTrace`, `OptimizeLoop`, `OptimizeAcyclic`; run: `Execute`, `Branch`, `Return` |
| `GatePass_proofs` | - | lemmas about dominators and natural loops; theorems about the code the pass leaves |
| `BBCache` | the block cache | `cache`, `dirty`, `work`; translation as `Insert`, `LockLo`, `AddLo`, `LockHi`, `AddHi`; `Reclaim` between any two |
| `OutOfOrderFetch`, `MC_OutOfOrderFetch` | the out-of-order core's use of the cache (EXTENDS `BBCache`) | per thread: block, instructions in flight, pending invalidation; `Fetch`, `Hold`, `Synthesize`, `FetchInstruction`, `Redirect`, `Commit`, `DetectSMC`, `HandleSMC`, `SpuriousFault`, `EndRun`, `Rerun`, `Shutdown` |
| `SequentialFetch`, `MC_SequentialFetch` | the sequential core's use of the cache (EXTENDS `BBCache`) | the block executed; `SeqFetch`, `Take`, `SeqSynthesize`, `SeqDetectSMC`, `ExecuteUop`, `Leave` |
| `BBCache_proofs` | - | lemmas about the cache's operations; theorems about each core on the cache |
| `InOrderMemory` | what the load and store queues promise, abstractly | how many uops each thread executed, memory, last result; `Load`, `Store`, `Fence`, `Restart` |
| `LoadStoreQueue`, `MC_LoadStoreQueue` | the load and store queues of all threads of a core | entries, heads, alias predictor, interlocks, queued releases, memory; `Issue` (nine ways), `FenceWakeup`, `Commit`, `Annul`, `Flush`, `NextCycle` |
| `LoadStoreQueue_proofs` | - | types, locks and fences; the queues implement `InOrderMemory` |
| `DataCache`, `MC_DataCache` | load fill request queue and miss buffer | `lfrq`, `missbuf`, `lfrqslot`, `fill`; `Load`, `FetchMiss`, `CommitStore`, `InitiatePrefetch`, `Redispatch`, `Mispredict`, `Flush`, `Clock` |
| `DataCache_proofs` | - | the links between the two tables |
| `DynamicOptimization`, `MC_DynamicOptimization` | trampolines, `InsertMessage`, the JIT's recompilation, the profile file, runs of lli | copies and mapping per function, counters, `enabled`, `loaded`, `file`, threads; `Compile`, `RunMain`, `Call`, `EnterLoop`, `Return`, `Load`, `Store`, `BeginDump`, `EndDump`, `Fetch`, `Unmap`, `Recompile`, `FailToRead`, `Link`, `LinkFails`, `Patch`, `Astray`, `Exit`, `Kill`, `Restart` |
| `DynamicOptimization_proofs` | - | types, jumps between copies, profiles, copies per report, powered calls |

### The functional unit

The code computes with doubles: power is linear in time during a transition,
and an interrupted transition resumes from where the two lines cross. Scaled by
`onLatency / onPower` a power level is a number of ticks of charge, which is
the only form later code reads it in; the record keeps that number. A
conversion `(tick_t)` truncates, and where the exact quotient is whole the
double product may fall just short of it, so that the model allows both
results. A negative level wraps as an unsigned tick, and such a fall is
scheduled `Wrap` ticks ahead, beyond the bound of the clock. An assertion that
fails stops the run (`fault`). Energy and the two transition-time totals are
not kept, as no branch reads them; the energy *assertion* is kept, in the
closed form that decides it.

### The manager

A mask is a set of unit numbers of the compiler (`FUT_INT_ADD_ARITH` = 1,
`lib/Target/X86/PowerGating.h`); bit 0 is no unit's. `processAtIssue` walks all
units with one tick, `now - offset`, and an assertion of any of them ends the
simulation. `offset` starts as any value, since the constructor leaves it
unset; it is set when the decoder meets 0x0f39, which `JIT::runFunction`
executes before it calls the program (`JIT.cpp:157`), and only compiled code
holds GATE instructions. The model starts the measured run once; that 0x0f39
may be translated again is listed as a hazard. `dumpStats` runs once, from the
final flush (`decode-core.cpp:1603`), and completes transitions on the raw
clock, then reads on-times on the run's. `GatedUnits` is the abstract side: a
set of wanted and a set of available units. A unit counts as available when
`functionalUnitAvailable` would say so, and `mask` is the wanted set.

### The power pass

A function is its flow graph, its code and the BasicBlock each machine block
came from. Loops are found as `LoopInfo` finds them, from dominance and back
edges. The profile decides which successor a trace grows to; as the profile is
not under the pass's control any candidate may be the heaviest, and
`ExtendTrace` takes any. The opcode table is a set of units per instruction.
A block ends in a branch or falls through to its only successor; `Compiled`
asks only that no block is empty (the pass would read past the block's list)
and that the code has no gates yet.

The pass sees one function at a time. After it the function runs from its entry
with all units on, or under a mask its caller's gates left, and a call may
return with a mask of the callee's; `OtherMasks` are those masks. `Execute`
applies gates as the simulator does. `foreign` is a history: the mask in force
was left by another function and no gate of this one has been executed since.

The pass does not keep every unit that is needed on (`Powered`). It puts a
loop's gate before the last instruction of the preheader
(`--preheader->end()`, line 101): the branch to the loop, or, if the preheader
falls through, an ordinary instruction, which runs under the loop's mask. And nothing restores the
mask after a call, or sets one on entry to a function with loops. The
properties name these two places, `BehindLoopGate` and `foreign`, and say that
nothing goes wrong anywhere else; they are not hypotheses of a run or a proof.

### The block cache and the cores

Translation is split wherever the code allocates, because `reclaim` may run
there. `reclaim` frees blocks no younger than the average last use; the model
drops the times and frees any set of unreferenced blocks. `invalidate_page`
stops at the first referenced block; which ones it met before that depends on
the slots of the list, so that any subset of the unreferenced ones may be gone.
`stale` is a history: for each cached block, the pages overwritten since it was
translated. A basic block spans one page or two, and an instruction may cross.

### The load and store queues

A behaviour runs one program of uops per thread, chosen at the start. A value
is the tag of the store that wrote it, so that a load of a wrong or a mixed
value shows byte by byte. When an operand that is not modelled (an address, a
register) becomes ready is any time: `Issue` is enabled as soon as the modelled
operands allow. `issueload` and `issuestore` are split along their returns, in
the order of their tests: a source that is not resolved, an alias that is
already issued (in this cycle, or earlier, which redispatches everything from
the store on), a lock of another thread, success. `rs` is the operand a
replayed uop waits for. A locked instruction is what the decoder makes of it:
`mf`, `ld.acq`, `st.rel`, `mf`. Its lock leaves with the load's commit for the
queue of releases, and the fence behind it, or a flush, empties that. `Annul`
takes any suffix of instructions away and fetches it again. A store carries the
bytes it found in the queue or in memory when it issued, and commits them all
(`oooexec.cpp:1026`): a byte of a shared chunk that another thread has stored
since is written over. The code promises nothing else, and so `InOrderMemory`
allows it, no further than it goes: such a store may write again (`Again`) what
the last store of its own thread to the byte left there, unless a store fence
stands between the two. Unaligned and
uncached accesses are left out. `redispatch_dependents` asks
`isstore(uop.opcode)` of the store itself (`oooexec.cpp:2354`), so that
everything behind it is dispatched again, and so it is in the model.

### The data cache

What the caches hold is left open: any access may miss, at any level. A load
that misses takes a slot of the request queue (LFRQ) and joins the buffer of
its line; stores, fetches and prefetches join or take a buffer without a slot.
`Redispatch`, `Mispredict` and `Flush` are what the core does to entries with a
slot, `Clock` moves every busy buffer, delivers at the first level and wakes at
most `MaxWakeups` loads. The slots and buffers are lowest-first as in the code.
A flush resets the buffers its own thread *allocated*, whoever has joined since.

### Dynamic optimization

A function is the list of its compilations; a copy records whether the power
pass ran, how much of the profile laid it out, and to which copy its patched
entry jumps. A trampoline is split into its load and its store, since threads
interleave, and `InsertMessage` into its effects in order: begin and end of the
write, `powerPassEnabled`, reading the mapping, dropping it, compiling, reading
the new mapping, patching. Threads may run the same function (`Shared`), and
then nothing orders these steps: both read the same counter, a thread finds the
mapping dropped by another and goes through `getPointerToFunction` (`Fetch`),
which looks again before it takes the lock (`JIT.cpp:351`) and not after; the
mapping is gone when it wants to link, which the assertion at `JIT.cpp:460`
excludes (`LinkFails` ends the run); or it enters the function between the two
writes of a patch (`Astray` ends the run, as nothing can be said of it). The
jump is patched into the copy the thread found mapped at first. The file is
a sequence of packets, whole, cut off, or broken by another packet written at
the same time, and with counts or not, as the counters are announced by `main`.
The loader is modelled by what it can return for such a file. lli runs the
static constructors, each compiled just before, and then compiles everything
else before `main`: a constructor that calls a function not yet compiled ends
the run ("lazy compilation"), as does an unreadable file ("broken profile").
A run may be killed at any step, and the next starts from the file alone.

## 3. Runs that pass

Fairness is assumed only by the three specifications named `FairSpec`:

- `DataCache`: `WF(Clock)`. The machine runs one cycle after another for as
  long as it simulates (`ooocore.cpp`, `OutOfOrderMachine::run`), and nothing a
  thread does keeps a cycle from ending.
- `LoadStoreQueue`: weak fairness of each uop's `Issue`, of each thread's
  `FenceWakeup` and `Commit`, and of `NextCycle`. `runcycle`
  (`ooocore.cpp:320-475`) visits every thread and every issue queue in each
  cycle, so that an uop that stays ready is issued.
- `DynamicOptimization`: `WF(Trampoline(t))`. A thread inside a trampoline
  neither blocks nor waits for the program; the host schedules it. Nothing is
  assumed of `Call`, `Return` or `Exit`: the program may do as it likes.

Deadlock is checked in `data_cache` and `load_store_queue`, whose systems never
stop before they are done. It is not checked in the others, since those models
end (the clock's bound, a function that returns, a machine that is shut down,
an assertion that stops the simulator, the last run of lli).

| Run | Question | Properties | Bounds |
|---|---|---|---|
| `functional_unit` | can chains of requests corrupt the accounting, give an early wake-up or drag a transition out? | `TypeOK`, `OnOffDisjoint`, `ReportsGrow`, `NeverAvailableEarly`, `SettlesInTime` | latencies 4 and 3, 13 ticks: three interrupted transitions in any pattern |
| `manager` | does each unit follow its own bit, and is the account relative to the measured run? | `TypeOK`, `RequestsImplementGating`, `AccountedWithinRun` | two units with latencies 3/2 and 2/1, 5 ticks, any start of the run, any masks, any number of them per tick |
| `gate_pass` | where may an instruction need a gated unit, are loops entered gated and hot traces free of gates? | `TypeOK`, `StarvedWhereKnown`, `OffTraceAllOn`, `TraceHoldsMask`, `LoopEntryGated`, `HotTraceUngated` | every flow graph of 4 reachable blocks with at most 2 successors, and seven graphs of 6 blocks (loops in sequence, nested, with cold paths, irreducible); each block with its own unit, any one block bare, falling through or ending in a call, every profile; a mask of other functions that leaves one unit on |
| `ooo_one_thread` | does the check for self-modifying code hold, with reclaim at every allocation? | `ListsMatchCache`, `NoStaleCommit`, `CutByOwnStoreOnly`, `FlushedEmpty`, `TypeOK` | 3 blocks on 2 pages, one crossing; 2 instructions in flight |
| `ooo_two_threads` | are references exact with two threads on one cache? | `ReferencesExact`, `LockedListsExist` | 2 blocks, 2 threads, 1 instruction in flight each, symmetric threads |
| `sequential` | does the sequential core execute stale code? | `NoStaleFirstPage`, `SeqTypeOK` | 3 blocks on 2 pages |
| `data_cache` | is a load ever woken by another load's line, or not at all? | `TypeOK`, `NoStaleWakeup`, `WaitersLinked`, `LoadsWake`, `FetchResumes` | 2 threads with a line each and a prefetched third, 2 entries per thread, 2 slots, 2 buffers, 2 levels of 1 and 2 cycles, 1 wake-up per cycle |
| `load_store_queue` | are reordering, forwarding, fences, locks and flushes invisible, and does everything commit? | `TypeOK`, `LocksAccounted`, `NoDoubleLocking`, `FencesHold`, `ImplementsInOrderMemory`, `AllCommit` | seven programs of up to 7 uops on 2 threads, 2 chunks of 2 bytes, one lock in the interlock buffer, one flush or misprediction |
| `dynamic_optimization` | do concurrent reports end in powered code laid out by this run's profile, once each? | `TypeOK`, `CopiesForward`, `OneCopyPerReport`, `CallsRunPowered`, `ProfileOfThisRun`, `HotGetsPowered` | 2 threads that share a function, one of them with a second function that is also a constructor and has a loop and recursion; threshold 1, counters modulo 4, 2 runs, 1 kill, a file of at most 1 packet when the second run starts |

Why the bounds are enough: a unit's behaviour depends on the history only
through the charge and the transition's start, and 13 ticks let a transition of
each kind be interrupted, resumed and interrupted again. The pass treats each
loop alone; two loops and the blocks between them are all the interaction there
is, and six blocks hold those. For the cache a page of one block, a page of
two, and a block on both are all the cases the code tells apart. Units do not
interact in the manager except by aborting together, so that two suffice to
tell one bit from another. Two slots and two buffers let both tables run full,
a line be joined by a second load or fetch, and a freed slot be taken again
while its former line is on the way. The programs of the load and store queues
are chosen by case: stores to single bytes under a load of both, stores of
loaded data to the same chunk and to another, fences of each kind, two locked
updates of one chunk with a plain store before one, a locked update against
another thread's store to the other half, locked updates of two chunks with
room for one lock, and unlocked stores of two threads to one chunk, where one
has two stores, a fence and a third. One flush or misprediction may hit any of
them at any step.
With a threshold of 1 the first execution reports; with a modulus of 4 the one
`MaxPast` allows the constructor's function after that passes zero and stays short of the
wrap, as 2^32 does for the code (in `Threshold + MaxPast[tr] < CounterMod`); its
two trampolines report in either order and inside each other's activations,
while the other thread reports the shared function at the same time as the
first. The second run meets no file, or a whole, a cut-off or a broken packet of
the first (`MaxLeft`). A shared function with two trampolines is beyond the
run: what two threads leave behind there is what the proofs say for any number.

`NoSharing` (no line of two threads, or of a thread and a prefetch) limits
`data_cache`: the flush of one thread resets a buffer another has joined, and
`DataCache_StaleWakeup.cfg` shows what follows. In `dynamic_optimization` three
properties say themselves what threads that share a function spoil:
`CopiesForward` allows such a function a copy that is left without a jump,
provided it went through the power pass; `OneCopyPerReport` counts the copies
of functions that one thread runs, since two threads may take a counter to zero
twice; and `CallsRunPowered` waits for a shared function until no other thread
is about to patch the copy that was compiled without the pass (a thread that
loses the race for the mapping returns before the winner has patched).

`CutByOwnStoreOnly` is what holds of a comment that promises more:
`ooopipe.cpp:1845` says that past its point all uops of a macro-op are
guaranteed to commit, but a `push` on the page it writes (a store, then a
subtraction: `decode-fast.cpp:70`) is cut after its store. It is then fetched
again and repeats the store. `SettlesInTime` speaks of the first interruption
only: a second one may meet a fall shorter than `offLatency`, for which
`gatinglib.cpp:234` computes a level below zero, and the next rise takes longer
than a full one.

`NeverAvailableEarly` depends on the latencies. `KeepsLevel` is what it needs
of them: a rise of some ticks that is interrupted and resumed at once resumes
with no more ticks of charge. 18 of the 22 units of the table at
`gatinglib.cpp:350-371` have it; `FUT_INT_SHIFT` and `FUT_MOVE` (6/3),
`FUT_AGU` (8/5) and `FUT_SET` (5/2) do not: the truncation of their fall leaves
a tick of charge too many, and with such latencies TLC finds the unit available
early by a tick. `MC_FunctionalUnitManager` evaluates `KeepsLevel` for the
whole table and for the latencies of `functional_unit`.

Every property of a passing run has a mutant in `PROJECT.json`: a plausible
change of a mapped definition under which TLC finds the property violated.

## 4. Runs that end in a violation: where code and text disagree

| Run | Property | What TLC shows |
|---|---|---|
| `assertions` | `AssertionsHold` | two requests in one cycle trip `assert(nextClock > now)`; a shortened wake-up begun after tick `onLatency` trips the energy assertion |
| `double_lock` | `NoDoubleLocking` | the second `ld.acq` of a `cmpxchg8b` finds its chunk locked by its own thread, which the assertion at `oooexec.cpp:1290-1293` excludes |
| `stale_profile` | `ProfileIsCurrent` | the profile is read once (`X86PowerPass.cpp:444`), so that the copy compiled for a later report was laid out without the packet just written for it (`JITPass.cpp:43-44`) |

`findings` in `PROJECT.json` quotes the text each one contradicts.

Six more configurations are kept for a run by hand; each ends in a violation
and shows where a stronger property stops holding:

| Configuration | Module | Property | What TLC shows |
|---|---|---|---|
| `Manager_Percent.cfg` | `MC_FunctionalUnitManager` | `PercentInRange` | a unit that is rising at the dump gets an on-time of about 2^64 ticks |
| `GatePass_FallThrough.cfg` | `MC_GatePass` | `Powered` | in a preheader that falls through, the gate goes before the last real instruction (`X86PowerPass.cpp:101`), which then runs under the loop's mask |
| `GatePass_Calls.cfg` | `MC_GatePass` | `Powered` | after a call to a gated function, and under a gated caller, code runs under a mask that is not its own |
| `Ooo_StaleCommit.cfg` | `MC_OutOfOrderFetch` | `NoStaleCommit` | with two threads an overwritten block survives with its page clean and commits |
| `Seq_Crossing.cfg` | `MC_SequentialFetch` | `NoStaleExecution` | the watched span never moves with the instruction, so a second page goes unwatched |
| `DataCache_StaleWakeup.cfg` | `MC_DataCache` | `NoStaleWakeup` | a prefetch of a line that a thread also loads: the flush frees the load's slot and leaves it in the prefetch's buffer, which later makes it ready |

The userspace build has one hardware thread (`kernel.h:248-250`); two threads
are the Xen build with SMT (`ooocore.h:26-33`, `ptlxen.h:83`). The comment at
`ooocore.cpp:499-516` knows of the shared block and calls the present handling
a temporary fix.

A further disagreement is not run: the sequential core takes no reference to
the block it has translated, and `synth_uops_for_bb` allocates, so that a
reclaim may free it (`seqcore.cpp:1071`), although `decode-core.cpp:1539` says
"We cannot invalidate anything that's still in the pipeline." `SequentialFetch`
has that step (`Reclaim` between `Take` and `Synthesize`).

## 5. Proofs

`FunctionalUnit_proofs` proves, for all latencies, wrap distances and lengths
of a run:

- `TypeCorrect`: `Spec => []TypeOK`;
- `AccountingSound`: `Spec => []OnOffDisjoint`;
- `SettlingSound`: `Spec => []SettlesInTime`;
- `ReportsNeverShrink`: `Spec => ReportsGrow`;

and, for all latencies with `KeepsLevel`, `NeverEarly`:
`Spec => []NeverAvailableEarly`.

`FunctionalUnitManager_proofs` proves, for any number of units as well:

- `ManagerTypeCorrect`: `Spec => []TypeOK`;
- `AccountsRelative`: `Spec => []AccountedWithinRun`;
- `ManagerImplementsGating`: `Spec => RequestsImplementGating`, that is, the
  manager's specification implies that of `GatedUnits` under the mapping.

`GatePass_proofs` proves for any flow graphs (reducible or not), code, profiles,
orders of the loops and masks of callers and callees:

- `PassTypeCorrect` (`TypeOK`), `StarvedOnlyWhereKnown` (`StarvedWhereKnown`), `OffTraceSound`
  (`OffTraceAllOn`), `TraceMaskSound` (`TraceHoldsMask`), `LoopEntrySound`
  (`LoopEntryGated`), `HotTraceSound` (`HotTraceUngated`).

`BBCache_proofs` proves for any blocks, pages, threads and depth of the reorder
buffer of the out-of-order core:

- `OooTypeCorrect`: `Spec => []TypeOK`;
- `ReferencesSound`: `Spec => []ReferencesExact`;
- `ListsSound`: `Spec => []ListsMatchCache`;
- `LockedListsSound`: `Spec => []LockedListsExist`;
- `FlushSound`: `Spec => []FlushedEmpty`;

and for one thread, as in the userspace build (`Threads = {t0}` is an
assumption of these two theorems, since with two threads they are false):

- `CommitsFresh`: `Spec => []NoStaleCommit`;
- `CutsSound`: `Spec => []CutByOwnStoreOnly`.

It proves for any blocks and pages under the sequential core:

- `SeqTypeCorrect` (`SeqTypeOK`), `FirstPageFresh` (`NoStaleFirstPage`).

`LoadStoreQueue_proofs` proves for any programs, threads and number of flushes:

- `QueueTypeCorrect`, `LocksSound` (`LocksAccounted`), `FencesSound`
  (`FencesHold`);
- `QueuesImplementMemory`: `Spec => ImplementsInOrderMemory`, that is, the
  queues' specification implies that of `InOrderMemory` under the mapping;
- `LocksTakenOnce` (`NoDoubleLocking`), for programs whose locked loads are
  alone in their instruction.

`DataCache_proofs` proves, under `NoSharing`, for any tables and latencies:

- `CacheTypeCorrect`, `WakeupsSound` (`NoStaleWakeup`), `WaitersSound`
  (`WaitersLinked`).

`DynamicOptimization_proofs` proves for any functions, trampolines, thresholds,
threads (sharing functions or not), runs and kills:

- `OptimizationTypeCorrect`, `LinksSound` (`CopiesForward`), `ProfilesSound`
  (`ProfileOfThisRun`), `ReportsCompileOnce` (`OneCopyPerReport`),
  `HotCallsPowered` (`CallsRunPowered`).

The assumptions on the constants are named where the constants are declared:
`LatencyAssumption`, `BoundAssumption` and `UnitsAssumption` (latencies, the
wrap distance and the modulus are positive, bounds are natural),
`EntryAssumption`, `FunctionsAssumption` and `MasksAssumption` (a function has
finitely many blocks, its entry among them; masks are sets of units),
`PagesAssumption` and `ThreadsAssumption` (a block spans a page or two,
threads are finitely many), `QueueAssumption` (programs are well formed),
`InstructionsAssumption` (uops know the ends of their instruction, and a locked
one has a fence for loads and stores at each end, as the decoder's
`memory_fence_if_locked` puts it, and loads before it stores),
`CacheAssumption` and `OptimizationAssumption`. TLC evaluates all of them in the runs.

Some theorems have hypotheses besides, each of which is false in a by-hand
configuration, for other latencies or for programs outside the run, and true in
the passing runs:

| Hypothesis | Of | Says | Without it |
|---|---|---|---|
| `KeepsLevel(Lat)` | `NeverEarly` | an interrupted rise resumes with no more charge than it had | latencies 6/3, 8/5 and 5/2 (section 3) |
| `NoSharing` | `DataCache_proofs` | no line of two threads, or of a thread and a prefetch | `DataCache_StaleWakeup.cfg` |
| `Hi[b] \in {Lo[b], Lo[b] + 1}` | the sequential core | a block lies on one page or on two in a row (`kernel.h:391-392`) | - |
| `LockedAlone(p)` | `LocksTakenOnce` | an instruction loads a chunk it locks only once | the run `double_lock` |

*The unit.* `OnOffDisjoint` is not inductive: it adds two reported times and
says nothing of where they end. The invariant `IInv` is `TypeOK` and
`Sound(fu, now)`: all time accounted so far lies before `AccountedUntil(fu)`,
which is `onTime` for a unit that is on and `transitionTime` for any other,
that tick has passed, and a scheduled end lies after its start. The last part
is what the assertions on `nextClock` give, and is needed because
`synchronize` moves `transitionTime` to the scheduled end. The argument goes
operation by operation (`SynchronizeSound`, `TurnOffSound`, `TurnOnSound` in
`GatingLib_proofs`, for any latencies), then one step per action.
`ReportsGrow` follows from `IInv` with lemmas that a request moves time between
the parts of a report and adds none, and that a tick only adds.
`SettlesInTime` needs `Settling(fu, chain)` besides: a transition that
interrupted nothing has its full length and, if it is a rise, no charge at its
start; only then is the level the next interruption computes inside its range.
`NeverAvailableEarly` needs `Level(fu, leftOff)`: a rise has at most as many
ticks of charge as have passed since the unit left OFF, and a fall began at a
level of at most those, or at one so high that every rise still due is within
them, or was scheduled by a wrapped time, which resumes from nothing.
`KeepsLevel` speaks of one fall resumed at once; that a later resumption, a
chain of them and either rounding add nothing is what the proof shows.

*The manager.* Its invariant is that every unit is `Sound` on the time of the
measured run during it, that no unit was touched before it (`Fresh`), and that
a unit is on or rising exactly if its bit is in the last mask (`Wanted`). A
tick or the dump can only complete rises, which `GatedUnits` allows as `Rise`;
a request that passes its assertions maps to `Request`, by `ServedUnit`: no
outcome of `TurnOn` on a unit that is not on is on at the same tick.

*The power pass.* `IInv` is `Placed`, `Planned` and `Running`. `Placed` says
what the rewritten code looks like at any time: `loops` are those of the flow
graph; every gate is one the pass put there, for a trace it has optimized; the
mask of a trace covers the code of its blocks; each successor of a trace off
that trace begins with an all-on gate; and a loop's gate is the last but one
instruction of its preheader. Every insertion must keep that for the traces
optimized before, whose blocks, successors and preheaders may overlap with the
new one's. That they overlap only harmlessly is a matter of graphs: of two
dominators of a block one dominates the other (`DominatorsOrdered`), so that
of two loops that meet the outer holds the header of the inner (`LoopsNest`)
and innermost loops are disjoint (`InnermostDisjoint`); a loop is entered only at its header
(`EnteredAtHeader`), and no preheader lies in an innermost loop of its own
(`PreheaderAlone`). Those lemmas use that the search of `Reach` ends in the
least set closed under successors (`ReachLeast`, `ReachFacts`); they follow
from its rounds by taking the first round that would break the claim, and from
the number of blocks, which bounds the rounds that find something new.
`Planned` says which loops are left and where the trace being grown lies.
`Running` is what makes the run's properties inductive: `MaskKnown`, the four
situations in which something is off, and `AtLoop`, that past the gate in a
preheader the mask is that of its loop or of a function called there.

*The block cache.* `IInv` says who owns each reference: a block's count is the
number of threads that fetch from it plus one while it is being translated
(`Refs`), the lists hold exactly the pages' cached blocks except for the block
a translation has put on none or one of its lists yet, and a list such a
translation has locked exists (`Listing`); `Working` ties the step of a
translation to its thread. A reclaim may come between any two steps, so that
its effect is stated once, as "frees unreferenced blocks and unlocked empty
lists", and each part of `IInv` is shown to survive that. `Fresh` adds, for one
thread, that what is stale lies on a dirty page, in the cache (`StaleIsDirty`)
and in the reorder buffer (`Marked`), and that of an instruction that has begun
to commit only the page it wrote itself is dirty (`Halves`); an invalidation
cleans a page only after its blocks are gone or are the thread's own.

*The sequential core.* The same facts about a translation are stated for any
number of references a core holds (`Translating(h)`), and a reclaim or a step
of a translation keeps them (`TranslatingReclaim`, `TranslatingStep`). The
sequential core holds none (`Unheld`), so that the block it executes may be
gone from the cache, and nothing can be said of that block's entry. `SeqInv`
therefore speaks of pages: all that is stale lies on a dirty page
(`StaleIsDirty`), and so does all that was overwritten of the current block
(`overwritten \subseteq dirty`). The check before each uop then finds the first
page dirty; it finds no more, as it always watches the span of the first
instruction (`Seq_Crossing.cfg`).

*Locks and fences.* `LocksAccounted` speaks of sets of chunks. That a release
frees exactly what should be freed needs `OneLockEach`: no two entries, and no
entry and the queue, hold the same chunk, which is what `interlocks[c] = None`
at issue gives. `FencesHold` needs that a load behind a fence waits through
`rs` for that fence or a later one, also after a redispatch (`HeldBack`), and
that a store has its data only if it issued (`StoresIssued`).

*The refinement of the queues.* `InOrderMemory` executes a uop when it commits,
so that the invariant `Data` has to say what an uop that ran ahead will turn
out to have read. `Seen` says that each byte of an issued load is the one it
sees: that of the youngest older store in flight that writes it and has issued,
or of memory, for a load of a chunk that no other thread stores to and for one
that holds a lock. Of a store's merged bytes it says that they are such bytes
when its chunk is private, and in any chunk that they are what the last store of
its own thread to the byte left, with no store fence since (`Rewrites`): such a
store may undo another thread's store, as the code's does. A store that issues
after a younger load of its bytes redispatches it, which is why `Seen` speaks of
issued stores only; that no store will issue in between two others is
`StoresInOrder`. `Updates` says that
between the commits of a locked load and its store the lock is queued and the
whole instruction has issued, so that no other thread's store of the chunk can
commit meanwhile; a flush starts the whole instruction again. `Known` ties locks
and addresses to what has issued. Each action maps to one abstract step or to
none: `Commit` to `Load`, `Store` or `Fence`, a flush to `Restart`, everything
else to a stutter. `LocksTakenOnce` adds `QueuedFenced`:
while a release is queued, the fence that ends its instruction has not
completed, so that no later load of the thread has issued.

*The data cache.* `BuffersOwned` (a busy buffer holds a line of the thread that
allocated it) and `SlotsOwned` (an allocated slot names its load) together give
that a thread's flush frees slots of its own buffers only, which is where
`NoSharing` is used. `Linked` is the relation between the two tables that
each operation keeps.

*Dynamic optimization.* `Jumps` holds of every function, shared or not: a jump
leads to a newer copy, the last copy is mapped or somebody is at its
compilation, and a thread that relinks patches a copy older than the one it
jumps to, because the copy was mapped when it looked and the target when a
compilation had followed. `Warm` says what those copies are: the pass is on
once a thread has dumped its profile (`Enabling`), so that every copy but the
first is powered, and a first copy that is not is the mapped one, or jumps on,
or is about to (`Powered`); and a trampoline that has reported, or does when a
thread stores the counter it has read, is in a hot function or has somebody
reporting it (`Heat`). As jumps lead forward, Newest has a value and is a copy
without a jump (`NewestEnds`, by the greatest copy for which it could fail), so
that a call of a hot function ends in a later copy or in a powered first one.
Where one thread runs a function more is true (`Linked`): its copies form a
chain in the order of compilation, broken only for that thread between dropping
the mapping and patching, and then in a known way (`Unlinked`). `Apart` (before
`main` only the main thread runs, and then each thread its own functions and
the shared ones) gives that no other thread and not lli compiles it meanwhile.
`Counts` says that such a thread between the load and the store of a trampoline
still has the counter's value in its register, and that the counter is zero
from the store that makes it so; hence its trampoline reports once.
`OneCopyPerReport` compares the number of copies with the number of reports,
which changes by one at the step that compiles and at no other. `Profiled`
follows the packet that a reporting thread wrote from the file to `loaded` and
to the copies.

Only model-checked: liveness (`LoadsWake`, `FetchResumes`, `AllCommit`,
`HotGetsPowered`), since ENABLED and fairness are out of the prover's reach.
Every invariant and every action property of a passing run is proved.

## 6. Plan

Done: the unit and its manager, the block cache under the out-of-order core,
the sequential core, the load and store queues with their refinement, the miss
buffer, the power pass, and dynamic optimization, each with its proofs.

Left, in this order:

1. `GateDecode`: the manager driven by translations of `BBCache`; a gate is
   applied once per translation, also on a mispredicted path, and not per
   execution. Questions: is the manager's mask that of the program's last
   executed gate (`X86PowerPass.cpp:111`), and what does a second translation
   of 0x0f39 do to the stamps?
2. `EdgeProfile`: the counters themselves and the loader's walk over the
   module; whether the weight the pass reads is the executed count, which
   `DynamicOptimization` leaves open (it follows packets, not weights).
3. Rename, the issue queues' capacities and the physical registers, composed
   with `LoadStoreQueue`.

## 7. Not modelled, and why

- Energy totals and time-in-transition totals: numbers no decision reads.
- The opcode-to-unit table, x86 decoding, the predictor: large pure tables
  whose results are parameters here.
- Syscalls, the Xen port, the memory manager: the host's interface; the models
  take from them dirty bits, the number of threads, and that any allocation may
  reclaim.
- Cache lines, tags and replacement: they decide only when an access misses,
  which `DataCache` leaves open; data is kept in memory.
- Rename, clusters, issue queues and physical registers: they decide when an
  operand is ready, which `LoadStoreQueue` leaves open.
- Unaligned and uncached accesses, and the order in which unlocked loads see
  what other threads store: nothing in the repository promises one.
- Edge weights: see the plan.
- LLVM itself: unchanged upstream code without shared state or concurrency that
  the power work depends on, except the JIT's recompilation, which
  `DynamicOptimization` models. That is by far the larger part of the source;
  its algorithms (instruction selection, register allocation, the analyses) are
  sequential transformations of large data, which a model checker reaches only
  as toys.

## 8. Running

    tlc -workers 2 -config FunctionalUnit.cfg FunctionalUnit
    tlapm FunctionalUnit_proofs.tla
    tlapm FunctionalUnitManager_proofs.tla

and so on for each row of `runs`. The longest runs (`ooo_two_threads`,
`dynamic_optimization`, `load_store_queue`) take one to two minutes each, the
longest proofs (`BBCache_proofs`, `GatePass_proofs`, `LoadStoreQueue_proofs`)
from one to a few minutes.
