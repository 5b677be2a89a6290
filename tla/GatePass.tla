------------------------------- MODULE GatePass -------------------------------
(***************************************************************************)
(* The machine-function pass PowerOpt (lib/Target/X86/X86PowerPass.cpp)    *)
(* and the run of the code it leaves behind.  The pass grows one greedy    *)
(* trace per innermost loop, or one from the entry if the function has no  *)
(* loop, gates every unit the trace does not use at the loop preheader or  *)
(* the entry, and puts an all-on gate at the start of every successor of   *)
(* the trace that lies off it.  The code then runs under the mask of the   *)
(* last gate executed.                                                     *)
(*                                                                         *)
(* A gating mask is the set of units it keeps on.  Edge weights come from  *)
(* a profile the pass cannot control, so that any candidate successor may  *)
(* be the heaviest one.  The pass sees one function at a time: the run may *)
(* start under the mask of a caller, and a callee may return with its own. *)
(***************************************************************************)
EXTENDS Naturals, Sequences, FiniteSets, SequencesExt

CONSTANTS
  Blocks,     \* machine basic blocks of the function
  Entry,      \* its entry block
  Units,      \* functional units
  Functions,  \* the functions compiled: records [succ, bb, code]
  OtherMasks  \* masks the gates of other functions may leave: of a caller on
              \* entry, of a callee on return; {} if no other function is gated

ASSUME EntryAssumption == IsFiniteSet(Blocks) /\ Entry \in Blocks

(* Instructions: "op" (any but a call), "call" and "gate"; units is what   *)
(* an op needs or what a gate leaves on.                                   *)
Op(S)   == [kind |-> "op", units |-> S]
Gate(S) == [kind |-> "gate", units |-> S]
EveryBit == Units \cup {"unassigned"}  \* mutant: a bit no unit has
AllOn   == Units

(* What the pass is given: a function without gates, with no empty block. *)
(* A block may end in a branch or fall through to its only successor.     *)
Compiled(f) ==
  /\ f \in [succ : [Blocks -> SUBSET Blocks], bb : [Blocks -> Blocks],
            code : [Blocks -> Seq([kind : {"op", "call"}, units : SUBSET Units])]]
  /\ \A b \in Blocks : f.code[b] # <<>>

ASSUME FunctionsAssumption == \A f \in Functions : Compiled(f)
ASSUME MasksAssumption == OtherMasks \subseteq SUBSET Units

VARIABLES
  func,    \* the function, its code rewritten by the pass
  loops,   \* MachineLoopInfo: the blocks of each loop, by its header
  phase,   \* "pass", "trace", "run", "done", or "crashed"
  todo,    \* headers of the innermost loops not optimized yet
  trace,   \* the trace being grown
  traces,  \* history: the traces optimized, with loop header and mask
  block,   \* the run: current block
  index,   \*          index of the next instruction in it
  mask,    \*          units on
  foreign  \* history: the mask was left by a gate of another function

vars == <<func, loops, phase, todo, trace, traces, block, index, mask, foreign>>
running == <<block, index, mask, foreign>>
-----------------------------------------------------------------------------
(* MachineLoopInfo, for the loops of a flow graph g (the successors of the *)
(* blocks), reducible or not.                                              *)

(* The blocks reachable from S through blocks outside avoid, along g.      *)
Reach(g, S, avoid) ==
  LET step[n \in 0..Cardinality(Blocks)] ==
        IF n = 0 THEN S \ avoid
        ELSE LET found == step[n-1]
             IN  found \cup ((UNION {g[b] : b \in found}) \ avoid)
  IN  step[Cardinality(Blocks)]

Live(g) == Reach(g, {Entry}, {})
Dominates(g, d, b) == b = d \/ b \notin Reach(g, {Entry}, {d})
Latches(g, h) == {t \in Live(g) : h \in g[t] /\ Dominates(g, h, t)}
Headers(g) == {h \in Live(g) : Latches(g, h) # {}}
LoopBlocks(g, h) ==
  {h} \cup {b \in Live(g) \ {h} : Reach(g, {b}, {h}) \cap Latches(g, h) # {}}
LoopInfo(g) == [h \in Headers(g) |-> LoopBlocks(g, h)]
Innermost(li) == {h \in DOMAIN li : li[h] \cap DOMAIN li = {h}}

(* getLoopPreheader: the only block entering the loop, if it has no other  *)
(* successor than the header; {} stands for NULL.                          *)
Outside(g, h) == {p \in Live(g) \ loops[h] : h \in g[p]}
PreheaderOfBranch(g, h) == {p \in Outside(g, h) : Outside(g, h) = {p}}  \* mutant: any successors
Preheader(g, h) == {p \in Outside(g, h) : Outside(g, h) = {p} /\ g[p] = {h}}
-----------------------------------------------------------------------------
(* Mutant: any gate is overwritten. *)
InsertGateOver(code, i, m) ==
  IF code[i].kind = "gate" THEN [code EXCEPT ![i] = Gate(m)] ELSE InsertAt(code, i, Gate(m))

(* insertGatingInstruction(m, i): a gate at i that is not all-on stays, an *)
(* all-on gate is overwritten, any other instruction gets a gate before it.*)
InsertGate(code, i, m) ==
  IF code[i].kind = "gate"
  THEN IF code[i].units # AllOn THEN code ELSE [code EXCEPT ![i] = Gate(m)]
  ELSE InsertAt(code, i, Gate(m))

(* getGatingMask: a GATE is not in the table and falls to its default.     *)
GatingMask(ins) == IF ins.kind = "gate" THEN AllOn ELSE ins.units
TraceMaskOfHead(f, t) == UNION {GatingMask(ins) : ins \in Range(f.code[t[1]])}  \* mutant
TraceMask(f, t) == UNION {GatingMask(ins) : ins \in UNION {Range(f.code[b]) : b \in Range(t)}}

OffTraceOfLast(f, t) == f.succ[Last(t)] \ Range(t)  \* mutant: ignores side exits
OffTrace(f, t) == (UNION {f.succ[b] : b \in Range(t)}) \ Range(t)

(* Mutant: the gate goes into the trace's first block. *)
OptimizedInHead(f, t, g, i) ==
  LET gated == [f.code EXCEPT ![t[1]] = InsertGate(@, 1, TraceMask(f, t))]
  IN  [f EXCEPT !.code = [b \in Blocks |->
         IF b \in OffTrace(f, t) THEN InsertGate(gated[b], 1, AllOn) ELSE gated[b]]]

(* optimizeTrace: the trace's gate at block g, instruction i, then the     *)
(* all-on gates.                                                           *)
Optimized(f, t, g, i) ==
  LET gated == [f.code EXCEPT ![g] = InsertGate(@, i, TraceMask(f, t))]
  IN  [f EXCEPT !.code = [b \in Blocks |->
         IF b \in OffTrace(f, t) THEN InsertGate(gated[b], 1, AllOn) ELSE gated[b]]]

(* addMachineBasicBlock: the blocks the trace may be extended with.  The   *)
(* search gives up at a successor that shares the block's BasicBlock.      *)
Candidates(f, t, allowable) ==
  LET next == f.succ[Last(t)] \cap allowable
  IN  IF \E b \in next : f.bb[b] = f.bb[Last(t)] THEN {}
      ELSE next \ Range(t)

NoLoops == DOMAIN loops = {}
Allowable(t) == IF NoLoops THEN Blocks ELSE loops[t[1]]
-----------------------------------------------------------------------------
Init ==
  /\ func \in Functions
  /\ phase = "pass"
  /\ loops = LoopInfo(func.succ)
  /\ todo = Innermost(loops)
  /\ trace = <<>>
  /\ traces = {}
  /\ block = Entry /\ index = 1 /\ mask = AllOn /\ foreign = FALSE

(* runOnMachineFunction, generateTraces, generateTrace: the next trace. *)
StartTrace ==
  /\ phase = "pass"
  /\ \/ \E h \in todo : trace' = <<h>> /\ todo' = todo \ {h}
     \/ /\ NoLoops /\ traces = {}
        /\ trace' = <<Entry>> /\ UNCHANGED todo
  /\ phase' = "trace"
  /\ UNCHANGED <<func, loops, traces, running>>

ExtendTrace ==
  /\ phase = "trace"
  /\ \E b \in Candidates(func, trace, Allowable(trace)) : trace' = Append(trace, b)
  /\ UNCHANGED <<func, loops, phase, todo, traces, running>>

(* The call --preheader->end() dereferences NULL if there is no preheader. *)
OptimizeLoop ==
  /\ phase = "trace"
  /\ Candidates(func, trace, Allowable(trace)) = {}
  /\ ~NoLoops
  /\ IF Preheader(func.succ, trace[1]) = {}
     THEN phase' = "crashed" /\ UNCHANGED <<func, traces>>
     ELSE LET p == CHOOSE q \in Preheader(func.succ, trace[1]) : TRUE
          IN  /\ func' = Optimized(func, trace, p, Len(func.code[p]))
              /\ traces' = traces \cup
                   {[blocks |-> Range(trace), head |-> trace[1], mask |-> TraceMask(func, trace)]}
              /\ phase' = "pass"
  /\ trace' = <<>>
  /\ UNCHANGED <<loops, todo, running>>

OptimizeAcyclic ==
  /\ phase = "trace"
  /\ Candidates(func, trace, Allowable(trace)) = {}
  /\ NoLoops
  /\ func' = Optimized(func, trace, Entry, 1)
  /\ traces' = {[blocks |-> Range(trace), head |-> Entry, mask |-> TraceMask(func, trace)]}
  /\ trace' = <<>>
  /\ phase' = "pass"
  /\ UNCHANGED <<loops, todo, running>>

(* The function is entered with everything on or under a caller's mask. *)
Run ==
  /\ phase = "pass" /\ todo = {} /\ (NoLoops => traces # {})
  /\ phase' = "run"
  /\ \/ UNCHANGED <<mask, foreign>>
     \/ mask' \in OtherMasks /\ foreign' = TRUE
  /\ UNCHANGED <<func, loops, todo, trace, traces, block, index>>

Current == func.code[block][index]

ExecuteGate ==
  /\ Current.kind = "gate"
  /\ mask' = Current.units
  /\ foreign' = FALSE

CalleeGates ==
  /\ Current.kind = "call"
  /\ mask' \in OtherMasks
  /\ foreign' = TRUE

(* One instruction: a gate sets the mask, a callee may leave its own. *)
Execute ==
  /\ phase = "run" /\ index <= Len(func.code[block])
  /\ index' = index + 1
  /\ \/ ExecuteGate
     \/ CalleeGates
     \/ Current.kind # "gate" /\ UNCHANGED <<mask, foreign>>
  /\ UNCHANGED <<func, loops, phase, todo, trace, traces, block>>

Branch ==
  /\ phase = "run" /\ index > Len(func.code[block])
  /\ \E b \in func.succ[block] : block' = b
  /\ index' = 1
  /\ UNCHANGED <<func, loops, phase, todo, trace, traces, mask, foreign>>

Return ==
  /\ phase = "run" /\ index > Len(func.code[block]) /\ func.succ[block] = {}
  /\ phase' = "done"
  /\ UNCHANGED <<func, loops, todo, trace, traces, running>>

Next ==
  \/ StartTrace \/ ExtendTrace \/ OptimizeLoop \/ OptimizeAcyclic
  \/ Run \/ Execute \/ Branch \/ Return

Spec == Init /\ [][Next]_vars
-----------------------------------------------------------------------------
TypeOK ==
  /\ func.succ \in [Blocks -> SUBSET Blocks]
  /\ \A b \in Blocks : \A ins \in Range(func.code[b]) : ins.units \subseteq Units
  /\ phase \in {"pass", "trace", "run", "done", "crashed"}
  /\ DOMAIN loops \subseteq Blocks /\ \A h \in DOMAIN loops : loops[h] \subseteq Blocks
  /\ todo \subseteq DOMAIN loops
  /\ trace \in Seq(Blocks)
  /\ \A t \in traces : t.head \in t.blocks /\ t.blocks \subseteq Blocks /\ t.mask \subseteq Units
  /\ block \in Blocks /\ index \in Nat \ {0} /\ mask \subseteq Units /\ foreign \in BOOLEAN

AtInstruction == phase = "run" /\ index <= Len(func.code[block])
AtOrdinary == AtInstruction /\ Current.kind # "gate"
Starved == AtOrdinary /\ ~(Current.units \subseteq mask)

(* At the last instruction of the preheader of an optimized loop: the gate *)
(* goes before it (--preheader->end()), whether it is the branch to the    *)
(* loop or the last of the code that falls through.                        *)
BehindLoopGate ==
  /\ ~NoLoops
  /\ index = Len(func.code[block])
  /\ \E t \in traces : block \in Preheader(func.succ, t.head)

(* No instruction needs a unit that the gates have turned off.  The code   *)
(* does not keep that of every function: see StarvedWhereKnown.            *)
Powered == ~Starved

(* The trace mask covers the whole trace and every way off it is ungated   *)
(* again (optimizeTrace), so that there are just two ways for an           *)
(* instruction to need a unit that is off: it is the last of a gated       *)
(* preheader (X86PowerPass.cpp:101), or another function's mask has been   *)
(* in force since a call or the entry, with no gate of this one executed.  *)
StarvedWhereKnown == Starved => foreign \/ BehindLoopGate

(* X86PowerPass.cpp:111: "Let's change the off-trace to be correct": code  *)
(* on no trace runs with everything on, however it was reached, unless it  *)
(* is the instruction behind a loop's gate or another function's mask is   *)
(* in force.                                                               *)
OffTraceAllOn ==
  (AtOrdinary /\ (\A t \in traces : block \notin t.blocks))
    => mask = AllOn \/ foreign \/ BehindLoopGate

(* On a trace, units are gated by this trace's mask, never by the mask of  *)
(* another trace of the function, or all on after an excursion off the     *)
(* trace, or gated by another function.                                    *)
TraceHoldsMask ==
  \A t \in traces : (AtOrdinary /\ block \in t.blocks) => mask \in {t.mask, AllOn} \/ foreign

(* A loop entered through its preheader starts with the mask of its trace, *)
(* so that the loop as a whole is gated (X86PowerPass.cpp:94-102), unless  *)
(* the instruction behind the gate called a function that gates.           *)
LoopEntryGated ==
  [][ \A t \in traces :
        (phase = "run" /\ ~NoLoops /\ block \notin loops[t.head] /\ block' = t.head)
          => mask' = t.mask \/ foreign ]_vars

(* While the run stays on a loop's trace no gate is executed: the loop     *)
(* never pays for a wake-up or shut-down per iteration, but for what the   *)
(* functions it calls do.                                                  *)
HotTraceUngated ==
  [][ \A t \in traces :
        (phase = "run" /\ ~NoLoops /\ {block, block'} \subseteq t.blocks)
          => mask' = mask \/ (AtInstruction /\ Current.kind = "call") ]_vars
=============================================================================
