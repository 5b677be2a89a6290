------------------------- MODULE DynamicOptimization -------------------------
(***************************************************************************)
(* Dynamic optimization in lli: JITPass puts a trampoline with a countdown *)
(* counter at the entry of every function and at its outer loop headers;   *)
(* the thread that takes a counter to zero calls InsertMessage, which      *)
(* appends the profile to llvmprof.out, enables the power pass, recompiles *)
(* the function and patches the entry of the old copy with a jump to the   *)
(* new one.  Call sites keep the address they were linked to.  The file    *)
(* outlives the process: runs follow each other and may be killed.         *)
(***************************************************************************)
EXTENDS Naturals, Sequences, FiniteSets

CONSTANTS
  Threads,      \* threads of the program
  Main,         \* the one that runs the static constructors
  Runs,         \* per thread: the functions it calls once main runs
  Functions,
  Constructors, \* the static constructors
  Trampolines,
  Owner,        \* per trampoline: the function it is in
  Entry,        \* per function: the trampoline at its entry
  Threshold,    \* executions before a trampoline reports (10)
  CounterMod,   \* 2^32, the values of a counter
  MaxPast,      \* bound, per trampoline: executions after it reported
  MaxDepth,     \* bound, per thread: calls on its stack
  MaxRuns,      \* bound: runs of the program
  MaxLeft,      \* bound: packets that earlier runs left, when one starts
  MaxKills      \* bound: runs that are killed

ASSUME OptimizationAssumption ==
  /\ Main \in Threads
  /\ Runs \in [Threads -> SUBSET Functions]
  /\ Functions # {} /\ Constructors \subseteq Functions
  /\ IsFiniteSet(Trampolines) /\ Owner \in [Trampolines -> Functions]
  /\ Entry \in [Functions -> Trampolines]
  /\ \A f \in Functions : Owner[Entry[f]] = f
  /\ Threshold \in Nat \ {0} /\ CounterMod \in Nat
  /\ MaxPast \in [Trampolines -> Nat]
  /\ \A tr \in Trampolines : Threshold + MaxPast[tr] < CounterMod
  /\ MaxDepth \in [Threads -> Nat] /\ MaxRuns \in Nat \ {0}
  /\ MaxLeft \in Nat /\ MaxKills \in Nat

(* A function that two threads may run: neither its counters nor its        *)
(* mapping nor the patch of its code are protected against both.            *)
Shared(f) == \E t, u \in Threads : t # u /\ f \in Runs[t] \cap Runs[u]

VARIABLES
  phase,   \* what lli is doing, or how the run ended
  copies,  \* per function: its machine code, one entry per compilation
  mapping, \* per function: the copy in the GlobalAddress map (0: none)
  counter, \* per trampoline: <name>_execution_count
  enabled, \* powerPassEnabled
  loaded,  \* Profiles: how much of the file was read for it (0: not yet)
  file,    \* llvmprof.out: its packets of edge counts
  threads, \* what each thread runs
  run,     \* the number of this run
  kills    \* runs killed so far

vars == <<phase, copies, mapping, counter, enabled, loaded, file, threads, run, kills>>

Live  == {"constructing", "compiling", "running"}
Ended == {"exited", "killed", "broken profile", "lazy compilation", "assertion", "astray"}

(* A thread in compiled code; at a trampoline it goes through the steps    *)
(* load, store and, when the counter reached zero, those of InsertMessage. *)
InCode == [frames |-> <<>>, step |-> "code", at |-> CHOOSE tr \in Trampolines : TRUE,
           reg |-> 0, old |-> 0, new |-> 0, dump |-> 0]

Step(t, s) == threads[t].step = s
Target(t)  == Owner[threads[t].at]
Goes(t, s) == threads' = [threads EXCEPT ![t].step = s]
Continues(t) == threads' = [threads EXCEPT ![t] = [InCode EXCEPT !.frames = threads[t].frames]]

(* The memory of a process that has just started, or of one that is gone.   *)
Fresh(c, m, n, e, l, th) ==
  /\ c = [f \in Functions |-> <<>>]
  /\ m = [f \in Functions |-> 0]
  /\ n = [tr \in Trampolines |-> Threshold]
  /\ e = FALSE
  /\ l = 0
  /\ th = [t \in Threads |-> InCode]

Init ==
  /\ phase = "constructing"
  /\ Fresh(copies, mapping, counter, enabled, loaded, threads)
  /\ file = <<>>
  /\ run = 1
  /\ kills = 0

Ends(how) ==
  /\ phase' = how
  /\ Fresh(copies', mapping', counter', enabled', loaded', threads')
  /\ UNCHANGED <<file, run>>

-----------------------------------------------------------------------------
(* Compilation *)

(* What the loader makes of the file: it exits on a packet that is cut off *)
(* at the end of the file, and on one without counts; past a packet that   *)
(* others broke into, or that was cut off in the middle, it reads whatever *)
(* the words it finds mean as packets.                                     *)
ReadResults ==
  LET bad == {d \in 1..Len(file) : file[d].state # "whole"} IN
  IF bad = {} THEN IF \A d \in 1..Len(file) : file[d].counted THEN {"read"} ELSE {"exit"}
  ELSE IF bad = {Len(file)} /\ file[Len(file)].state = "open" THEN {"exit"}
  ELSE {"read", "exit"}

Copy(profile, dump) ==
  [powered |-> enabled, profile |-> profile, dump |-> dump, next |-> 0]

(* runJITOnFunction, under the JIT's lock: the power pass runs only when   *)
(* enabled, and reads the profile the first time it does.                  *)
Compiles(f, dump) ==
  LET read == enabled /\ loaded = 0
      profile == IF read THEN Len(file) ELSE loaded
  IN
  /\ read => "read" \in ReadResults
  /\ copies' = [copies EXCEPT ![f] = Append(@, Copy(profile, dump))]
  /\ mapping' = [mapping EXCEPT ![f] = Len(copies[f]) + 1]
  /\ loaded' = profile

(* lli compiles a static constructor before it runs it and, after the      *)
(* constructors, all other functions.                                      *)
Compile(f) ==
  /\ threads[Main].frames = <<>>
  /\ mapping[f] = 0
  /\ \/ phase = "constructing" /\ f \in Constructors /\ UNCHANGED phase
     \/ phase \in {"constructing", "compiling"} /\ phase' = "compiling"
  /\ Compiles(f, 0)
  /\ UNCHANGED <<counter, enabled, file, threads, run, kills>>

RunMain ==
  /\ phase \in {"constructing", "compiling"}
  /\ threads[Main].frames = <<>>
  /\ \A f \in Functions : mapping[f] # 0
  /\ phase' = "running"
  /\ UNCHANGED <<copies, mapping, counter, enabled, loaded, file, threads, run, kills>>

-----------------------------------------------------------------------------
(* The program *)

(* Where control gets from copy n of f through the jumps at the entries.   *)
Newest(f, n) ==
  LET end[m \in 1..Len(copies[f])] ==
        IF copies[f][m].next = 0 THEN m ELSE end[copies[f][m].next]
  IN end[n]

Top(t) == threads[t].frames[Len(threads[t].frames)]

MayCall(t, f) ==
  /\ Step(t, "code")
  /\ Len(threads[t].frames) < MaxDepth[t]
  /\ \/ phase = "running" /\ f \in Runs[t]
     \/ phase = "constructing" /\ t = Main /\ (threads[t].frames = <<>> => f \in Constructors)

(* The bound on executions: counter[tr] has not gone further past zero.     *)
Within(tr) == (Threshold + CounterMod - counter[tr]) % CounterMod < Threshold + MaxPast[tr]

(* A call of f, through any copy; every copy has the trampolines of f, and *)
(* a frame stays in its copy.                                              *)
Call(t, f) ==
  /\ MayCall(t, f)
  /\ copies[f] # <<>>
  /\ Within(Entry[f])
  /\ threads' = [threads EXCEPT ![t].frames = Append(@, f), ![t].at = Entry[f], ![t].step = "load"]
  /\ UNCHANGED <<phase, copies, mapping, counter, enabled, loaded, file, run, kills>>

(* A first call while f is not compiled comes back to the JIT, which       *)
(* refuses to compile lazily and aborts.                                   *)
CallUncompiled(t, f) ==
  /\ MayCall(t, f)
  /\ threads[t].frames # <<>>
  /\ mapping[f] = 0
  /\ Ends("lazy compilation")
  /\ UNCHANGED kills

EnterLoop(t, tr) ==
  /\ phase \in Live
  /\ Step(t, "code")
  /\ threads[t].frames # <<>> /\ Top(t) = Owner[tr] /\ tr # Entry[Owner[tr]]
  /\ Within(tr)
  /\ threads' = [threads EXCEPT ![t].at = tr, ![t].step = "load"]
  /\ UNCHANGED <<phase, copies, mapping, counter, enabled, loaded, file, run, kills>>

Return(t) ==
  /\ phase \in Live
  /\ Step(t, "code")
  /\ threads[t].frames # <<>>
  /\ threads' = [threads EXCEPT ![t].frames = SubSeq(@, 1, Len(@) - 1)]
  /\ UNCHANGED <<phase, copies, mapping, counter, enabled, loaded, file, run, kills>>

Load(t) ==
  /\ phase \in Live
  /\ Step(t, "load")
  /\ threads' = [threads EXCEPT ![t].reg = counter[threads[t].at], ![t].step = "store"]
  /\ UNCHANGED <<phase, copies, mapping, counter, enabled, loaded, file, run, kills>>

(* Mutants: the counter is signed; it reports below zero as well.          *)
StoreSigned(t) ==
  LET result == threads[t].reg - 1 IN
  /\ phase \in Live
  /\ Step(t, "store")
  /\ counter' = [counter EXCEPT ![threads[t].at] = result]
  /\ IF result = 0
     THEN threads' = [threads EXCEPT ![t].step = "message", ![t].reg = 0]
     ELSE Continues(t)
  /\ UNCHANGED <<phase, copies, mapping, enabled, loaded, file, run, kills>>

StoreBelow(t) ==
  LET result == (threads[t].reg + CounterMod - 1) % CounterMod IN
  /\ phase \in Live
  /\ Step(t, "store")
  /\ counter' = [counter EXCEPT ![threads[t].at] = result]
  /\ IF result = 0 \/ result > Threshold
     THEN threads' = [threads EXCEPT ![t].step = "message", ![t].reg = 0]
     ELSE Continues(t)
  /\ UNCHANGED <<phase, copies, mapping, enabled, loaded, file, run, kills>>

Store(t) ==
  LET result == (threads[t].reg + CounterMod - 1) % CounterMod IN
  /\ phase \in Live
  /\ Step(t, "store")
  /\ counter' = [counter EXCEPT ![threads[t].at] = result]
  /\ IF result = 0
     THEN threads' = [threads EXCEPT ![t].step = "message", ![t].reg = 0]
     ELSE Continues(t)
  /\ UNCHANGED <<phase, copies, mapping, enabled, loaded, file, run, kills>>

-----------------------------------------------------------------------------
(* InsertMessage *)

(* EdgeProfAtExitHandler writes a packet in several calls of write: two    *)
(* packets written at a time break each other.  Before main has announced  *)
(* its counters a packet has none.                                         *)
BeginDump(t) ==
  LET others == \E u \in Threads : Step(u, "dumping")
      before == [d \in 1..Len(file) |->
                   IF file[d].run = run /\ file[d].state = "open"
                   THEN [file[d] EXCEPT !.state = "broken"] ELSE file[d]]
  IN
  /\ phase \in Live
  /\ Step(t, "message")
  /\ file' = Append(before, [run |-> run, counted |-> phase = "running",
                             state |-> IF others THEN "broken" ELSE "open"])
  /\ threads' = [threads EXCEPT ![t].dump = Len(file) + 1, ![t].step = "dumping"]
  /\ UNCHANGED <<phase, copies, mapping, counter, enabled, loaded, run, kills>>

(* recompileAndRelinkFunction reads the mapping: without one it turns to   *)
(* getPointerToFunction.                                                   *)
Looks(t) ==
  threads' = [threads EXCEPT ![t].old = mapping[Target(t)],
                             ![t].step = IF mapping[Target(t)] = 0 THEN "fetch" ELSE "unmap"]

(* Mutant: the power pass is enabled once a profile is loaded.             *)
EndDumpEnablesLate(t) ==
  /\ phase \in Live
  /\ Step(t, "dumping")
  /\ file' = [file EXCEPT ![threads[t].dump].state = IF @ = "open" THEN "whole" ELSE @]
  /\ enabled' = (loaded # 0)
  /\ Looks(t)
  /\ UNCHANGED <<phase, copies, mapping, counter, loaded, run, kills>>

EndDump(t) ==
  /\ phase \in Live
  /\ Step(t, "dumping")
  /\ file' = [file EXCEPT ![threads[t].dump].state = IF @ = "open" THEN "whole" ELSE @]
  /\ enabled' = TRUE
  /\ Looks(t)
  /\ UNCHANGED <<phase, copies, mapping, counter, loaded, run, kills>>

(* getPointerToFunction looks once more before it takes the JIT's lock, and *)
(* not again under it.                                                      *)
Fetch(t) ==
  /\ phase \in Live
  /\ Step(t, "fetch")
  /\ IF mapping[Target(t)] # 0 THEN Continues(t) ELSE Goes(t, "compile")
  /\ UNCHANGED <<phase, copies, mapping, counter, enabled, loaded, file, run, kills>>

(* The mapping is dropped and the function compiled again; the copy that    *)
(* was mapped is then patched to jump to the one that is mapped by now.     *)
Unmap(t) ==
  /\ phase \in Live
  /\ Step(t, "unmap")
  /\ mapping' = [mapping EXCEPT ![Target(t)] = 0]
  /\ Goes(t, "compile")
  /\ UNCHANGED <<phase, copies, counter, enabled, loaded, file, run, kills>>

(* Mutant: a thread waits until no other one reports.                      *)
RecompileAlone(t) ==
  /\ phase \in Live
  /\ Step(t, "compile")
  /\ \A u \in Threads \ {t} : threads[u].step \in {"code", "load", "store"}
  /\ Compiles(Target(t), threads[t].dump)
  /\ IF threads[t].old = 0 THEN Continues(t) ELSE Goes(t, "link")
  /\ UNCHANGED <<phase, counter, enabled, file, run, kills>>

Recompile(t) ==
  /\ phase \in Live
  /\ Step(t, "compile")
  /\ Compiles(Target(t), threads[t].dump)
  /\ IF threads[t].old = 0 THEN Continues(t) ELSE Goes(t, "link")
  /\ UNCHANGED <<phase, counter, enabled, file, run, kills>>

(* The loader ends the program when it cannot read the file.               *)
FailToRead(t) ==
  /\ phase \in Live
  /\ Step(t, "compile")
  /\ loaded = 0 /\ "exit" \in ReadResults
  /\ Ends("broken profile")
  /\ UNCHANGED kills

(* The mapping is read without a lock: another thread may have dropped it   *)
(* again, which the code asserts does not happen.                           *)
Link(t) ==
  /\ phase \in Live
  /\ Step(t, "link")
  /\ mapping[Target(t)] # 0
  /\ threads' = [threads EXCEPT ![t].new = mapping[Target(t)], ![t].step = "patch"]
  /\ UNCHANGED <<phase, copies, mapping, counter, enabled, loaded, file, run, kills>>

LinkFails(t) ==
  /\ phase \in Live
  /\ Step(t, "link")
  /\ mapping[Target(t)] = 0
  /\ Ends("assertion")
  /\ UNCHANGED kills

(* Mutant: the first copy is patched, not the last one.                    *)
PatchFirst(t) ==
  /\ phase \in Live
  /\ Step(t, "patch")
  /\ copies' = [copies EXCEPT ![Target(t)][1].next = threads[t].new]
  /\ Continues(t)
  /\ UNCHANGED <<phase, mapping, counter, enabled, loaded, file, run, kills>>

Patch(t) ==
  /\ phase \in Live
  /\ Step(t, "patch")
  /\ copies' = [copies EXCEPT ![Target(t)][threads[t].old].next = threads[t].new]
  /\ Continues(t)
  /\ UNCHANGED <<phase, mapping, counter, enabled, loaded, file, run, kills>>

(* The patch is two writes, of the opcode and of the displacement: a thread *)
(* that enters the function between them jumps anywhere.                    *)
Astray(t, u) ==
  /\ phase \in Live
  /\ Step(t, "load") /\ threads[t].at = Entry[Target(t)]
  /\ Step(u, "patch") /\ Target(u) = Target(t)
  /\ Ends("astray")
  /\ UNCHANGED kills

-----------------------------------------------------------------------------
(* Runs *)

Exit ==
  /\ phase = "running"
  /\ Step(Main, "code")
  /\ Ends("exited")
  /\ UNCHANGED kills

Kill ==
  /\ phase \in Live
  /\ kills < MaxKills
  /\ Ends("killed")
  /\ kills' = kills + 1

(* Mutant: lli loads the profile that exists when it starts.               *)
RestartWithProfile ==
  /\ phase \in Ended
  /\ run < MaxRuns /\ Len(file) <= MaxLeft
  /\ run' = run + 1
  /\ phase' = "constructing"
  /\ loaded' = Len(file)
  /\ UNCHANGED <<copies, mapping, counter, enabled, file, threads, kills>>

(* The next run starts from nothing but the file.                          *)
Restart ==
  /\ phase \in Ended
  /\ run < MaxRuns /\ Len(file) <= MaxLeft
  /\ run' = run + 1
  /\ phase' = "constructing"
  /\ UNCHANGED <<copies, mapping, counter, enabled, loaded, file, threads, kills>>

Trampoline(t) ==
  \/ Load(t) \/ Store(t)
  \/ BeginDump(t) \/ EndDump(t)
  \/ Fetch(t) \/ Unmap(t) \/ Recompile(t) \/ FailToRead(t)
  \/ Link(t) \/ LinkFails(t) \/ Patch(t)

Next ==
  \/ \E f \in Functions : Compile(f)
  \/ RunMain
  \/ \E t \in Threads :
       \/ \E f \in Functions : Call(t, f) \/ CallUncompiled(t, f)
       \/ \E tr \in Trampolines : EnterLoop(t, tr)
       \/ Return(t)
       \/ Trampoline(t)
       \/ \E u \in Threads : Astray(t, u)
  \/ Exit \/ Kill \/ Restart

Spec == Init /\ [][Next]_vars

(* A thread in a trampoline is neither blocked nor waiting for the program. *)
FairSpec == Spec /\ \A t \in Threads : WF_vars(Trampoline(t))

-----------------------------------------------------------------------------
(* Properties *)

Steps    == {"code", "load", "store", "message", "dumping", "fetch", "unmap", "compile",
             "link", "patch"}
Contexts == [frames : Seq(Functions), step : Steps, at : Trampolines,
             reg : 0..CounterMod - 1, old : Nat, new : Nat, dump : Nat]
Copies   == [powered : BOOLEAN, profile : Nat, dump : Nat, next : Nat]
Packets  == [run : Nat, counted : BOOLEAN, state : {"open", "whole", "broken"}]

(* A mapped function, and one on a stack, has been compiled; a profile is  *)
(* a part of the file.                                                     *)
TypeOK ==
  /\ phase \in Live \cup Ended
  /\ copies \in [Functions -> Seq(Copies)]
  /\ mapping \in [Functions -> Nat] /\ \A f \in Functions : mapping[f] <= Len(copies[f])
  /\ counter \in [Trampolines -> 0..CounterMod - 1]
  /\ enabled \in BOOLEAN
  /\ file \in Seq(Packets)
  /\ loaded \in 0..Len(file)
  /\ threads \in [Threads -> Contexts]
  /\ \A t \in Threads : \A i \in 1..Len(threads[t].frames) : copies[threads[t].frames[i]] # <<>>
  /\ run \in 1..MaxRuns
  /\ kills \in 0..MaxKills

Reported(tr) == counter[tr] = 0 \/ counter[tr] > Threshold

Reporting(t, tr) == threads[t].step \notin {"code", "load", "store"} /\ threads[t].at = tr

(* Unless a thread is between dropping a function's mapping and patching   *)
(* the old copy, the jumps at the entries of the old copies lead on, from  *)
(* older to newer, to the copy that is mapped, which has no jump: a call   *)
(* site linked long ago never runs, or loops among, outdated copies.  Two  *)
(* threads that relink a shared function may leave a copy without a jump,  *)
(* but one that went through the power pass.                               *)
CopiesForward ==
  \A f \in Functions :
    (\A t \in Threads : ~(threads[t].step \in {"compile", "link", "patch"} /\ Target(t) = f)) =>
      \A n \in 1..Len(copies[f]) :
        IF n = mapping[f] THEN copies[f][n].next = 0
        ELSE \/ copies[f][n].next \in n + 1..mapping[f]
             \/ Shared(f) /\ copies[f][n].next = 0 /\ copies[f][n].powered

(* A trampoline reports once: a function that one thread runs has one copy *)
(* for its first compilation and one for every trampoline that reported,   *)
(* and none for its recursion, its other calls or another function's heat, *)
(* however other threads report the functions they share.                  *)
OneCopyPerReport ==
  \A f \in Functions : copies[f] # <<>> /\ ~Shared(f) =>
    Len(copies[f]) = 1 + Cardinality({tr \in Trampolines :
      /\ Owner[tr] = f /\ Reported(tr)
      /\ \A t \in Threads : ~(Reporting(t, tr) /\ threads[t].step \notin {"link", "patch"})})

(* Thread t has dropped the mapping of f, or found it dropped, and has yet *)
(* to patch a copy that did not go through the pass.                       *)
PatchesCold(t, f) ==
  /\ threads[t].step \in {"compile", "link", "patch"} /\ Target(t) = f
  /\ threads[t].old # 0 /\ ~copies[f][threads[t].old].powered

(* Once InsertMessage has returned, every call of the hot function, from   *)
(* whichever site, ends in a copy that went through the power pass, unless *)
(* another thread that shares it is still about to patch the cold copy.    *)
CallsRunPowered ==
  \A tr \in Trampolines : LET f == Owner[tr] IN
    /\ Reported(tr) /\ \A t \in Threads : ~Reporting(t, tr)
    /\ Shared(f) => \A t \in Threads : ~PatchesCold(t, f)
    => \A n \in 1..Len(copies[f]) : copies[f][Newest(f, n)].powered

(* Code that went through the power pass was laid out by a profile that    *)
(* holds a packet of this run: never only by what earlier runs left in the *)
(* file, and never by no profile.                                          *)
ProfileOfThisRun ==
  \A f \in Functions : \A n \in 1..Len(copies[f]) :
    copies[f][n].powered => \E d \in 1..copies[f][n].profile : file[d].run = run

(* "we need to dump the profile data so that it can be used by the         *)
(* optimizer" (JITPass.cpp): the copy compiled for a report was laid out   *)
(* by a profile that includes the packet of that report.                   *)
ProfileIsCurrent ==
  \A f \in Functions : \A n \in 1..Len(copies[f]) :
    copies[f][n].powered => copies[f][n].dump <= copies[f][n].profile

(* A report ends in powered code for the function, whatever other threads  *)
(* report meanwhile, unless the run ends.                                  *)
HotGetsPowered ==
  \A tr \in Trampolines :
    (\E t \in Threads : Reporting(t, tr)) ~>
      \/ phase \in Ended
      \/ mapping[Owner[tr]] # 0 /\ copies[Owner[tr]][mapping[Owner[tr]]].powered
==============================================================================
