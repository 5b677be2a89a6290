---------------------- MODULE DynamicOptimization_proofs ----------------------
(***************************************************************************)
(* The jumps of the copies of every function lead forward, and optimized   *)
(* code is laid out by a profile of its run; a report makes one copy, and  *)
(* once it is over every call of its function runs powered: for any        *)
(* threads, any trampolines and any runs.  Threads may share functions;    *)
(* where that weakens what holds, the property says so (Shared).           *)
(***************************************************************************)
EXTENDS DynamicOptimization, TLAPS, SequenceTheorems, FiniteSetTheorems,
        NaturalsInduction, WellFoundedInduction

(* A thread at a trampoline is in the function that is on top of its stack. *)
Working ==
  \A t \in Threads :
    threads[t].step # "code" => threads[t].frames # <<>> /\ Target(t) = Top(t)

(* Before main only the main thread runs; then each runs functions of its own. *)
Apart ==
  /\ phase # "running" => \A t \in Threads \ {Main} : threads[t].frames = <<>>
  /\ phase \notin {"constructing", "running"} => threads[Main].frames = <<>>
  /\ phase = "running" =>
       \A t \in Threads : \A i \in 1..Len(threads[t].frames) : threads[t].frames[i] \in Runs[t]

(* The first len copies of f: each jumps to a newer one, the last does not. *)
Chain(f, len) ==
  \A n \in 1..len : IF n = len THEN copies[f][n].next = 0 ELSE copies[f][n].next \in n + 1..len

Whole(f) == mapping[f] = Len(copies[f]) /\ Chain(f, Len(copies[f]))

Relinks(t) == threads[t].step \in {"compile", "link", "patch"}

(* What a thread that relinks a function of its own has done so far. *)
Unlinked(t) ==
  LET f == Target(t) len == Len(copies[Target(t)]) IN
  /\ threads[t].step # "fetch"
  /\ threads[t].step = "unmap" => threads[t].old = len
  /\ threads[t].step = "compile" => mapping[f] = 0 /\ threads[t].old = len /\ Chain(f, len)
  /\ threads[t].step \in {"link", "patch"} =>
       /\ mapping[f] = len /\ threads[t].old = len - 1 /\ Chain(f, len - 1)
       /\ copies[f][len].next = 0
  /\ threads[t].step = "patch" => threads[t].new = len

(* Functions that one thread runs. *)
Linked ==
  /\ \A f \in Functions :
       ~Shared(f) /\ (\A t \in Threads : ~(Relinks(t) /\ Target(t) = f)) => Whole(f)
  /\ \A t \in Threads : ~Shared(Target(t)) => Unlinked(t)

(* Shared or not: jumps lead forward, the last copy is mapped unless it is  *)
(* about to be replaced, and a thread patches a copy older than the target. *)
Placed(t) ==
  LET f == Target(t) len == Len(copies[Target(t)]) IN
  /\ threads[t].step = "unmap" => threads[t].old \in 1..len
  /\ threads[t].step \in {"fetch", "compile"} => threads[t].old \in 0..len /\ mapping[f] # 1
  /\ threads[t].step \in {"link", "patch"} => threads[t].old \in 1..len - 1
  /\ threads[t].step = "patch" => threads[t].new \in threads[t].old + 1..len

Forward(f) ==
  /\ \A n \in 1..Len(copies[f]) :
       copies[f][n].next = 0 \/ copies[f][n].next \in n + 1..Len(copies[f])
  /\ \/ mapping[f] = Len(copies[f])
     \/ mapping[f] = 0 /\ \E t \in Threads : threads[t].step = "compile" /\ Target(t) = f

Jumps == (\A f \in Functions : Forward(f)) /\ (\A t \in Threads : Placed(t))

(* The power pass is on once a thread has dumped its profile, so every copy *)
(* after the first went through it; a first copy that did not is mapped, or *)
(* jumps on, or is about to.                                                *)
Enabling ==
  \A t \in Threads : threads[t].step \in {"fetch", "unmap", "compile", "link", "patch"} => enabled

Powered(f) ==
  /\ \A n \in 1..Len(copies[f]) : n # 1 => copies[f][n].powered
  /\ Len(copies[f]) > 0 /\ ~copies[f][1].powered =>
       \/ mapping[f] = 1 \/ copies[f][1].next # 0
       \/ \E t \in Threads : Relinks(t) /\ Target(t) = f /\ threads[t].old = 1

(* A trampoline that has reported, or does when a thread has stored what it *)
(* read, and the function that it makes hot.                                *)
Heated(tr) ==
  \/ Reported(tr)
  \/ \E t \in Threads : /\ Step(t, "store") /\ threads[t].at = tr
                        /\ threads[t].reg = 0 \/ threads[t].reg > Threshold

Hot(f) ==
  \/ Len(copies[f]) > 0 /\ copies[f][1].powered
  \/ Len(copies[f]) > 1 /\ (Shared(f) \/ copies[f][1].next # 0)

Heat == \A tr \in Trampolines : Heated(tr) => Hot(Owner[tr]) \/ \E t \in Threads : Reporting(t, tr)

Warm == Enabling /\ (\A f \in Functions : Powered(f)) /\ Heat

(* The first k packets of the file include one of this run. *)
HasPacket(k) == \E d \in 1..k : file[d].run = run

(* What the copies of a function were laid out by. *)
LaidOut(f) ==
  \A n \in 1..Len(copies[f]) :
    copies[f][n].powered => copies[f][n].profile <= Len(file) /\ HasPacket(copies[f][n].profile)

(* The packet that a thread is writing. *)
HasDump(t) ==
  threads[t].step = "dumping" =>
    threads[t].dump \in 1..Len(file) /\ file[threads[t].dump].run = run

Profiled ==
  /\ loaded # 0 => HasPacket(loaded)
  /\ enabled => HasPacket(Len(file))
  /\ \A t \in Threads : HasDump(t)
  /\ \A f \in Functions : LaidOut(f)

Gone == phase \in Ended => Fresh(copies, mapping, counter, enabled, loaded, threads)

IInv == TypeOK /\ Working /\ Apart /\ Gone /\ Linked /\ Jumps /\ Warm /\ Profiled

(***************************************************************************)
(* Types                                                                   *)
(***************************************************************************)

LEMMA Prefix ==
  ASSUME NEW S, NEW s \in Seq(S), NEW m \in Nat, m <= Len(s)
  PROVE  /\ SubSeq(s, 1, m) \in Seq(S)
         /\ Len(SubSeq(s, 1, m)) = m
         /\ \A i \in 1..m : SubSeq(s, 1, m)[i] = s[i]
<1>1. (\A i \in 1..m : s[i] \in S) /\ 1 \in Int /\ m \in Int
  BY ElementOfSeq
<1>2. /\ SubSeq(s, 1, m) \in Seq(S)
      /\ Len(SubSeq(s, 1, m)) = IF 1 <= m THEN m - 1 + 1 ELSE 0
      /\ \A i \in 1..m - 1 + 1 : SubSeq(s, 1, m)[i] = s[1 + i - 1]
  BY <1>1, SubSeqProperties
<1>3. Len(SubSeq(s, 1, m)) = m
  <2> DEFINE sub == SubSeq(s, 1, m)
  <2> HIDE DEF sub
  <2>1. Len(sub) = IF 1 <= m THEN m - 1 + 1 ELSE 0
    BY <1>2 DEF sub
  <2> QED
    BY <2>1 DEF sub
<1>4. \A i \in 1..m : 1 + i - 1 = i /\ i \in 1..m - 1 + 1
  OBVIOUS
<1> QED
  BY <1>2, <1>3, <1>4, Zenon

LEMMA StackShrinks ==
  ASSUME NEW S, NEW s \in Seq(S), s # <<>>
  PROVE  /\ SubSeq(s, 1, Len(s) - 1) \in Seq(S)
         /\ Len(SubSeq(s, 1, Len(s) - 1)) = Len(s) - 1
         /\ \A i \in 1..Len(s) - 1 : SubSeq(s, 1, Len(s) - 1)[i] = s[i]
<1>1. Len(s) - 1 \in Nat /\ Len(s) - 1 <= Len(s)
  BY EmptySeq
<1> QED
  BY <1>1, Prefix, Zenon

LEMMA FreshTyped ==
  /\ InCode \in Contexts
  /\ \A c, m, n, e, l, th : Fresh(c, m, n, e, l, th) =>
       /\ c \in [Functions -> Seq(Copies)] /\ m \in [Functions -> Nat]
       /\ \A f \in Functions : m[f] <= Len(c[f])
       /\ n \in [Trampolines -> 0..CounterMod - 1]
       /\ e \in BOOLEAN /\ l = 0
       /\ th \in [Threads -> Contexts]
       /\ \A t \in Threads : Len(th[t].frames) = 0
<1>1. \E tr : tr \in Trampolines
  BY OptimizationAssumption
<1>2. InCode \in Contexts
  BY <1>1, OptimizationAssumption DEF InCode, Contexts, Steps
<1>3. Threshold \in 0..CounterMod - 1
  BY OptimizationAssumption
<1>4. InCode.frames = <<>>
  BY DEF InCode
<1>5. SUFFICES ASSUME NEW c, NEW m, NEW n, NEW e, NEW l, NEW th, Fresh(c, m, n, e, l, th)
              PROVE  /\ c \in [Functions -> Seq(Copies)] /\ m \in [Functions -> Nat]
                     /\ \A f \in Functions : m[f] <= Len(c[f])
                     /\ n \in [Trampolines -> 0..CounterMod - 1]
                     /\ e \in BOOLEAN /\ l = 0
                     /\ th \in [Threads -> Contexts]
                     /\ \A t \in Threads : Len(th[t].frames) = 0
  BY <1>2, Zenon
<1>6. c \in [Functions -> Seq(Copies)]
  BY <1>5 DEF Fresh
<1>7. m \in [Functions -> Nat] /\ e \in BOOLEAN /\ l = 0
  BY <1>5 DEF Fresh
<1>8. n \in [Trampolines -> 0..CounterMod - 1]
  BY <1>3, <1>5 DEF Fresh
<1>9. \A f \in Functions : c[f] = <<>> /\ m[f] = 0
  BY <1>5 DEF Fresh
<1>10. \A f \in Functions : m[f] <= Len(c[f])
  BY <1>9
<1>11. th \in [Threads -> Contexts] /\ \A t \in Threads : th[t].frames = <<>>
  BY <1>2, <1>4, <1>5, Zenon DEF Fresh
<1>12. \A t \in Threads : Len(th[t].frames) = 0
  BY <1>11
<1> QED
  BY <1>6, <1>7, <1>8, <1>10, <1>11, <1>12

(* A step of thread t: its new context, and what it leaves alone. *)
LEMMA ContextStepTyped ==
  ASSUME TypeOK, NEW t \in Threads, NEW c \in Contexts,
         threads' = [threads EXCEPT ![t] = c],
         \A i \in 1..Len(c.frames) : copies[c.frames[i]] # <<>>,
         UNCHANGED <<phase, copies, mapping, counter, enabled, loaded, file, run, kills>>
  PROVE  TypeOK'
<1>1. threads' \in [Threads -> Contexts]
  BY DEF TypeOK
<1>2. \A u \in Threads : threads'[u] = IF u = t THEN c ELSE threads[u]
  BY DEF TypeOK
<1>3. \A u \in Threads : \A i \in 1..Len(threads'[u].frames) : copies[threads'[u].frames[i]] # <<>>
  BY <1>2 DEF TypeOK
<1> QED
  BY <1>1, <1>3 DEF TypeOK

LEMMA CallTyped ==
  ASSUME TypeOK, NEW t \in Threads, NEW f \in Functions, Call(t, f)
  PROVE  TypeOK'
<1> DEFINE old == threads[t]
           c == [old EXCEPT !.frames = Append(@, f), !.at = Entry[f], !.step = "load"]
<1>1. old \in Contexts /\ old.frames \in Seq(Functions)
  BY DEF TypeOK, Contexts
<1>2. Append(old.frames, f) \in Seq(Functions)
  BY <1>1
<1>3. c \in Contexts /\ c.frames = Append(old.frames, f)
  BY <1>1, <1>2, OptimizationAssumption DEF Contexts, Steps
<1>4. threads' = [threads EXCEPT ![t] = c]
  BY <1>1 DEF Call, TypeOK, Contexts
<1>5. \A i \in 1..Len(c.frames) : copies[c.frames[i]] # <<>>
  <2> SUFFICES ASSUME NEW i \in 1..Len(c.frames) PROVE copies[c.frames[i]] # <<>>
    OBVIOUS
  <2>1. CASE i \in 1..Len(old.frames)
    <3>1. c.frames[i] = old.frames[i]
      BY <1>1, <1>3, <2>1, AppendProperties
    <3> QED
      BY <2>1, <3>1 DEF TypeOK
  <2>2. CASE i \notin 1..Len(old.frames)
    <3>1. i = Len(old.frames) + 1
      BY <1>1, <1>3, <2>2, AppendProperties
    <3>2. c.frames[i] = f
      BY <1>1, <1>3, <3>1, AppendProperties
    <3> QED
      BY <3>2 DEF Call
  <2> QED
    BY <2>1, <2>2
<1>6. UNCHANGED <<phase, copies, mapping, counter, enabled, loaded, file, run, kills>>
  BY DEF Call
<1> HIDE DEF c, old
<1> QED
  BY <1>3, <1>4, <1>5, <1>6, ContextStepTyped

LEMMA LoopTyped ==
  ASSUME TypeOK, NEW t \in Threads, NEW tr \in Trampolines, EnterLoop(t, tr)
  PROVE  TypeOK'
<1> DEFINE c == [threads[t] EXCEPT !.at = tr, !.step = "load"]
<1>1. threads[t] \in Contexts
  BY DEF TypeOK
<1>2. c \in Contexts /\ c.frames = threads[t].frames
  BY <1>1 DEF Contexts, Steps
<1>3. threads' = [threads EXCEPT ![t] = c]
  BY <1>1 DEF EnterLoop, TypeOK, Contexts
<1>4. \A i \in 1..Len(c.frames) : copies[c.frames[i]] # <<>>
  BY <1>2 DEF TypeOK
<1>5. UNCHANGED <<phase, copies, mapping, counter, enabled, loaded, file, run, kills>>
  BY DEF EnterLoop
<1> HIDE DEF c
<1> QED
  BY <1>2, <1>3, <1>4, <1>5, ContextStepTyped

LEMMA ReturnTyped ==
  ASSUME TypeOK, NEW t \in Threads, Return(t)
  PROVE  TypeOK'
<1> DEFINE old == threads[t].frames
           c == [threads[t] EXCEPT !.frames = SubSeq(@, 1, Len(@) - 1)]
<1>1. threads[t] \in Contexts /\ old \in Seq(Functions)
  BY DEF TypeOK, Contexts
<1>2. /\ SubSeq(old, 1, Len(old) - 1) \in Seq(Functions)
      /\ Len(SubSeq(old, 1, Len(old) - 1)) = Len(old) - 1
      /\ \A i \in 1..Len(old) - 1 : SubSeq(old, 1, Len(old) - 1)[i] = old[i]
  <2>1. old # <<>>
    BY DEF Return
  <2> QED
    BY <1>1, <2>1, StackShrinks, Zenon
<1>3. c.frames = SubSeq(old, 1, Len(old) - 1)
  BY <1>1 DEF Contexts
<1>4. c \in Contexts
  BY <1>1, <1>2 DEF Contexts
<1>5. threads' = [threads EXCEPT ![t] = c]
  BY <1>1 DEF Return, TypeOK, Contexts
<1>6. \A i \in 1..Len(c.frames) : c.frames[i] = old[i] /\ i \in 1..Len(old)
  BY <1>1, <1>2, <1>3
<1>7. \A i \in 1..Len(c.frames) : copies[c.frames[i]] # <<>>
  BY <1>6 DEF TypeOK
<1>8. UNCHANGED <<phase, copies, mapping, counter, enabled, loaded, file, run, kills>>
  BY DEF Return
<1> HIDE DEF c, old
<1> QED
  BY <1>4, <1>5, <1>7, <1>8, ContextStepTyped

LEMMA LoadTyped ==
  ASSUME TypeOK, NEW t \in Threads, Load(t)
  PROVE  TypeOK'
<1> DEFINE c == [threads[t] EXCEPT !.reg = counter[threads[t].at], !.step = "store"]
<1>1. threads[t] \in Contexts /\ counter[threads[t].at] \in 0..CounterMod - 1
  BY DEF TypeOK, Contexts
<1>2. c \in Contexts /\ c.frames = threads[t].frames
  BY <1>1 DEF Contexts, Steps
<1>3. threads' = [threads EXCEPT ![t] = c]
  BY <1>1 DEF Load, TypeOK, Contexts
<1>4. \A i \in 1..Len(c.frames) : copies[c.frames[i]] # <<>>
  BY <1>2 DEF TypeOK
<1>5. UNCHANGED <<phase, copies, mapping, counter, enabled, loaded, file, run, kills>>
  BY DEF Load
<1> HIDE DEF c
<1> QED
  BY <1>2, <1>3, <1>4, <1>5, ContextStepTyped

(* A run ends: its memory is gone, the file stays. *)
LEMMA EndTyped ==
  ASSUME TypeOK, NEW how \in Ended, Ends(how), kills' \in 0..MaxKills
  PROVE  TypeOK'
<1>1. Fresh(copies', mapping', counter', enabled', loaded', threads')
  BY DEF Ends
<1>2. /\ copies' \in [Functions -> Seq(Copies)] /\ mapping' \in [Functions -> Nat]
      /\ \A f \in Functions : mapping'[f] <= Len(copies'[f])
      /\ counter' \in [Trampolines -> 0..CounterMod - 1]
      /\ enabled' \in BOOLEAN /\ loaded' = 0
      /\ threads' \in [Threads -> Contexts]
      /\ \A t \in Threads : Len(threads'[t].frames) = 0
  BY <1>1, FreshTyped, Zenon
<1>3. phase' \in Live \cup Ended /\ file' \in Seq(Packets) /\ run' \in 1..MaxRuns
  BY DEF Ends, TypeOK
<1>4. loaded' \in 0..Len(file')
  BY <1>2, <1>3
<1>5. \A t \in Threads : \A i \in 1..Len(threads'[t].frames) : copies'[threads'[t].frames[i]] # <<>>
  BY <1>2
<1> QED
  BY <1>2, <1>3, <1>4, <1>5 DEF TypeOK

(* The copies of a function grow by one. *)
LEMMA CompileGrows ==
  ASSUME TypeOK, NEW f \in Functions, NEW dump \in Nat, Compiles(f, dump)
  PROVE  /\ copies' \in [Functions -> Seq(Copies)]
         /\ mapping' \in [Functions -> Nat]
         /\ loaded' \in 0..Len(file)
         /\ Len(copies'[f]) = Len(copies[f]) + 1
         /\ \A n \in 1..Len(copies[f]) : copies'[f][n] = copies[f][n]
         /\ copies'[f][Len(copies'[f])] = Copy(loaded', dump)
         /\ \A g \in Functions : g # f => copies'[g] = copies[g]
         /\ mapping' = [mapping EXCEPT ![f] = Len(copies[f]) + 1]
<1>1. loaded' \in 0..Len(file) /\ loaded' \in Nat
  BY DEF Compiles, TypeOK
<1>2. Copy(loaded', dump) \in Copies
  BY <1>1 DEF Copy, Copies, TypeOK
<1>3. copies[f] \in Seq(Copies)
  BY DEF TypeOK
<1> DEFINE new == Append(copies[f], Copy(loaded', dump))
<1>4. /\ new \in Seq(Copies) /\ Len(new) = Len(copies[f]) + 1
      /\ \A n \in 1..Len(copies[f]) : new[n] = copies[f][n]
      /\ new[Len(copies[f]) + 1] = Copy(loaded', dump)
  BY <1>2, <1>3, AppendProperties
<1>5. copies' = [copies EXCEPT ![f] = new]
  BY DEF Compiles
<1>6. mapping' = [mapping EXCEPT ![f] = Len(copies[f]) + 1]
  BY DEF Compiles
<1> HIDE DEF new
<1>7. copies'[f] = new /\ \A g \in Functions : g # f => copies'[g] = copies[g]
  BY <1>5 DEF TypeOK
<1>8. copies' \in [Functions -> Seq(Copies)]
  BY <1>4, <1>5 DEF TypeOK
<1>9. mapping' \in [Functions -> Nat]
  BY <1>3, <1>6 DEF TypeOK
<1> QED
  BY <1>1, <1>4, <1>6, <1>7, <1>8, <1>9

LEMMA CompileTyped ==
  ASSUME TypeOK, NEW f \in Functions, NEW dump \in Nat, Compiles(f, dump),
         phase' \in Live \cup Ended,
         threads' \in [Threads -> Contexts],
         \A t \in Threads : threads'[t].frames = threads[t].frames,
         UNCHANGED <<counter, enabled, file, run, kills>>
  PROVE  TypeOK'
<1>1. /\ copies' \in [Functions -> Seq(Copies)]
      /\ mapping' \in [Functions -> Nat]
      /\ loaded' \in 0..Len(file)
      /\ Len(copies'[f]) = Len(copies[f]) + 1
      /\ \A g \in Functions : g # f => copies'[g] = copies[g]
      /\ mapping' = [mapping EXCEPT ![f] = Len(copies[f]) + 1]
  BY CompileGrows
<1>2. copies'[f] # <<>>
  <2>1. Len(copies[f]) \in Nat
    BY DEF TypeOK
  <2> QED
    BY <1>1, <2>1
<1>3. \A g \in Functions : mapping'[g] <= Len(copies'[g])
  BY <1>1 DEF TypeOK
<1>4. \A t \in Threads : \A i \in 1..Len(threads[t].frames) : threads[t].frames[i] \in Functions
  <2>1. \A t \in Threads : threads[t].frames \in Seq(Functions)
    BY DEF TypeOK, Contexts
  <2> QED
    BY <2>1
<1>5. \A t \in Threads : \A i \in 1..Len(threads'[t].frames) : copies'[threads'[t].frames[i]] # <<>>
  BY <1>1, <1>2, <1>4 DEF TypeOK
<1> QED
  BY <1>1, <1>3, <1>5 DEF TypeOK

LEMMA StoreTyped ==
  ASSUME TypeOK, NEW t \in Threads, Store(t)
  PROVE  TypeOK'
<1> DEFINE result == (threads[t].reg + CounterMod - 1) % CounterMod
<1>1. threads[t] \in Contexts /\ threads[t].at \in Trampolines
  BY DEF TypeOK, Contexts
<1>2. result \in 0..CounterMod - 1
  <2>1. threads[t].reg \in 0..CounterMod - 1
    BY <1>1 DEF Contexts
  <2>2. CounterMod \in Nat \ {0}
    BY OptimizationAssumption
  <2> QED
    BY <2>1, <2>2
<1>3. counter' = [counter EXCEPT ![threads[t].at] = result]
  BY DEF Store
<1> HIDE DEF result
<1>4. counter' \in [Trampolines -> 0..CounterMod - 1]
  BY <1>1, <1>2, <1>3 DEF TypeOK
<1>5. threads' \in [Threads -> Contexts] /\ \A u \in Threads : threads'[u].frames = threads[u].frames
  <2>1. CASE result = 0
    <3> DEFINE c == [threads[t] EXCEPT !.step = "message", !.reg = 0]
    <3>1. threads' = [threads EXCEPT ![t] = c]
      BY <1>1, <2>1 DEF Store, result, TypeOK, Contexts
    <3>2. 0 \in 0..CounterMod - 1
      BY OptimizationAssumption
    <3>3. c \in Contexts /\ c.frames = threads[t].frames
      BY <1>1, <3>2 DEF Contexts, Steps
    <3> HIDE DEF c
    <3> QED
      BY <3>1, <3>3 DEF TypeOK
  <2>2. CASE result # 0
    <3> DEFINE c == [InCode EXCEPT !.frames = threads[t].frames]
    <3>1. threads' = [threads EXCEPT ![t] = c]
      BY <2>2 DEF Store, result, Continues
    <3>2. c \in Contexts /\ c.frames = threads[t].frames
      BY <1>1, FreshTyped DEF Contexts
    <3> HIDE DEF c
    <3> QED
      BY <3>1, <3>2 DEF TypeOK
  <2> QED
    BY <2>1, <2>2
<1>6. UNCHANGED <<phase, copies, mapping, enabled, loaded, file, run, kills>>
  BY DEF Store
<1> QED
  BY <1>4, <1>5, <1>6 DEF TypeOK

(* What a dump does to the file: packets are added, and change their state. *)
FileGrows ==
  /\ file' \in Seq(Packets) /\ Len(file) <= Len(file')
  /\ \A d \in 1..Len(file) : file'[d].run = file[d].run

LEMMA DumpTyped ==
  ASSUME TypeOK, FileGrows, enabled' \in BOOLEAN,
         threads' \in [Threads -> Contexts],
         \A u \in Threads : threads'[u].frames = threads[u].frames,
         UNCHANGED <<phase, copies, mapping, counter, loaded, run, kills>>
  PROVE  TypeOK'
<1>1. loaded' \in 0..Len(file')
  BY DEF TypeOK, FileGrows
<1> QED
  BY <1>1 DEF TypeOK, FileGrows

LEMMA BeginDumpGrows ==
  ASSUME TypeOK, NEW t \in Threads, BeginDump(t)
  PROVE  /\ FileGrows
         /\ Len(file') = Len(file) + 1 /\ file'[Len(file) + 1].run = run
         /\ threads' \in [Threads -> Contexts]
         /\ \A u \in Threads : threads'[u].frames = threads[u].frames
<1> DEFINE others == \E u \in Threads : Step(u, "dumping")
           before == [d \in 1..Len(file) |->
                        IF file[d].run = run /\ file[d].state = "open"
                        THEN [file[d] EXCEPT !.state = "broken"] ELSE file[d]]
           packet == [run |-> run, counted |-> phase = "running",
                      state |-> IF others THEN "broken" ELSE "open"]
<1>1. file \in Seq(Packets) /\ Len(file) \in Nat
  BY DEF TypeOK
<1>2. \A d \in 1..Len(file) : file[d] \in Packets
  BY <1>1
<1>3. \A d \in 1..Len(file) : before[d] \in Packets /\ before[d].run = file[d].run
  BY <1>2 DEF Packets
<1>4. before \in [1..Len(file) -> Packets]
  BY <1>3
<1>5. before \in Seq(Packets) /\ Len(before) = Len(file)
  <2> HIDE DEF before
  <2> QED
    BY <1>1, <1>4
<1>6. packet \in Packets /\ packet.run = run
  BY OptimizationAssumption DEF Packets, TypeOK
<1>7. file' = Append(before, packet)
  BY DEF BeginDump
<1> HIDE DEF before, packet
<1>8. /\ file' \in Seq(Packets) /\ Len(file') = Len(file) + 1
      /\ file'[Len(file) + 1] = packet
      /\ \A d \in 1..Len(file) : file'[d] = before[d]
  BY <1>5, <1>6, <1>7, AppendProperties
<1> DEFINE c == [threads[t] EXCEPT !.dump = Len(file) + 1, !.step = "dumping"]
<1>9. threads[t] \in Contexts
  BY DEF TypeOK
<1>10. c \in Contexts /\ c.frames = threads[t].frames
  <2>1. Len(file) + 1 \in Nat
    BY <1>1
  <2> QED
    BY <1>9, <2>1 DEF Contexts, Steps
<1>11. threads' = [threads EXCEPT ![t] = c]
  BY <1>9 DEF BeginDump, TypeOK, Contexts
<1> HIDE DEF c
<1>12. /\ threads' \in [Threads -> Contexts]
       /\ \A u \in Threads : threads'[u].frames = threads[u].frames
  BY <1>10, <1>11 DEF TypeOK
<1> QED
  BY <1>1, <1>3, <1>6, <1>8, <1>12 DEF FileGrows

LEMMA EndDumpGrows ==
  ASSUME TypeOK, NEW t \in Threads, EndDump(t)
  PROVE  /\ FileGrows /\ Len(file') = Len(file)
         /\ threads' \in [Threads -> Contexts]
         /\ \A u \in Threads : threads'[u].frames = threads[u].frames
<1> DEFINE d == threads[t].dump
           packet == [file[d] EXCEPT !.state = IF @ = "open" THEN "whole" ELSE @]
<1>1. file \in Seq(Packets) /\ Len(file) \in Nat
  BY DEF TypeOK
<1>2. \A e \in 1..Len(file) : file[e] \in Packets
  BY <1>1
<1>3. file' = [file EXCEPT ![d] = packet]
  <2>1. file' = [file EXCEPT ![threads[t].dump].state = IF @ = "open" THEN "whole" ELSE @]
    BY DEF EndDump
  <2> QED
    BY <2>1
<1>4. d \in 1..Len(file) => packet \in Packets /\ packet.run = file[d].run
  BY <1>2 DEF Packets
<1> HIDE DEF packet, d
<1>5. file' \in Seq(Packets) /\ Len(file') = Len(file)
  <2>1. file \in [1..Len(file) -> Packets]
    BY <1>1
  <2>2. file' \in [1..Len(file) -> Packets]
    BY <1>3, <1>4, <2>1
  <2> QED
    BY <1>1, <2>2
<1>6. \A e \in 1..Len(file) : file'[e].run = file[e].run
  BY <1>1, <1>3, <1>4
<1> DEFINE next == IF mapping[Target(t)] = 0 THEN "fetch" ELSE "unmap"
           c == [threads[t] EXCEPT !.old = mapping[Target(t)], !.step = next]
<1>7. threads[t] \in Contexts /\ next \in Steps
  BY DEF TypeOK, Steps
<1>8. mapping[Target(t)] \in Nat
  BY <1>7, OptimizationAssumption DEF Target, TypeOK, Contexts
<1>9. c \in Contexts /\ c.frames = threads[t].frames
  <2> HIDE DEF next
  <2> QED
    BY <1>7, <1>8 DEF Contexts
<1>10. threads' = [threads EXCEPT ![t] = c]
  BY <1>7 DEF EndDump, Looks, TypeOK, Contexts
<1> HIDE DEF c
<1>11. /\ threads' \in [Threads -> Contexts]
       /\ \A u \in Threads : threads'[u].frames = threads[u].frames
  BY <1>9, <1>10 DEF TypeOK
<1> QED
  BY <1>1, <1>5, <1>6, <1>11 DEF FileGrows

(***************************************************************************)
(* What each step does to the contexts                                     *)
(***************************************************************************)

Others(t) == \A u \in Threads \ {t} : threads'[u] = threads[u]
SameFrames(t) == threads'[t].frames = threads[t].frames

BackToCode(t) == Others(t) /\ SameFrames(t) /\ threads'[t].step = "code"

(* The step takes t on in its trampoline, to the given step. *)
GoesOn(t, s) ==
  /\ Others(t) /\ SameFrames(t)
  /\ threads'[t].at = threads[t].at /\ threads'[t].step = s

(* ... in its report, which keeps what it found mapped. *)
Reports(t, s) == GoesOn(t, s) /\ threads'[t].dump = threads[t].dump /\ threads'[t].old = threads[t].old

LEMMA ContextOf ==
  ASSUME TypeOK, NEW t \in Threads
  PROVE  /\ threads[t] \in Contexts
         /\ threads[t].frames \in Seq(Functions) /\ threads[t].at \in Trampolines
         /\ threads[t].old \in Nat /\ threads[t].new \in Nat /\ threads[t].dump \in Nat
         /\ Target(t) \in Functions /\ mapping[Target(t)] \in Nat
BY OptimizationAssumption DEF TypeOK, Contexts, Target

LEMMA CodeEffects ==
  ASSUME TypeOK, NEW t \in Threads
  PROVE  /\ \A f \in Functions : Call(t, f) =>
              /\ Others(t) /\ threads'[t].frames = Append(threads[t].frames, f)
              /\ threads'[t].at = Entry[f] /\ threads'[t].step = "load"
         /\ \A tr \in Trampolines : EnterLoop(t, tr) =>
              /\ Others(t) /\ SameFrames(t)
              /\ threads'[t].at = tr /\ threads'[t].step = "load"
         /\ Return(t) =>
              /\ Others(t) /\ threads'[t].step = "code"
              /\ threads'[t].frames = SubSeq(threads[t].frames, 1, Len(threads[t].frames) - 1)
<1>1. threads[t] \in Contexts /\ threads \in [Threads -> Contexts]
  BY DEF TypeOK
<1>2. ASSUME NEW f \in Functions, Call(t, f)
      PROVE  /\ Others(t) /\ threads'[t].frames = Append(threads[t].frames, f)
             /\ threads'[t].at = Entry[f] /\ threads'[t].step = "load"
  BY <1>1, <1>2 DEF Call, Others, Contexts
<1>3. ASSUME NEW tr \in Trampolines, EnterLoop(t, tr)
      PROVE  Others(t) /\ SameFrames(t) /\ threads'[t].at = tr /\ threads'[t].step = "load"
  BY <1>1, <1>3 DEF EnterLoop, Others, SameFrames, Contexts
<1>4. ASSUME Return(t)
      PROVE  /\ Others(t) /\ threads'[t].step = "code"
             /\ threads'[t].frames = SubSeq(threads[t].frames, 1, Len(threads[t].frames) - 1)
  BY <1>1, <1>4 DEF Return, Others, Step, Contexts
<1> QED
  BY <1>2, <1>3, <1>4

LEMMA TrampolineEffects ==
  ASSUME TypeOK, NEW t \in Threads
  PROVE  /\ Load(t) => GoesOn(t, "store")
         /\ Store(t) => GoesOn(t, "message") \/ BackToCode(t)
         /\ BeginDump(t) => GoesOn(t, "dumping") /\ threads'[t].dump = Len(file) + 1
         /\ EndDump(t) => /\ GoesOn(t, IF mapping[Target(t)] = 0 THEN "fetch" ELSE "unmap")
                          /\ threads'[t].old = mapping[Target(t)]
         /\ Fetch(t) => IF mapping[Target(t)] # 0 THEN BackToCode(t) ELSE Reports(t, "compile")
         /\ Unmap(t) => Reports(t, "compile")
         /\ Recompile(t) => IF threads[t].old = 0 THEN BackToCode(t) ELSE Reports(t, "link")
         /\ Link(t) => Reports(t, "patch") /\ threads'[t].new = mapping[Target(t)]
         /\ Patch(t) => BackToCode(t)
<1>1. threads[t] \in Contexts /\ threads \in [Threads -> Contexts]
  BY DEF TypeOK
<1>2. Load(t) => GoesOn(t, "store")
  BY <1>1 DEF Load, GoesOn, Others, SameFrames, Contexts
<1>3. Continues(t) => BackToCode(t)
  BY <1>1 DEF Continues, BackToCode, InCode, Others, SameFrames
<1>4. threads' = [threads EXCEPT ![t].step = "message", ![t].reg = 0] => GoesOn(t, "message")
  BY <1>1 DEF GoesOn, Others, SameFrames, Contexts
<1>5. Store(t) => GoesOn(t, "message") \/ Continues(t)
  BY <1>4 DEF Store
<1>6. BeginDump(t) => GoesOn(t, "dumping") /\ threads'[t].dump = Len(file) + 1
  <2>1. BeginDump(t) => threads' = [threads EXCEPT ![t].dump = Len(file) + 1, ![t].step = "dumping"]
    BY DEF BeginDump
  <2> QED
    BY <1>1, <2>1 DEF GoesOn, Others, SameFrames, Contexts
<1>7. EndDump(t) => /\ GoesOn(t, IF mapping[Target(t)] = 0 THEN "fetch" ELSE "unmap")
                    /\ threads'[t].old = mapping[Target(t)]
  <2> DEFINE m == mapping[Target(t)]
             next == IF m = 0 THEN "fetch" ELSE "unmap"
  <2>1. EndDump(t) => threads' = [threads EXCEPT ![t].old = m, ![t].step = next]
    BY DEF EndDump, Looks
  <2>2. EndDump(t) => GoesOn(t, next) /\ threads'[t].old = m
    <3> HIDE DEF m, next
    <3> QED
      BY <1>1, <2>1 DEF GoesOn, Others, SameFrames, Contexts
  <2> QED
    BY <2>2
<1>8. ASSUME NEW s, Goes(t, s) PROVE Reports(t, s)
  BY <1>1, <1>8 DEF Goes, Reports, GoesOn, Others, SameFrames, Contexts
<1>9. /\ Fetch(t) => IF mapping[Target(t)] # 0 THEN Continues(t) ELSE Goes(t, "compile")
      /\ Unmap(t) => Goes(t, "compile")
      /\ Recompile(t) => IF threads[t].old = 0 THEN Continues(t) ELSE Goes(t, "link")
      /\ Patch(t) => Continues(t)
  BY DEF Fetch, Unmap, Recompile, Patch
<1>10. Link(t) => Reports(t, "patch") /\ threads'[t].new = mapping[Target(t)]
  <2>1. Link(t) => threads' = [threads EXCEPT ![t].new = mapping[Target(t)], ![t].step = "patch"]
    BY DEF Link
  <2> QED
    BY <1>1, <2>1 DEF Reports, GoesOn, Others, SameFrames, Contexts
<1> QED
  BY <1>2, <1>3, <1>5, <1>6, <1>7, <1>8, <1>9, <1>10

LEMMA MessageContexts ==
  ASSUME TypeOK, NEW t \in Threads, Fetch(t) \/ Unmap(t) \/ Recompile(t) \/ Link(t) \/ Patch(t)
  PROVE  /\ threads' \in [Threads -> Contexts]
         /\ \A u \in Threads : threads'[u].frames = threads[u].frames
<1>1. threads[t] \in Contexts /\ mapping[Target(t)] \in Nat
  BY ContextOf
<1>2. ASSUME NEW c \in Contexts, c.frames = threads[t].frames, threads' = [threads EXCEPT ![t] = c]
      PROVE  /\ threads' \in [Threads -> Contexts]
             /\ \A u \in Threads : threads'[u].frames = threads[u].frames
  BY <1>2 DEF TypeOK
<1>3. ASSUME NEW s \in Steps, Goes(t, s)
      PROVE  /\ threads' \in [Threads -> Contexts]
             /\ \A u \in Threads : threads'[u].frames = threads[u].frames
  <2> DEFINE c == [threads[t] EXCEPT !.step = s]
  <2>1. c \in Contexts /\ c.frames = threads[t].frames
    BY <1>1, <1>3 DEF Contexts
  <2>2. threads' = [threads EXCEPT ![t] = c]
    BY <1>3 DEF Goes
  <2> HIDE DEF c
  <2> QED
    BY <1>2, <2>1, <2>2
<1>4. ASSUME Continues(t)
      PROVE  /\ threads' \in [Threads -> Contexts]
             /\ \A u \in Threads : threads'[u].frames = threads[u].frames
  <2> DEFINE c == [InCode EXCEPT !.frames = threads[t].frames]
  <2>1. threads' = [threads EXCEPT ![t] = c]
    BY <1>4 DEF Continues
  <2>2. c \in Contexts /\ c.frames = threads[t].frames
    BY <1>1, FreshTyped DEF Contexts
  <2> HIDE DEF c
  <2> QED
    BY <1>2, <2>1, <2>2
<1>5. ASSUME Link(t)
      PROVE  /\ threads' \in [Threads -> Contexts]
             /\ \A u \in Threads : threads'[u].frames = threads[u].frames
  <2> DEFINE c == [threads[t] EXCEPT !.new = mapping[Target(t)], !.step = "patch"]
  <2>1. c \in Contexts /\ c.frames = threads[t].frames
    BY <1>1 DEF Contexts, Steps
  <2>2. threads' = [threads EXCEPT ![t] = c]
    BY <1>1, <1>5 DEF Link, TypeOK, Contexts
  <2> HIDE DEF c
  <2> QED
    BY <1>2, <2>1, <2>2
<1>6. "compile" \in Steps /\ "link" \in Steps
  BY DEF Steps
<1> QED
  BY <1>3, <1>4, <1>5, <1>6 DEF Fetch, Unmap, Recompile, Patch

(* The copies after a patch: one jump changed, or none. *)
LEMMA PatchWrites ==
  ASSUME TypeOK, NEW t \in Threads, Patch(t)
  PROVE  /\ copies' \in [Functions -> Seq(Copies)]
         /\ \A g \in Functions : Len(copies'[g]) = Len(copies[g])
         /\ \A g \in Functions : g # Target(t) => copies'[g] = copies[g]
         /\ \A n \in 1..Len(copies[Target(t)]) :
              copies'[Target(t)][n] = IF n = threads[t].old
                THEN [copies[Target(t)][n] EXCEPT !.next = threads[t].new]
                ELSE copies[Target(t)][n]
<1> DEFINE f == Target(t)
           o == threads[t].old
           seq == copies[f]
           new == [seq EXCEPT ![o].next = threads[t].new]
<1>1. f \in Functions /\ seq \in Seq(Copies) /\ threads[t].new \in Nat
  BY ContextOf DEF TypeOK
<1>2. copies' = [copies EXCEPT ![f] = new]
  BY <1>1 DEF Patch, TypeOK
<1>3. Len(seq) \in Nat /\ \A n \in 1..Len(seq) : seq[n] \in Copies
  BY <1>1
<1>4. \A n \in 1..Len(seq) : [seq[n] EXCEPT !.next = threads[t].new] \in Copies
  BY <1>1, <1>3 DEF Copies
<1>5. /\ DOMAIN new = 1..Len(seq)
      /\ \A n \in 1..Len(seq) : new[n] = IF n = o THEN [seq[n] EXCEPT !.next = threads[t].new] ELSE seq[n]
  <2> HIDE DEF seq
  <2> QED
    BY <1>1
<1>6. new = [n \in 1..Len(seq) |-> new[n]]
  <2> HIDE DEF seq, o, f
  <2> QED
    BY <1>1
<1> HIDE DEF new
<1>7. new \in [1..Len(seq) -> Copies]
  BY <1>3, <1>4, <1>5, <1>6
<1>8. new \in Seq(Copies) /\ Len(new) = Len(seq)
  BY <1>3, <1>7
<1>9. copies'[f] = new /\ \A g \in Functions : g # f => copies'[g] = copies[g]
  BY <1>1, <1>2 DEF TypeOK
<1>10. copies' \in [Functions -> Seq(Copies)]
  BY <1>2, <1>8 DEF TypeOK
<1> QED
  BY <1>5, <1>8, <1>9, <1>10

LEMMA MessageTyped ==
  ASSUME TypeOK, NEW t \in Threads, Fetch(t) \/ Unmap(t) \/ Recompile(t) \/ Link(t) \/ Patch(t)
  PROVE  TypeOK'
<1>1. /\ threads' \in [Threads -> Contexts]
      /\ \A u \in Threads : threads'[u].frames = threads[u].frames
  BY MessageContexts
<1>2. Target(t) \in Functions /\ threads[t].dump \in Nat
  BY ContextOf
<1>3. CASE Unmap(t)
  <2>1. mapping' = [mapping EXCEPT ![Target(t)] = 0]
    BY <1>3 DEF Unmap
  <2>2. mapping' \in [Functions -> Nat] /\ \A f \in Functions : mapping'[f] <= Len(copies[f])
    BY <1>2, <2>1 DEF TypeOK
  <2>3. UNCHANGED <<phase, copies, counter, enabled, loaded, file, run, kills>>
    BY <1>3 DEF Unmap
  <2> QED
    BY <1>1, <2>2, <2>3 DEF TypeOK
<1>4. CASE Recompile(t)
  <2>1. Compiles(Target(t), threads[t].dump)
    BY <1>4 DEF Recompile
  <2>2. UNCHANGED <<phase, counter, enabled, file, run, kills>>
    BY <1>4 DEF Recompile
  <2>3. phase' \in Live \cup Ended
    BY <2>2 DEF TypeOK
  <2> QED
    BY <1>1, <1>2, <2>1, <2>2, <2>3, CompileTyped
<1>5. CASE Patch(t)
  <2>1. UNCHANGED <<phase, mapping, counter, enabled, loaded, file, run, kills>>
    BY <1>5 DEF Patch
  <2>2. /\ copies' \in [Functions -> Seq(Copies)]
        /\ \A g \in Functions : Len(copies'[g]) = Len(copies[g])
    BY <1>5, PatchWrites, Zenon
  <2>3. \A g \in Functions : copies[g] # <<>> => copies'[g] # <<>>
    BY <2>2 DEF TypeOK
  <2>4. \A u \in Threads : \A i \in 1..Len(threads[u].frames) : threads[u].frames[i] \in Functions
    BY DEF TypeOK, Contexts
  <2>5. \A u \in Threads : \A i \in 1..Len(threads'[u].frames) : copies'[threads'[u].frames[i]] # <<>>
    BY <1>1, <2>3, <2>4 DEF TypeOK
  <2>6. \A g \in Functions : mapping'[g] <= Len(copies'[g])
    BY <2>1, <2>2 DEF TypeOK
  <2> QED
    BY <1>1, <2>1, <2>2, <2>5, <2>6 DEF TypeOK
<1>6. CASE Fetch(t) \/ Link(t)
  <2>1. UNCHANGED <<phase, copies, mapping, counter, enabled, loaded, file, run, kills>>
    BY <1>6 DEF Fetch, Link
  <2> QED
    BY <1>1, <2>1 DEF TypeOK
<1> QED
  BY <1>3, <1>4, <1>5, <1>6

LEMMA TypesInit == Init => TypeOK
<1> SUFFICES ASSUME Init PROVE TypeOK
  OBVIOUS
<1>1. Fresh(copies, mapping, counter, enabled, loaded, threads)
  BY DEF Init
<1>2. /\ copies \in [Functions -> Seq(Copies)] /\ mapping \in [Functions -> Nat]
      /\ \A f \in Functions : mapping[f] <= Len(copies[f])
      /\ counter \in [Trampolines -> 0..CounterMod - 1]
      /\ enabled \in BOOLEAN /\ loaded = 0
      /\ threads \in [Threads -> Contexts]
      /\ \A t \in Threads : Len(threads[t].frames) = 0
  BY <1>1, FreshTyped, Zenon
<1>3. phase \in Live \cup Ended /\ file \in Seq(Packets) /\ loaded \in 0..Len(file)
  BY <1>2 DEF Init, Live
<1>4. run \in 1..MaxRuns /\ kills \in 0..MaxKills
  BY OptimizationAssumption DEF Init
<1>5. \A t \in Threads : \A i \in 1..Len(threads[t].frames) : copies[threads[t].frames[i]] # <<>>
  BY <1>2
<1> QED
  BY <1>2, <1>3, <1>4, <1>5 DEF TypeOK

(* Every run ends the same way; a way to end it is one of Ended. *)
EndsRun == \E how \in Ended : Ends(how) /\ kills' \in 0..MaxKills

Quits(t) ==
  \/ \E f \in Functions : CallUncompiled(t, f)
  \/ FailToRead(t) \/ LinkFails(t)
  \/ \E u \in Threads : Astray(t, u)

LEMMA Endings ==
  ASSUME TypeOK
  PROVE  /\ \A t \in Threads : Quits(t) => EndsRun
         /\ Exit \/ Kill => EndsRun
<1>1. {"exited", "killed", "broken profile", "lazy compilation", "assertion", "astray"} \subseteq Ended
  BY DEF Ended
<1>2. kills \in 0..MaxKills
  BY DEF TypeOK
<1>3. ASSUME NEW t \in Threads, Quits(t) PROVE EndsRun
  BY <1>1, <1>2, <1>3 DEF Quits, CallUncompiled, FailToRead, LinkFails, Astray, EndsRun
<1>4. Exit => EndsRun
  BY <1>1, <1>2 DEF Exit, EndsRun
<1>5. Kill => EndsRun
  <2>1. kills < MaxKills /\ kills' = kills + 1 => kills' \in 0..MaxKills
    BY <1>2, OptimizationAssumption
  <2> QED
    BY <1>1, <2>1 DEF Kill, EndsRun
<1> QED
  BY <1>3, <1>4, <1>5

LEMMA TypesNext == TypeOK /\ [Next]_vars => TypeOK'
<1> SUFFICES ASSUME TypeOK, [Next]_vars PROVE TypeOK'
  OBVIOUS
<1>1. ASSUME EndsRun PROVE TypeOK'
  BY <1>1, EndTyped DEF EndsRun
<1>2. ASSUME NEW f \in Functions, Compile(f) PROVE TypeOK'
  <2>1. 0 \in Nat /\ Compiles(f, 0)
    BY <1>2 DEF Compile
  <2>2. phase' \in Live \cup Ended
    BY <1>2 DEF Compile, TypeOK, Live
  <2>3. UNCHANGED <<counter, enabled, file, threads, run, kills>>
    BY <1>2 DEF Compile
  <2>4. threads' \in [Threads -> Contexts] /\ \A t \in Threads : threads'[t].frames = threads[t].frames
    BY <2>3 DEF TypeOK
  <2> QED
    BY <2>1, <2>2, <2>3, <2>4, CompileTyped
<1>3. CASE RunMain
  <2>1. phase' \in Live \cup Ended
    BY <1>3 DEF RunMain, Live
  <2> QED
    BY <1>3, <2>1 DEF RunMain, TypeOK
<1>4. ASSUME NEW t \in Threads, Trampoline(t) PROVE TypeOK'
  <2>1. CASE Load(t)
    BY <2>1, LoadTyped
  <2>2. CASE Store(t)
    BY <2>2, StoreTyped
  <2>3. CASE BeginDump(t)
    <3>1. FileGrows /\ threads' \in [Threads -> Contexts] /\ \A u \in Threads : threads'[u].frames = threads[u].frames
      BY <2>3, BeginDumpGrows, Zenon
    <3>2. enabled' \in BOOLEAN /\ UNCHANGED <<phase, copies, mapping, counter, loaded, run, kills>>
      BY <2>3 DEF BeginDump, TypeOK
    <3> QED
      BY <3>1, <3>2, DumpTyped
  <2>4. CASE EndDump(t)
    <3>1. FileGrows /\ threads' \in [Threads -> Contexts] /\ \A u \in Threads : threads'[u].frames = threads[u].frames
      BY <2>4, EndDumpGrows, Zenon
    <3>2. enabled' \in BOOLEAN /\ UNCHANGED <<phase, copies, mapping, counter, loaded, run, kills>>
      BY <2>4 DEF EndDump
    <3> QED
      BY <3>1, <3>2, DumpTyped
  <2>5. CASE Fetch(t) \/ Unmap(t) \/ Recompile(t) \/ Link(t) \/ Patch(t)
    BY <2>5, MessageTyped
  <2>6. CASE FailToRead(t) \/ LinkFails(t)
    BY <1>1, <2>6, Endings DEF Quits
  <2> QED
    BY <1>4, <2>1, <2>2, <2>3, <2>4, <2>5, <2>6 DEF Trampoline
<1>5. ASSUME NEW t \in Threads, (\E f \in Functions : Call(t, f)) \/ Quits(t) PROVE TypeOK'
  BY <1>1, <1>5, CallTyped, Endings
<1>6. ASSUME NEW t \in Threads, NEW tr \in Trampolines, EnterLoop(t, tr) PROVE TypeOK'
  BY <1>6, LoopTyped
<1>7. ASSUME NEW t \in Threads, Return(t) PROVE TypeOK'
  BY <1>7, ReturnTyped
<1>8. CASE Exit \/ Kill
  BY <1>1, <1>8, Endings
<1>9. CASE Restart
  <2>1. run' \in 1..MaxRuns /\ phase' \in Live \cup Ended
    BY <1>9, OptimizationAssumption DEF Restart, TypeOK, Live
  <2> QED
    BY <1>9, <2>1 DEF Restart, TypeOK
<1>10. CASE UNCHANGED vars
  BY <1>10 DEF vars, TypeOK
<1> QED
  BY <1>2, <1>3, <1>4, <1>5, <1>6, <1>7, <1>8, <1>9, <1>10 DEF Next, Quits

(* In every state of every run, all variables have their types; what is    *)
(* mapped or on a stack has been compiled.                                 *)
THEOREM OptimizationTypeCorrect == Spec => []TypeOK
<1>1. Init => TypeOK
  BY TypesInit
<1>2. TypeOK /\ [Next]_vars => TypeOK'
  BY TypesNext
<1> QED
  BY <1>1, <1>2, PTL DEF Spec

(***************************************************************************)
(* Stacks, phases and ends                                                 *)
(***************************************************************************)

(* What a step can do to the contexts. *)
Advances(t) == threads[t].step # "code" /\ \E s \in Steps : GoesOn(t, s)

LEMMA ContextEffects ==
  ASSUME TypeOK, [Next]_vars
  PROVE  \/ EndsRun
         \/ UNCHANGED threads
         \/ \E t \in Threads :
              \/ \E f \in Functions : Call(t, f)
              \/ \E tr \in Trampolines : EnterLoop(t, tr)
              \/ Return(t)
              \/ BackToCode(t)
              \/ Advances(t)
<1>1. ASSUME NEW t \in Threads, Trampoline(t) PROVE EndsRun \/ BackToCode(t) \/ Advances(t)
  <2>1. ~Quits(t) => threads[t].step # "code"
    BY <1>1 DEF Trampoline, Quits, Load, Store, BeginDump, EndDump, Fetch, Unmap, Recompile, Link,
                Patch, Step
  <2>2. {"store", "message", "dumping", "fetch", "unmap", "compile", "link", "patch"} \subseteq Steps
    BY DEF Steps
  <2>3. CASE Quits(t)
    BY <2>3, Endings
  <2>4. CASE ~Quits(t)
    BY <1>1, <2>1, <2>2, <2>4, TrampolineEffects DEF Trampoline, Quits, Reports, Advances
  <2> QED
    BY <2>3, <2>4
<1>2. (\E f \in Functions : Compile(f)) \/ RunMain \/ Restart \/ UNCHANGED vars => UNCHANGED threads
  BY DEF Compile, RunMain, Restart, vars
<1>3. \A t \in Threads : Quits(t) => EndsRun
  BY Endings
<1>4. Exit \/ Kill => EndsRun
  BY Endings
<1> QED
  BY <1>1, <1>2, <1>3, <1>4 DEF Next, Quits

LEMMA EndsFresh ==
  ASSUME EndsRun
  PROVE  /\ phase' \in Ended /\ file' = file /\ run' = run
         /\ Fresh(copies', mapping', counter', enabled', loaded', threads')
BY DEF EndsRun, Ends

LEMMA FreshMeans ==
  ASSUME Fresh(copies, mapping, counter, enabled, loaded, threads)
  PROVE  /\ \A f \in Functions : copies[f] = <<>> /\ Len(copies[f]) = 0 /\ mapping[f] = 0
         /\ ~enabled /\ loaded = 0
         /\ \A t \in Threads : threads[t].frames = <<>> /\ threads[t].step = "code"
<1>1. InCode.frames = <<>> /\ InCode.step = "code"
  BY DEF InCode
<1>2. \A f \in Functions : copies[f] = <<>> /\ mapping[f] = 0
  BY DEF Fresh
<1>3. ~enabled /\ loaded = 0
  BY DEF Fresh
<1>4. \A t \in Threads : threads[t] = InCode
  BY DEF Fresh
<1> QED
  BY <1>1, <1>2, <1>3, <1>4

LEMMA EndsMean ==
  ASSUME EndsRun
  PROVE  /\ \A f \in Functions : copies'[f] = <<>> /\ Len(copies'[f]) = 0 /\ mapping'[f] = 0
         /\ ~enabled' /\ loaded' = 0
         /\ \A t \in Threads : threads'[t].frames = <<>> /\ threads'[t].step = "code"
<1>1. InCode.frames = <<>> /\ InCode.step = "code"
  BY DEF InCode
<1>2. Fresh(copies', mapping', counter', enabled', loaded', threads')
  BY EndsFresh
<1>3. \A f \in Functions : copies'[f] = <<>> /\ mapping'[f] = 0
  BY <1>2 DEF Fresh
<1>4. ~enabled' /\ loaded' = 0
  BY <1>2 DEF Fresh
<1>5. \A t \in Threads : threads'[t] = InCode
  BY <1>2 DEF Fresh
<1> QED
  BY <1>1, <1>3, <1>4, <1>5

LEMMA WorkingNext ==
  ASSUME TypeOK, Working, [Next]_vars
  PROVE  Working'
<1>1. CASE EndsRun
  BY <1>1, EndsMean, Zenon DEF Working
<1>2. CASE UNCHANGED threads
  BY <1>2 DEF Working, Target, Top
<1>3. ASSUME NEW t \in Threads, Others(t),
             threads'[t].step # "code" =>
               threads'[t].frames # <<>> /\ Owner[threads'[t].at] = threads'[t].frames[Len(threads'[t].frames)]
      PROVE  Working'
  BY <1>3 DEF Working, Others, Target, Top
<1>4. ASSUME NEW t \in Threads, BackToCode(t) \/ Return(t) PROVE Working'
  BY <1>3, <1>4, CodeEffects DEF BackToCode
<1>5. ASSUME NEW t \in Threads, Advances(t) PROVE Working'
  BY <1>3, <1>5 DEF Advances, GoesOn, SameFrames, Working, Target, Top
<1>6. ASSUME NEW t \in Threads, NEW f \in Functions, Call(t, f) PROVE Working'
  <2>1. /\ Others(t) /\ threads'[t].frames = Append(threads[t].frames, f)
        /\ threads'[t].at = Entry[f]
    BY <1>6, CodeEffects
  <2>2. threads[t].frames \in Seq(Functions)
    BY ContextOf
  <2>3. /\ Append(threads[t].frames, f) # <<>>
        /\ Append(threads[t].frames, f)[Len(Append(threads[t].frames, f))] = f
    BY <2>2, AppendProperties
  <2>4. Owner[Entry[f]] = f
    BY OptimizationAssumption
  <2> QED
    BY <1>3, <2>1, <2>3, <2>4
<1>7. ASSUME NEW t \in Threads, NEW tr \in Trampolines, EnterLoop(t, tr) PROVE Working'
  <2>1. Others(t) /\ SameFrames(t) /\ threads'[t].at = tr
    BY <1>7, CodeEffects
  <2>2. threads[t].frames # <<>> /\ Owner[tr] = threads[t].frames[Len(threads[t].frames)]
    BY <1>7 DEF EnterLoop, Top
  <2> QED
    BY <1>3, <2>1, <2>2 DEF SameFrames
<1> QED
  BY <1>1, <1>2, <1>4, <1>5, <1>6, <1>7, ContextEffects

(* A step of t that does not end the run. *)
GoesAhead(t) ==
  \/ \E f \in Functions : Call(t, f)
  \/ \E tr \in Trampolines : EnterLoop(t, tr)
  \/ Return(t)
  \/ Trampoline(t) /\ ~Quits(t)

LEMMA PhaseKept ==
  ASSUME NEW t \in Threads, GoesAhead(t)
  PROVE  phase' = phase /\ phase \in Live
BY DEF GoesAhead, Call, MayCall, EnterLoop, Return, Trampoline, Quits, Load, Store, BeginDump, EndDump,
       Fetch, Unmap, Recompile, Link, Patch, Live

LEMMA SameStacks ==
  ASSUME Apart, phase' = phase, \A u \in Threads : threads'[u].frames = threads[u].frames
  PROVE  Apart'
<1>1. Main \in Threads
  BY OptimizationAssumption
<1> QED
  BY <1>1 DEF Apart

(* A step of t: the stack of t changes, no other one does. *)
LEMMA ApartStep ==
  ASSUME TypeOK, Apart, NEW t \in Threads, GoesAhead(t)
  PROVE  Apart'
<1>1. phase' = phase
  BY PhaseKept
<1>2. threads[t].frames \in Seq(Functions)
  BY ContextOf
<1>3. Main \in Threads
  BY OptimizationAssumption
<1>4. CASE (\E tr \in Trampolines : EnterLoop(t, tr)) \/ (Trampoline(t) /\ ~Quits(t))
  <2>1. Others(t) /\ SameFrames(t)
    BY <1>4, CodeEffects, TrampolineEffects DEF Trampoline, Quits, Reports, GoesOn, BackToCode
  <2> QED
    BY <1>1, <2>1, SameStacks DEF Others, SameFrames
<1>5. CASE Return(t)
  <2>1. Others(t) /\ threads'[t].frames = SubSeq(threads[t].frames, 1, Len(threads[t].frames) - 1)
    BY <1>5, CodeEffects
  <2>2. threads[t].frames # <<>>
    BY <1>5 DEF Return
  <2>3. /\ Len(threads'[t].frames) = Len(threads[t].frames) - 1
        /\ \A i \in 1..Len(threads[t].frames) - 1 : threads'[t].frames[i] = threads[t].frames[i]
    BY <1>2, <2>1, <2>2, StackShrinks
  <2>4. \A i \in 1..Len(threads'[t].frames) :
          i \in 1..Len(threads[t].frames) /\ threads'[t].frames[i] = threads[t].frames[i]
    BY <1>2, <2>3
  <2>5. phase # "running" => t = Main
    BY <2>2 DEF Apart
  <2>6. phase \in {"constructing", "running"}
    BY <2>2, <2>5 DEF Apart
  <2> QED
    BY <1>1, <1>3, <2>1, <2>4, <2>5, <2>6 DEF Apart, Others
<1>6. ASSUME NEW f \in Functions, Call(t, f) PROVE Apart'
  <2>1. Others(t) /\ threads'[t].frames = Append(threads[t].frames, f)
    BY <1>6, CodeEffects
  <2>2. \/ phase = "running" /\ f \in Runs[t]
        \/ phase = "constructing" /\ t = Main
    BY <1>6 DEF Call, MayCall
  <2>3. \A i \in 1..Len(threads'[t].frames) :
          \/ threads'[t].frames[i] = f
          \/ i \in 1..Len(threads[t].frames) /\ threads'[t].frames[i] = threads[t].frames[i]
    <3> DEFINE old == threads[t].frames
               new == Append(old, f)
    <3>1. /\ Len(new) = Len(old) + 1 /\ new[Len(old) + 1] = f /\ Len(old) \in Nat
          /\ \A i \in 1..Len(old) : new[i] = old[i]
      BY <1>2, AppendProperties
    <3> HIDE DEF new
    <3>2. \A i \in 1..Len(new) : new[i] = f \/ (i \in 1..Len(old) /\ new[i] = old[i])
      BY <3>1
    <3> QED
      BY <2>1, <3>2 DEF new
  <2> QED
    BY <1>1, <1>3, <2>1, <2>2, <2>3 DEF Apart, Others
<1> QED
  BY <1>4, <1>5, <1>6 DEF GoesAhead

LEMMA ApartNext ==
  ASSUME TypeOK, Gone, Apart, [Next]_vars
  PROVE  Apart'
<1>1. Main \in Threads
  BY OptimizationAssumption
<1>2. CASE EndsRun
  <2>1. phase' # "running" /\ \A t \in Threads : threads'[t].frames = <<>>
    BY <1>2, EndsMean, EndsFresh DEF Ended
  <2> QED
    BY <1>1, <2>1 DEF Apart
<1>3. ASSUME NEW f \in Functions, Compile(f) PROVE Apart'
  <2>1. /\ threads' = threads /\ threads[Main].frames = <<>>
        /\ phase \in {"constructing", "compiling"} /\ phase' \in {"constructing", "compiling"}
    BY <1>3 DEF Compile
  <2> QED
    BY <1>1, <2>1 DEF Apart
<1>4. CASE RunMain
  <2>1. /\ threads' = threads /\ threads[Main].frames = <<>>
        /\ phase # "running" /\ phase' = "running"
    BY <1>4 DEF RunMain
  <2>2. \A t \in Threads : threads[t].frames = <<>>
    BY <2>1 DEF Apart
  <2>3. \A t \in Threads : Len(threads'[t].frames) = 0
    BY <2>1, <2>2
  <2> QED
    BY <2>1, <2>3 DEF Apart
<1>5. CASE Restart
  <2>1. phase \in Ended /\ phase' = "constructing" /\ threads' = threads
    BY <1>5 DEF Restart
  <2>2. \A t \in Threads : threads[t].frames = <<>>
    BY <2>1, FreshMeans DEF Gone
  <2> QED
    BY <1>1, <2>1, <2>2 DEF Apart
<1>6. CASE UNCHANGED vars
  BY <1>6, SameStacks DEF vars
<1>7. (\A t \in Threads : Quits(t) => EndsRun) /\ (Exit \/ Kill => EndsRun)
  BY Endings
<1> QED
  BY <1>2, <1>3, <1>4, <1>5, <1>6, <1>7, ApartStep DEF Next, Quits, GoesAhead

LEMMA GoneNext ==
  ASSUME Gone, [Next]_vars, TypeOK
  PROVE  Gone'
<1>1. CASE EndsRun
  BY <1>1, EndsFresh DEF Gone
<1>2. (\E f \in Functions : Compile(f)) \/ RunMain \/ Restart => phase' \notin Ended
  BY DEF Compile, RunMain, Restart, Ended
<1>3. ASSUME NEW t \in Threads, GoesAhead(t) PROVE phase' \notin Ended
  BY <1>3, PhaseKept DEF Live, Ended
<1>4. CASE UNCHANGED vars
  BY <1>4 DEF vars, Gone
<1>5. (\A t \in Threads : Quits(t) => EndsRun) /\ (Exit \/ Kill => EndsRun)
  BY Endings
<1>6. phase' \notin Ended => Gone'
  BY DEF Gone
<1> QED
  BY <1>1, <1>2, <1>3, <1>4, <1>5, <1>6 DEF Next, Quits, GoesAhead

(***************************************************************************)
(* Profiles                                                                *)
(***************************************************************************)

LEMMA PacketsStay ==
  ASSUME TypeOK, FileGrows, run' = run
  PROVE  \A k \in Nat : k <= Len(file) /\ HasPacket(k) => HasPacket(k)'
<1> SUFFICES ASSUME NEW k \in Nat, k <= Len(file), HasPacket(k) PROVE HasPacket(k)'
  OBVIOUS
<1>1. PICK d \in 1..k : file[d].run = run
  BY DEF HasPacket
<1>2. d \in 1..Len(file) /\ Len(file) \in Nat
  BY DEF TypeOK
<1>3. file'[d].run = run'
  BY <1>1, <1>2 DEF FileGrows
<1> QED
  BY <1>3 DEF HasPacket

LEMMA OtherDumpsStay ==
  ASSUME TypeOK, FileGrows, run' = run, NEW t \in Threads, Others(t), \A u \in Threads : HasDump(u)
  PROVE  \A u \in Threads \ {t} : HasDump(u)'
<1> SUFFICES ASSUME NEW u \in Threads \ {t}, threads'[u].step = "dumping" PROVE HasDump(u)'
  BY DEF HasDump
<1>1. threads'[u] = threads[u]
  BY DEF Others
<1>2. threads[u].dump \in 1..Len(file) /\ file[threads[u].dump].run = run
  BY <1>1 DEF HasDump
<1>3. Len(file) \in Nat /\ Len(file') \in Nat
  BY DEF TypeOK, FileGrows
<1>4. threads'[u].dump \in 1..Len(file') /\ file'[threads'[u].dump].run = run'
  BY <1>1, <1>2, <1>3 DEF FileGrows
<1> QED
  BY <1>4 DEF HasDump

LEMMA LayoutStays ==
  ASSUME TypeOK, FileGrows, run' = run, NEW f \in Functions, LaidOut(f), copies'[f] = copies[f]
  PROVE  LaidOut(f)'
<1> SUFFICES ASSUME NEW n \in 1..Len(copies[f]), copies[f][n].powered
             PROVE  copies[f][n].profile <= Len(file') /\ HasPacket(copies[f][n].profile)'
  BY DEF LaidOut, HasPacket
<1>1. copies[f][n].profile <= Len(file) /\ HasPacket(copies[f][n].profile)
  BY DEF LaidOut
<1>2. copies[f][n].profile \in Nat
  <2>1. copies[f] \in Seq(Copies)
    BY DEF TypeOK
  <2>2. copies[f][n] \in Copies
    BY <2>1
  <2> QED
    BY <2>2 DEF Copies
<1>3. Len(file) \in Nat /\ Len(file') \in Nat
  BY DEF TypeOK, FileGrows
<1>4. HasPacket(copies[f][n].profile)'
  BY <1>1, <1>2, PacketsStay DEF HasPacket
<1> QED
  BY <1>1, <1>2, <1>3, <1>4 DEF FileGrows

LEMMA LoadedStays ==
  ASSUME TypeOK, FileGrows, run' = run, Profiled, loaded' = loaded
  PROVE  /\ loaded' # 0 => HasPacket(loaded)'
         /\ enabled => HasPacket(Len(file))'
<1>1. loaded \in Nat /\ loaded <= Len(file) /\ Len(file) \in Nat /\ Len(file) <= Len(file')
      /\ Len(file') \in Nat
  BY DEF TypeOK, FileGrows
<1>2. loaded' # 0 => HasPacket(loaded)'
  BY <1>1, PacketsStay DEF Profiled, HasPacket
<1>3. ASSUME HasPacket(Len(file)) PROVE HasPacket(Len(file))'
  <2>1. PICK d \in 1..Len(file) : file[d].run = run
    BY <1>3 DEF HasPacket
  <2>2. d \in 1..Len(file') /\ file'[d].run = run'
    BY <1>1, <2>1 DEF FileGrows
  <2> QED
    BY <2>2 DEF HasPacket
<1> QED
  BY <1>2, <1>3 DEF Profiled

(* The file as it is has grown by nothing. *)
LEMMA FileStays == TypeOK /\ file' = file => FileGrows
BY DEF FileGrows, TypeOK

(* Compiling reads a profile with a packet of this run, if any. *)
LEMMA CompileReads ==
  ASSUME TypeOK, Profiled, NEW f \in Functions, NEW dump \in Nat, Compiles(f, dump),
         UNCHANGED <<enabled, file, run>>
  PROVE  /\ loaded' # 0 => HasPacket(loaded)'
         /\ enabled' => HasPacket(Len(file))'
         /\ \A g \in Functions : LaidOut(g)'
<1>1. FileGrows
  BY FileStays
<1>2. loaded \in Nat /\ Len(file) \in Nat
  BY DEF TypeOK
<1>3. loaded' = IF enabled /\ loaded = 0 THEN Len(file) ELSE loaded
  BY DEF Compiles
<1>4. (loaded' # 0 \/ enabled) => HasPacket(loaded')
  BY <1>3 DEF Profiled
<1>5. loaded' # 0 => HasPacket(loaded)'
  BY <1>4 DEF HasPacket
<1>6. enabled' => HasPacket(Len(file))'
  BY DEF Profiled, HasPacket
<1>7. LaidOut(f)'
  <2>1. /\ loaded' \in 0..Len(file)
        /\ Len(copies'[f]) = Len(copies[f]) + 1
        /\ \A n \in 1..Len(copies[f]) : copies'[f][n] = copies[f][n]
        /\ copies'[f][Len(copies'[f])] = Copy(loaded', dump)
    BY CompileGrows
  <2>2. Len(copies[f]) \in Nat
    BY DEF TypeOK
  <2>3. SUFFICES ASSUME NEW n \in 1..Len(copies'[f]), copies'[f][n].powered
                 PROVE  copies'[f][n].profile <= Len(file') /\ HasPacket(copies[f][n].profile)'
    BY DEF LaidOut
  <2>4. CASE n \in 1..Len(copies[f])
    <3>1. copies[f][n].profile <= Len(file) /\ HasPacket(copies[f][n].profile)
      BY <2>1, <2>3, <2>4 DEF Profiled, LaidOut
    <3> QED
      BY <2>1, <2>4, <3>1 DEF HasPacket
  <2>5. CASE n = Len(copies'[f])
    <3>1. copies'[f][n] = Copy(loaded', dump)
      BY <2>1, <2>5
    <3>2. copies'[f][n].powered = enabled /\ copies'[f][n].profile = loaded'
      BY <3>1 DEF Copy
    <3>3. HasPacket(loaded')
      BY <1>4, <2>3, <3>2
    <3> QED
      BY <2>1, <3>2, <3>3 DEF HasPacket
  <2>6. n \in 1..Len(copies[f]) \/ n = Len(copies'[f])
    BY <2>1, <2>2
  <2> QED
    BY <2>4, <2>5, <2>6
<1>8. ASSUME NEW g \in Functions, g # f PROVE LaidOut(g)'
  BY <1>1, <1>8, CompileGrows, LayoutStays DEF Profiled
<1> QED
  BY <1>5, <1>6, <1>7, <1>8

(* A step after which all copies, the profile and the switch are the same. *)
LEMMA ProfiledStep ==
  ASSUME TypeOK, FileGrows, Profiled, NEW t \in Threads, Others(t), HasDump(t)',
         UNCHANGED <<copies, loaded, run>>, enabled' => enabled \/ HasPacket(Len(file))'
  PROVE  Profiled'
<1>1. \A u \in Threads : HasDump(u)'
  BY OtherDumpsStay DEF Profiled
<1>2. \A f \in Functions : LaidOut(f)'
  BY LayoutStays DEF Profiled
<1> QED
  BY <1>1, <1>2, LoadedStays DEF Profiled

LEMMA ProfiledNext ==
  ASSUME TypeOK, Gone, Profiled, [Next]_vars
  PROVE  Profiled'
<1>1. CASE EndsRun
  <2>1. /\ \A f \in Functions : Len(copies'[f]) = 0
        /\ ~enabled' /\ loaded' = 0
        /\ \A t \in Threads : threads'[t].step = "code"
    BY <1>1, EndsMean
  <2> QED
    BY <2>1 DEF Profiled, LaidOut, HasDump
<1>2. ASSUME NEW f \in Functions, Compile(f) PROVE Profiled'
  <2>1. Compiles(f, 0) /\ 0 \in Nat /\ UNCHANGED <<enabled, file, run, threads>>
    BY <1>2 DEF Compile
  <2>2. \A t \in Threads : HasDump(t)'
    BY <2>1 DEF Profiled, HasDump
  <2> QED
    BY <2>1, <2>2, CompileReads DEF Profiled
<1>3. CASE RunMain
  <2>1. UNCHANGED <<copies, enabled, loaded, file, threads, run>>
    BY <1>3 DEF RunMain
  <2> QED
    BY <2>1 DEF Profiled, LaidOut, HasDump, HasPacket
<1>4. CASE Restart
  <2>1. Fresh(copies, mapping, counter, enabled, loaded, threads)
    BY <1>4 DEF Restart, Gone
  <2>2. UNCHANGED <<copies, enabled, loaded, threads>>
    BY <1>4 DEF Restart
  <2>3. /\ \A f \in Functions : Len(copies[f]) = 0
        /\ ~enabled /\ loaded = 0
        /\ \A t \in Threads : threads[t].step = "code"
    BY <2>1, FreshMeans
  <2> QED
    BY <2>2, <2>3 DEF Profiled, LaidOut, HasDump
<1>5. CASE UNCHANGED vars
  BY <1>5 DEF vars, Profiled, LaidOut, HasDump, HasPacket
<1>6. ASSUME NEW t \in Threads,
             (\E f \in Functions : Call(t, f)) \/ (\E tr \in Trampolines : EnterLoop(t, tr)) \/ Return(t)
      PROVE  Profiled'
  <2>1. Others(t) /\ threads'[t].step \in {"code", "load"}
    BY <1>6, CodeEffects
  <2>2. UNCHANGED <<copies, enabled, loaded, file, run>>
    BY <1>6 DEF Call, EnterLoop, Return
  <2>3. HasDump(t)'
    BY <2>1 DEF HasDump
  <2>4. FileGrows
    BY <2>2, FileStays
  <2> QED
    BY <2>1, <2>2, <2>3, <2>4, ProfiledStep
<1>7. ASSUME NEW t \in Threads, Load(t) \/ Store(t) \/ Fetch(t) \/ Unmap(t) \/ Link(t)
      PROVE  Profiled'
  <2>1. UNCHANGED <<copies, enabled, loaded, file, run>>
    BY <1>7 DEF Load, Store, Fetch, Unmap, Link
  <2>2. FileGrows
    BY <2>1, FileStays
  <2>3. Others(t) /\ threads'[t].step # "dumping"
    BY <1>7, TrampolineEffects DEF GoesOn, Reports, BackToCode
  <2>4. HasDump(t)'
    BY <2>3 DEF HasDump
  <2> QED
    BY <2>1, <2>2, <2>3, <2>4, ProfiledStep
<1>8. ASSUME NEW t \in Threads, BeginDump(t) PROVE Profiled'
  <2>1. FileGrows /\ Len(file') = Len(file) + 1 /\ file'[Len(file) + 1].run = run
    BY <1>8, BeginDumpGrows
  <2>2. UNCHANGED <<copies, enabled, loaded, run>>
    BY <1>8 DEF BeginDump
  <2>3. Others(t) /\ threads'[t].dump = Len(file) + 1
    BY <1>8, TrampolineEffects DEF GoesOn
  <2>4. HasDump(t)'
    <3>1. Len(file) \in Nat
      BY DEF TypeOK
    <3> QED
      BY <2>1, <2>2, <2>3, <3>1 DEF HasDump
  <2> QED
    BY <2>1, <2>2, <2>3, <2>4, ProfiledStep
<1>9. ASSUME NEW t \in Threads, EndDump(t) PROVE Profiled'
  <2>1. FileGrows
    BY <1>9, EndDumpGrows
  <2>2. UNCHANGED <<copies, loaded, run>> /\ threads[t].step = "dumping"
    BY <1>9 DEF EndDump, Step
  <2>3. Others(t) /\ threads'[t].step # "dumping"
    BY <1>9, TrampolineEffects DEF GoesOn
  <2>4. HasDump(t)'
    BY <2>3 DEF HasDump
  <2>5. HasPacket(Len(file))'
    <3>1. threads[t].dump \in 1..Len(file) /\ file[threads[t].dump].run = run
      BY <2>2 DEF Profiled, HasDump
    <3>2. Len(file') = Len(file) /\ file'[threads[t].dump].run = run'
      BY <1>9, <2>1, <2>2, <3>1, EndDumpGrows DEF FileGrows
    <3> QED
      BY <3>1, <3>2 DEF HasPacket
  <2> QED
    BY <2>1, <2>2, <2>3, <2>4, <2>5, ProfiledStep
<1>10. ASSUME NEW t \in Threads, Recompile(t) PROVE Profiled'
  <2>1. /\ Compiles(Target(t), threads[t].dump) /\ UNCHANGED <<enabled, file, run>>
        /\ threads[t].step = "compile"
    BY <1>10 DEF Recompile, Step
  <2>2. Target(t) \in Functions /\ threads[t].dump \in Nat
    BY ContextOf
  <2>3. /\ loaded' # 0 => HasPacket(loaded)'
        /\ enabled' => HasPacket(Len(file))'
        /\ \A g \in Functions : LaidOut(g)'
    BY <2>1, <2>2, CompileReads
  <2>4. Others(t) /\ threads'[t].step # "dumping"
    BY <1>10, TrampolineEffects DEF GoesOn, Reports, BackToCode
  <2>5. FileGrows
    BY <2>1, FileStays
  <2>6. HasDump(t)' /\ \A u \in Threads \ {t} : HasDump(u)'
    BY <2>1, <2>4, <2>5, OtherDumpsStay DEF Profiled, HasDump
  <2> QED
    BY <2>3, <2>6 DEF Profiled
<1>11. ASSUME NEW t \in Threads, Patch(t) PROVE Profiled'
  <2>1. UNCHANGED <<enabled, loaded, file, run>>
    BY <1>11 DEF Patch
  <2>2. Others(t) /\ threads'[t].step = "code"
    BY <1>11, TrampolineEffects DEF BackToCode
  <2>3. FileGrows
    BY <2>1, FileStays
  <2>4. \A u \in Threads : HasDump(u)'
    BY <2>1, <2>2, <2>3, OtherDumpsStay DEF Profiled, HasDump
  <2>5. ASSUME NEW f \in Functions PROVE LaidOut(f)'
    <3>1. CASE f # Target(t)
      BY <1>11, <2>1, <2>3, <3>1, PatchWrites, LayoutStays DEF Profiled
    <3>2. CASE f = Target(t)
      <4>1. /\ Len(copies'[f]) = Len(copies[f])
            /\ \A n \in 1..Len(copies[f]) :
                 copies'[f][n] = IF n = threads[t].old
                   THEN [copies[f][n] EXCEPT !.next = threads[t].new] ELSE copies[f][n]
        BY <1>11, <3>2, PatchWrites
      <4>2. \A n \in 1..Len(copies[f]) : copies[f][n] \in Copies
        <5>1. copies[f] \in Seq(Copies)
          BY DEF TypeOK
        <5> QED
          BY <5>1
      <4>3. \A n \in 1..Len(copies[f]) :
              copies'[f][n].powered = copies[f][n].powered /\ copies'[f][n].profile = copies[f][n].profile
        BY <4>1, <4>2 DEF Copies
      <4> QED
        BY <2>1, <4>1, <4>3 DEF Profiled, LaidOut, HasPacket
    <3> QED
      BY <3>1, <3>2
  <2> QED
    BY <2>1, <2>4, <2>5, LoadedStays, <2>3 DEF Profiled
<1>12. (\A t \in Threads : Quits(t) => EndsRun) /\ (Exit \/ Kill => EndsRun)
  BY Endings
<1> QED
  BY <1>1, <1>2, <1>3, <1>4, <1>5, <1>6, <1>7, <1>8, <1>9, <1>10, <1>11, <1>12
  DEF Next, Trampoline, Quits

(***************************************************************************)
(* Links                                                                   *)
(***************************************************************************)

(* Two threads are not at trampolines of one function that is not shared. *)
LEMMA DistinctTargets ==
  ASSUME TypeOK, Working, Apart, NEW t \in Threads, NEW u \in Threads, t # u,
         threads[t].step # "code", threads[u].step # "code", ~Shared(Target(t))
  PROVE  Target(t) # Target(u)
<1>1. /\ threads[t].frames # <<>> /\ Target(t) = Top(t)
      /\ threads[u].frames # <<>> /\ Target(u) = Top(u)
  BY DEF Working
<1>2. phase = "running"
  BY <1>1 DEF Apart
<1>3. threads[t].frames \in Seq(Functions) /\ threads[u].frames \in Seq(Functions)
  BY ContextOf
<1>4. Len(threads[t].frames) \in 1..Len(threads[t].frames)
      /\ Len(threads[u].frames) \in 1..Len(threads[u].frames)
  BY <1>1, <1>3, EmptySeq
<1>5. Top(t) \in Runs[t] /\ Top(u) \in Runs[u]
  BY <1>2, <1>4 DEF Apart, Top
<1>6. Target(t) = Target(u) => Shared(Target(t))
  BY <1>1, <1>5 DEF Shared
<1> QED
  BY <1>6

(* The copies of a function stay whole, or a thread's patch half done, if  *)
(* neither its copies nor its mapping change.                              *)
LEMMA WholeStays ==
  ASSUME NEW f \in Functions, copies'[f] = copies[f], mapping'[f] = mapping[f], Whole(f)
  PROVE  Whole(f)'
BY DEF Whole, Chain

LEMMA UnlinkedStays ==
  ASSUME NEW t \in Threads, threads'[t] = threads[t], Unlinked(t),
         copies'[Target(t)] = copies[Target(t)], mapping'[Target(t)] = mapping[Target(t)]
  PROVE  Unlinked(t)'
<1>1. Target(t)' = Target(t)
  BY DEF Target
<1> QED
  BY <1>1 DEF Unlinked, Chain

(* A thread outside InsertMessage's relinking has nothing half done. *)
LEMMA NothingHalfDone ==
  ASSUME NEW t \in Threads, threads'[t].step \notin {"fetch", "unmap", "compile", "link", "patch"}
  PROVE  Unlinked(t)'
BY DEF Unlinked

(* A step that changes no copy and no mapping. *)
LEMMA QuietLinked ==
  ASSUME Linked, UNCHANGED <<copies, mapping>>, NEW t \in Threads, Others(t),
         Relinks(t) /\ ~Shared(Target(t)) => Relinks(t)' /\ threads'[t].at = threads[t].at,
         ~Shared(Target(t))' => Unlinked(t)'
  PROVE  Linked'
<1>1. ASSUME NEW u \in Threads \ {t}, ~Shared(Target(u))' PROVE Unlinked(u)'
  <2>1. Target(u)' = Target(u) /\ threads'[u] = threads[u]
    BY DEF Target, Others
  <2>2. ~Shared(Target(u))
    BY <1>1, <2>1 DEF Shared
  <2> QED
    BY <2>1, <2>2, UnlinkedStays DEF Linked
<1>2. ASSUME NEW f \in Functions, ~Shared(f), \A u \in Threads : ~(Relinks(u)' /\ Target(u)' = f)
      PROVE  Whole(f)'
  <2>1. \A u \in Threads : ~(Relinks(u) /\ Target(u) = f)
    BY <1>2 DEF Others, Relinks, Target
  <2> QED
    BY <1>2, <2>1, WholeStays DEF Linked
<1>3. \A f : Shared(f)' <=> Shared(f)
  BY DEF Shared
<1> QED
  BY <1>1, <1>2, <1>3 DEF Linked

(* A step of t at a trampoline of f that touches the copies or the mapping *)
(* of f only: nothing changes for the other functions.                     *)
LEMMA OthersLinked ==
  ASSUME TypeOK, Working, Apart, Linked, NEW t \in Threads, threads[t].step # "code", Others(t),
         NEW f \in Functions, f = Target(t),
         \A g \in Functions : g # f => copies'[g] = copies[g] /\ mapping'[g] = mapping[g],
         ~Shared(f) => Unlinked(t)' /\ (Whole(f)' \/ (Relinks(t)' /\ threads'[t].at = threads[t].at)),
         threads'[t].at = threads[t].at \/ threads'[t].step = "code"
  PROVE  Linked'
<1>1. \A g : Shared(g)' <=> Shared(g)
  BY DEF Shared
<1>2. ASSUME NEW u \in Threads \ {t}, ~Shared(Target(u))' PROVE Unlinked(u)'
  <2>1. threads'[u] = threads[u] /\ Target(u)' = Target(u)
    BY DEF Others, Target
  <2>2. CASE threads[u].step = "code"
    BY <2>1, <2>2, NothingHalfDone
  <2>3. CASE threads[u].step # "code"
    <3>1. ~Shared(Target(u))
      BY <1>1, <1>2, <2>1
    <3>2. Target(u) # Target(t) /\ Target(u) \in Functions
      BY <2>3, <3>1, DistinctTargets, ContextOf
    <3> QED
      BY <2>1, <3>1, <3>2, UnlinkedStays DEF Linked
  <2> QED
    BY <2>2, <2>3
<1>3. ~Shared(Target(t))' => Unlinked(t)'
  <2>1. CASE threads'[t].step = "code"
    BY <2>1, NothingHalfDone
  <2>2. CASE threads'[t].step # "code"
    <3>1. Target(t)' = f
      BY <2>2 DEF Target
    <3> QED
      BY <1>1, <3>1
  <2> QED
    BY <2>1, <2>2
<1>4. ASSUME NEW g \in Functions, ~Shared(g), \A u \in Threads : ~(Relinks(u)' /\ Target(u)' = g)
      PROVE  Whole(g)'
  <2>1. CASE g = f
    <3>1. ~(Relinks(t)' /\ threads'[t].at = threads[t].at)
      BY <1>4, <2>1 DEF Target
    <3> QED
      BY <1>4, <2>1, <3>1
  <2>2. CASE g # f
    <3>1. \A u \in Threads : ~(Relinks(u) /\ Target(u) = g)
      BY <1>4, <2>2 DEF Others, Relinks, Target
    <3> QED
      BY <1>4, <2>2, <3>1, WholeStays DEF Linked
  <2> QED
    BY <2>1, <2>2
<1> QED
  BY <1>1, <1>2, <1>3, <1>4 DEF Linked

LEMMA NobodyElse ==
  ASSUME TypeOK, Working, Apart, Linked, NEW t \in Threads,
         threads[t].step # "code", ~Relinks(t), ~Shared(Target(t))
  PROVE  Whole(Target(t))
<1>1. \A u \in Threads : ~(Relinks(u) /\ Target(u) = Target(t))
  BY DistinctTargets DEF Relinks
<1>2. Target(t) \in Functions
  BY ContextOf
<1> QED
  BY <1>1, <1>2 DEF Linked

(* A function that a thread reports has been compiled. *)
LEMMA ReportedCompiled ==
  ASSUME TypeOK, Working, NEW t \in Threads, threads[t].step # "code"
  PROVE  copies[Target(t)] # <<>> /\ Len(copies[Target(t)]) \in Nat \ {0}
<1>1. threads[t].frames # <<>> /\ Target(t) = Top(t) /\ threads[t].frames \in Seq(Functions)
  BY ContextOf DEF Working
<1>2. Len(threads[t].frames) \in 1..Len(threads[t].frames)
  BY <1>1, EmptySeq
<1>3. copies[Target(t)] # <<>>
  BY <1>1, <1>2 DEF TypeOK, Top
<1>4. copies[Target(t)] \in Seq(Copies)
  BY ContextOf DEF TypeOK
<1> QED
  BY <1>3, <1>4, EmptySeq

LEMMA EndDumpLinked ==
  ASSUME TypeOK, Working, Apart, Linked, NEW t \in Threads, EndDump(t)
  PROVE  Linked'
<1>1. UNCHANGED <<copies, mapping>> /\ threads[t].step = "dumping"
  BY DEF EndDump, Step
<1>2. /\ Others(t) /\ threads'[t].at = threads[t].at
      /\ threads'[t].step = IF mapping[Target(t)] = 0 THEN "fetch" ELSE "unmap"
      /\ threads'[t].old = mapping[Target(t)]
  BY TrampolineEffects DEF GoesOn
<1>3. Target(t)' = Target(t)
  BY <1>2 DEF Target
<1>4. ASSUME ~Shared(Target(t)) PROVE Unlinked(t)'
  <2>1. mapping[Target(t)] = Len(copies[Target(t)])
    BY <1>1, <1>4, NobodyElse DEF Relinks, Whole
  <2>2. threads'[t].step = "unmap"
    BY <1>1, <1>2, <2>1, ReportedCompiled
  <2> QED
    BY <1>1, <1>2, <1>3, <2>1, <2>2 DEF Unlinked
<1>5. ~Shared(Target(t))' => ~Shared(Target(t))
  BY <1>3 DEF Shared
<1> QED
  BY <1>1, <1>2, <1>4, <1>5, QuietLinked DEF Relinks

LEMMA FetchLinked ==
  ASSUME TypeOK, Working, Apart, Linked, NEW t \in Threads, Fetch(t)
  PROVE  Linked'
<1>1. UNCHANGED <<copies, mapping>> /\ threads[t].step = "fetch"
  BY DEF Fetch, Step
<1>2. Others(t) /\ (threads'[t].step = "code" \/ threads'[t].at = threads[t].at)
  BY TrampolineEffects DEF Reports, GoesOn, BackToCode
<1>3. Shared(Target(t))
  BY <1>1 DEF Linked, Unlinked
<1>4. ASSUME ~Shared(Target(t))' PROVE Unlinked(t)'
  <2>1. threads'[t].at # threads[t].at
    BY <1>3, <1>4 DEF Target, Shared
  <2> QED
    BY <1>2, <2>1, NothingHalfDone
<1> QED
  BY <1>1, <1>2, <1>3, <1>4, QuietLinked

LEMMA UnmapLinked ==
  ASSUME TypeOK, Working, Apart, Linked, NEW t \in Threads, Unmap(t)
  PROVE  Linked'
<1> DEFINE f == Target(t)
<1>1. f \in Functions /\ threads[t].step = "unmap"
  BY ContextOf DEF Unmap, Step
<1>2. /\ Others(t) /\ threads'[t].at = threads[t].at /\ threads'[t].step = "compile"
      /\ threads'[t].old = threads[t].old
  BY TrampolineEffects DEF Reports, GoesOn
<1>3. copies' = copies /\ mapping' = [mapping EXCEPT ![f] = 0]
  BY DEF Unmap
<1>4. mapping'[f] = 0 /\ \A g \in Functions : g # f => mapping'[g] = mapping[g]
  BY <1>1, <1>3 DEF TypeOK
<1>5. ~Shared(f) => Whole(f) /\ threads[t].old = Len(copies[f])
  BY <1>1, NobodyElse DEF Relinks, Linked, Unlinked
<1>6. ~Shared(f) => Unlinked(t)'
  BY <1>2, <1>3, <1>4, <1>5 DEF Unlinked, Whole, Chain, Target
<1>7. Relinks(t)'
  BY <1>2 DEF Relinks
<1> HIDE DEF f
<1>8. f = Target(t)
  BY DEF f
<1> QED
  BY <1>1, <1>2, <1>3, <1>4, <1>6, <1>7, <1>8, OthersLinked

LEMMA RecompileLinked ==
  ASSUME TypeOK, Working, Apart, Linked, NEW t \in Threads, Recompile(t),
         NEW f \in Functions, f = Target(t), NEW len \in Nat, len = Len(copies[f])
  PROVE  Linked'
<1>1. f \in Functions /\ threads[t].step = "compile" /\ threads[t].dump \in Nat /\ len \in Nat
  BY ContextOf DEF Recompile, Step, TypeOK
<1>2. IF threads[t].old = 0 THEN BackToCode(t) ELSE Reports(t, "link")
  BY TrampolineEffects
<1>3. Compiles(f, threads[t].dump)
  BY DEF Recompile
<1>4. /\ Len(copies'[f]) = len + 1
      /\ \A n \in 1..len : copies'[f][n] = copies[f][n]
      /\ copies'[f][Len(copies'[f])] = Copy(loaded', threads[t].dump)
      /\ \A g \in Functions : g # f => copies'[g] = copies[g]
      /\ mapping' = [mapping EXCEPT ![f] = len + 1]
  BY <1>1, <1>3, CompileGrows
<1>5. mapping'[f] = len + 1 /\ \A g \in Functions : g # f => mapping'[g] = mapping[g]
  BY <1>1, <1>4 DEF TypeOK
<1>6. ASSUME ~Shared(f)
      PROVE  Unlinked(t)' /\ Relinks(t)' /\ threads'[t].at = threads[t].at
  <2>1. threads[t].old = len /\ Chain(f, len) /\ len # 0
    BY <1>1, <1>6, ReportedCompiled DEF Linked, Unlinked
  <2>2. /\ threads'[t].at = threads[t].at /\ threads'[t].step = "link"
        /\ threads'[t].old = len
    BY <1>2, <2>1 DEF Reports, GoesOn
  <2>3. copies'[f][len + 1].next = 0 /\ len + 1 - 1 = len
    BY <1>1, <1>4 DEF Copy
  <2>4. \A n \in 1..len : IF n = len THEN copies'[f][n].next = 0 ELSE copies'[f][n].next \in n + 1..len
    BY <1>4, <2>1 DEF Chain
  <2>5. Owner[threads'[t].at] = f
    BY <2>2 DEF Target
  <2>6. /\ mapping'[Owner[threads'[t].at]] = Len(copies'[Owner[threads'[t].at]])
        /\ threads'[t].old = Len(copies'[Owner[threads'[t].at]]) - 1
        /\ copies'[Owner[threads'[t].at]][Len(copies'[Owner[threads'[t].at]])].next = 0
        /\ Len(copies'[Owner[threads'[t].at]]) - 1 = len
    BY <1>4, <1>5, <2>2, <2>3, <2>5
  <2>7. \A n \in 1..Len(copies'[Owner[threads'[t].at]]) - 1 :
          IF n = Len(copies'[Owner[threads'[t].at]]) - 1
          THEN copies'[Owner[threads'[t].at]][n].next = 0
          ELSE copies'[Owner[threads'[t].at]][n].next
                 \in n + 1..Len(copies'[Owner[threads'[t].at]]) - 1
    BY <2>4, <2>5, <2>6, Zenon
  <2>8. Unlinked(t)'
    BY <2>2, <2>6, <2>7, Zenon DEF Unlinked, Target, Chain
  <2> QED
    BY <2>2, <2>8 DEF Relinks
<1>7. Others(t) /\ (threads'[t].at = threads[t].at \/ threads'[t].step = "code")
  BY <1>2 DEF Reports, GoesOn, BackToCode
<1> QED
  BY <1>1, <1>4, <1>5, <1>6, <1>7, OthersLinked

LEMMA LinkLinked ==
  ASSUME TypeOK, Working, Apart, Linked, NEW t \in Threads, Link(t)
  PROVE  Linked'
<1>1. UNCHANGED <<copies, mapping>> /\ threads[t].step = "link"
  BY DEF Link, Step
<1>2. /\ Others(t) /\ threads'[t].at = threads[t].at /\ threads'[t].step = "patch"
      /\ threads'[t].old = threads[t].old /\ threads'[t].new = mapping[Target(t)]
  BY TrampolineEffects DEF Reports, GoesOn
<1>3. Target(t)' = Target(t) /\ (Shared(Target(t))' <=> Shared(Target(t)))
  BY <1>2 DEF Target, Shared
<1>4. ~Shared(Target(t)) => Unlinked(t)'
  BY <1>1, <1>2, <1>3 DEF Linked, Unlinked, Chain
<1>5. Relinks(t)'
  BY <1>2 DEF Relinks
<1> QED
  BY <1>1, <1>2, <1>3, <1>4, <1>5, QuietLinked

LEMMA PatchLinked ==
  ASSUME TypeOK, Working, Apart, Linked, NEW t \in Threads, Patch(t),
         NEW f \in Functions, f = Target(t), NEW len \in Nat, len = Len(copies[f])
  PROVE  Linked'
<1>1. f \in Functions /\ threads[t].step = "patch" /\ len \in Nat /\ copies[f] \in Seq(Copies)
  BY ContextOf DEF Patch, Step, TypeOK
<1>2. Others(t) /\ threads'[t].step = "code"
  BY TrampolineEffects DEF BackToCode
<1>3. /\ Len(copies'[f]) = len
      /\ \A g \in Functions : g # f => copies'[g] = copies[g]
      /\ \A n \in 1..len : copies'[f][n] = IF n = threads[t].old
           THEN [copies[f][n] EXCEPT !.next = threads[t].new] ELSE copies[f][n]
  BY <1>1, PatchWrites
<1>4. mapping' = mapping
  BY DEF Patch
<1>5. ASSUME ~Shared(f) PROVE Whole(f)'
  <2>1. /\ mapping[f] = len /\ threads[t].old = len - 1 /\ threads[t].new = len
        /\ Chain(f, len - 1) /\ copies[f][len].next = 0
    BY <1>1, <1>5 DEF Linked, Unlinked
  <2>2. \A n \in 1..len : copies[f][n] \in Copies
    BY <1>1
  <2>3. \A n \in 1..len :
          copies'[f][n].next = IF n = len - 1 THEN len ELSE copies[f][n].next
    BY <1>3, <2>1, <2>2 DEF Copies
  <2>4. \A n \in 1..len - 1 : n # len - 1 => copies[f][n].next \in n + 1..len - 1
    BY <2>1 DEF Chain
  <2>5. ASSUME NEW n \in 1..len
        PROVE  IF n = len THEN copies'[f][n].next = 0 ELSE copies'[f][n].next \in n + 1..len
    <3>1. CASE n = len
      BY <1>1, <2>1, <2>3, <3>1
    <3>2. CASE n = len - 1
      <4>1. copies'[f][n].next = len
        BY <2>3, <3>2
      <4> QED
        BY <1>1, <3>2, <4>1
    <3>3. CASE n # len /\ n # len - 1
      <4>1. n \in 1..len - 1
        BY <1>1, <3>3
      <4>2. copies'[f][n].next = copies[f][n].next /\ copies[f][n].next \in n + 1..len - 1
        BY <2>3, <2>4, <3>3, <4>1
      <4> QED
        BY <1>1, <3>3, <4>2
    <3> QED
      BY <3>1, <3>2, <3>3
  <2> QED
    BY <1>3, <1>4, <2>1, <2>5 DEF Whole, Chain
<1>6. Unlinked(t)'
  BY <1>2, NothingHalfDone
<1> QED
  BY <1>1, <1>2, <1>3, <1>4, <1>5, <1>6, OthersLinked

(* Before main, outside the constructors, no thread is at a trampoline. *)
LEMMA NobodyReports ==
  ASSUME Working, Apart, NEW f \in Functions, Compile(f)
  PROVE  /\ threads' = threads /\ mapping[f] = 0 /\ Compiles(f, 0)
         /\ \A t \in Threads : threads[t].step = "code"
<1>1. /\ threads' = threads /\ threads[Main].frames = <<>> /\ mapping[f] = 0
      /\ phase \in {"constructing", "compiling"} /\ Compiles(f, 0)
  BY DEF Compile
<1>2. \A t \in Threads : threads[t].step = "code"
  BY <1>1 DEF Apart, Working
<1> QED
  BY <1>1, <1>2

LEMMA CompileLinked ==
  ASSUME TypeOK, Working, Apart, Linked, NEW f \in Functions, Compile(f)
  PROVE  Linked'
<1>1. /\ threads' = threads /\ mapping[f] = 0 /\ Compiles(f, 0)
      /\ \A t \in Threads : threads[t].step = "code"
  BY NobodyReports
<1>2. \A g : Shared(g)' <=> Shared(g)
  BY DEF Shared
<1>3. \A g \in Functions : ~Shared(g) => Whole(g)
  BY <1>1 DEF Linked, Relinks
<1>4. /\ Len(copies'[f]) = Len(copies[f]) + 1
      /\ copies'[f][Len(copies'[f])] = Copy(loaded', 0)
      /\ \A g \in Functions : g # f => copies'[g] = copies[g]
      /\ mapping' = [mapping EXCEPT ![f] = Len(copies[f]) + 1]
  BY <1>1, CompileGrows
<1>5. mapping'[f] = Len(copies[f]) + 1 /\ \A g \in Functions : g # f => mapping'[g] = mapping[g]
  BY <1>4 DEF TypeOK
<1>6. ASSUME ~Shared(f) PROVE Whole(f)'
  <2>1. Len(copies[f]) = 0
    BY <1>1, <1>3, <1>6 DEF Whole
  <2>2. Len(copies'[f]) = 1 /\ mapping'[f] = 1 /\ copies'[f][1].next = 0
    BY <1>4, <1>5, <2>1 DEF Copy
  <2> QED
    BY <2>2 DEF Whole, Chain
<1>7. \A g \in Functions : g # f /\ ~Shared(g) => Whole(g)'
  BY <1>3, <1>4, <1>5, WholeStays
<1>8. \A t \in Threads : Unlinked(t)'
  BY <1>1, NothingHalfDone
<1> QED
  BY <1>2, <1>6, <1>7, <1>8 DEF Linked

LEMMA LinkedNext ==
  ASSUME TypeOK, Working, Apart, Linked, [Next]_vars
  PROVE  Linked'
<1>1. CASE EndsRun
  <2>1. /\ \A f \in Functions : Len(copies'[f]) = 0 /\ mapping'[f] = 0
        /\ \A t \in Threads : threads'[t].step = "code"
    BY <1>1, EndsMean
  <2>2. \A f \in Functions : Whole(f)'
    BY <2>1 DEF Whole, Chain
  <2>3. \A t \in Threads : Unlinked(t)'
    BY <2>1, NothingHalfDone
  <2> QED
    BY <2>2, <2>3 DEF Linked
<1>2. CASE UNCHANGED <<copies, mapping, threads>>
  BY <1>2 DEF Linked, Relinks, Target, Shared, Whole, Chain, Unlinked
<1>3. RunMain \/ Restart \/ UNCHANGED vars => UNCHANGED <<copies, mapping, threads>>
  BY DEF RunMain, Restart, vars
<1>4. ASSUME NEW t \in Threads,
             (\E f \in Functions : Call(t, f)) \/ (\E tr \in Trampolines : EnterLoop(t, tr))
               \/ Return(t) \/ Load(t) \/ Store(t) \/ BeginDump(t)
      PROVE  Linked'
  <2>1. UNCHANGED <<copies, mapping>>
    BY <1>4 DEF Call, EnterLoop, Return, Load, Store, BeginDump
  <2>2. threads[t].step \in {"code", "load", "store", "message"}
    BY <1>4 DEF Call, MayCall, EnterLoop, Return, Load, Store, BeginDump, Step
  <2>3. Others(t) /\ threads'[t].step \in {"code", "load", "store", "message", "dumping"}
    BY <1>4, CodeEffects, TrampolineEffects DEF GoesOn, BackToCode
  <2>4. Unlinked(t)'
    BY <2>3, NothingHalfDone
  <2> QED
    BY <2>1, <2>2, <2>3, <2>4, QuietLinked DEF Relinks
<1>5. ASSUME NEW t \in Threads, Recompile(t) \/ Patch(t) PROVE Linked'
  <2>1. Target(t) \in Functions
    BY ContextOf
  <2>2. Len(copies[Target(t)]) \in Nat
    BY <2>1 DEF TypeOK
  <2> QED
    BY <1>5, <2>1, <2>2, RecompileLinked, PatchLinked
<1>6. ASSUME NEW t \in Threads, EndDump(t) \/ Fetch(t) \/ Unmap(t) \/ Link(t) PROVE Linked'
  BY <1>6, EndDumpLinked, FetchLinked, UnmapLinked, LinkLinked
<1>7. (\A t \in Threads : Quits(t) => EndsRun) /\ (Exit \/ Kill => EndsRun)
  BY Endings
<1> QED
  BY <1>1, <1>2, <1>3, <1>4, <1>5, <1>6, <1>7, CompileLinked DEF Next, Trampoline, Quits

(***************************************************************************)
(* Jumps                                                                   *)
(***************************************************************************)

LEMMA ForwardStays ==
  ASSUME NEW f \in Functions, Forward(f), copies'[f] = copies[f], mapping'[f] = mapping[f],
         \A u \in Threads : threads[u].step = "compile" /\ Target(u) = f => threads'[u] = threads[u]
  PROVE  Forward(f)'
<1>1. CASE mapping[f] = Len(copies[f])
  BY <1>1 DEF Forward
<1>2. ASSUME NEW u \in Threads, mapping[f] = 0, threads[u].step = "compile", Target(u) = f
      PROVE  Forward(f)'
  <2>1. threads'[u].step = "compile" /\ Target(u)' = f
    BY <1>2 DEF Target
  <2> QED
    BY <1>2, <2>1 DEF Forward
<1> QED
  BY <1>1, <1>2 DEF Forward

(* The copies grow, and no new mapping is that of a first copy. *)
LEMMA PlacedStays ==
  ASSUME TypeOK, NEW u \in Threads, Placed(u), threads'[u] = threads[u],
         Len(copies'[Target(u)]) \in Nat, Len(copies'[Target(u)]) >= Len(copies[Target(u)]),
         mapping'[Target(u)] = mapping[Target(u)] \/ mapping'[Target(u)] # 1
  PROVE  Placed(u)'
<1>1. Target(u)' = Target(u)
  BY DEF Target
<1>2. copies[Target(u)] \in Seq(Copies) /\ threads[u].old \in Nat /\ threads[u].new \in Nat
  BY ContextOf DEF TypeOK
<1> DEFINE len == Len(copies[Target(u)])
           grown == Len(copies'[Target(u)])
<1>3. len \in Nat /\ grown \in Nat /\ grown >= len
  BY <1>2
<1>4. 1..len \subseteq 1..grown /\ 0..len \subseteq 0..grown /\ 1..len - 1 \subseteq 1..grown - 1
      /\ threads[u].old + 1..len \subseteq threads[u].old + 1..grown
  BY <1>2, <1>3
<1> QED
  BY <1>1, <1>4 DEF Placed

LEMMA NothingPlaced ==
  ASSUME NEW t \in Threads, threads'[t].step \notin {"fetch", "unmap", "compile", "link", "patch"}
  PROVE  Placed(t)'
BY DEF Placed

(* A step that changes no copy and no mapping. *)
LEMMA QuietJumps ==
  ASSUME TypeOK, Jumps, UNCHANGED <<copies, mapping>>, NEW t \in Threads, Others(t),
         threads[t].step # "compile", Placed(t)'
  PROVE  Jumps'
<1>1. \A f \in Functions : Forward(f)'
  BY ForwardStays DEF Jumps, Others
<1>2. \A f \in Functions : Len(copies[f]) \in Nat
  BY DEF TypeOK
<1>3. ASSUME NEW u \in Threads \ {t} PROVE Placed(u)'
  BY <1>2, ContextOf, PlacedStays DEF Jumps, Others
<1> QED
  BY <1>1, <1>3 DEF Jumps

(* A step of t that touches the copies or the mapping of its function only. *)
LEMMA OwnJumps ==
  ASSUME TypeOK, Jumps, NEW t \in Threads, Others(t), NEW f \in Functions, f = Target(t),
         \A g \in Functions : g # f => copies'[g] = copies[g] /\ mapping'[g] = mapping[g],
         Len(copies'[f]) \in Nat, Len(copies'[f]) >= Len(copies[f]),
         mapping'[f] = mapping[f] \/ mapping'[f] # 1,
         Forward(f)', Placed(t)'
  PROVE  Jumps'
<1>1. ASSUME NEW g \in Functions, g # f PROVE Forward(g)'
  BY <1>1, ForwardStays DEF Jumps, Others
<1>2. \A g \in Functions : Len(copies[g]) \in Nat
  BY DEF TypeOK
<1>3. ASSUME NEW u \in Threads \ {t} PROVE Placed(u)'
  <2>1. Target(u) \in Functions
    BY ContextOf
  <2>2. /\ Len(copies'[Target(u)]) \in Nat /\ Len(copies'[Target(u)]) >= Len(copies[Target(u)])
        /\ mapping'[Target(u)] = mapping[Target(u)] \/ mapping'[Target(u)] # 1
    BY <1>2, <2>1
  <2> QED
    BY <2>2, PlacedStays DEF Jumps, Others
<1> QED
  BY <1>1, <1>3 DEF Jumps

LEMMA EndDumpJumps ==
  ASSUME TypeOK, Working, Jumps, NEW t \in Threads, EndDump(t)
  PROVE  Jumps'
<1>1. UNCHANGED <<copies, mapping>> /\ threads[t].step = "dumping"
  BY DEF EndDump, Step
<1>2. /\ Others(t) /\ threads'[t].at = threads[t].at
      /\ threads'[t].step = IF mapping[Target(t)] = 0 THEN "fetch" ELSE "unmap"
      /\ threads'[t].old = mapping[Target(t)]
  BY TrampolineEffects DEF GoesOn
<1>3. Target(t)' = Target(t) /\ Target(t) \in Functions
  BY <1>2, ContextOf DEF Target
<1>4. mapping[Target(t)] \in 0..Len(copies[Target(t)]) /\ Len(copies[Target(t)]) \in Nat
  BY <1>3 DEF TypeOK
<1>5. Placed(t)'
  BY <1>1, <1>2, <1>3, <1>4 DEF Placed
<1> QED
  BY <1>1, <1>2, <1>5, QuietJumps

LEMMA FetchJumps ==
  ASSUME TypeOK, Jumps, NEW t \in Threads, Fetch(t)
  PROVE  Jumps'
<1>1. UNCHANGED <<copies, mapping>> /\ threads[t].step = "fetch"
  BY DEF Fetch, Step
<1>2. Others(t) /\ (BackToCode(t) \/ Reports(t, "compile"))
  BY TrampolineEffects DEF Reports, GoesOn, BackToCode
<1>3. CASE BackToCode(t)
  BY <1>1, <1>2, <1>3, NothingPlaced, QuietJumps DEF BackToCode
<1>4. CASE Reports(t, "compile")
  <2>1. Target(t)' = Target(t) /\ threads'[t].old = threads[t].old /\ threads'[t].step = "compile"
    BY <1>4 DEF Reports, GoesOn, Target
  <2>2. Placed(t)'
    BY <1>1, <2>1 DEF Jumps, Placed
  <2> QED
    BY <1>1, <1>2, <2>2, QuietJumps
<1> QED
  BY <1>2, <1>3, <1>4

LEMMA UnmapJumps ==
  ASSUME TypeOK, Jumps, NEW t \in Threads, Unmap(t), NEW f \in Functions, f = Target(t)
  PROVE  Jumps'
<1>1. threads[t].step = "unmap" /\ copies' = copies /\ mapping' = [mapping EXCEPT ![f] = 0]
  BY DEF Unmap, Step
<1>2. /\ Others(t) /\ threads'[t].at = threads[t].at /\ threads'[t].step = "compile"
      /\ threads'[t].old = threads[t].old
  BY TrampolineEffects DEF Reports, GoesOn
<1>3. mapping'[f] = 0 /\ \A g \in Functions : g # f => mapping'[g] = mapping[g]
  BY <1>1 DEF TypeOK
<1>4. Target(t)' = f /\ Len(copies[f]) \in Nat
  BY <1>2 DEF Target, TypeOK
<1>5. Placed(t)'
  BY <1>1, <1>2, <1>3, <1>4 DEF Jumps, Placed
<1>6. Forward(f)'
  BY <1>1, <1>2, <1>3, <1>4 DEF Jumps, Forward
<1> QED
  BY <1>1, <1>2, <1>3, <1>4, <1>5, <1>6, OwnJumps

LEMMA RecompileJumps ==
  ASSUME TypeOK, Working, Jumps, NEW t \in Threads, Recompile(t),
         NEW f \in Functions, f = Target(t), NEW len \in Nat, len = Len(copies[f])
  PROVE  Jumps'
<1>1. threads[t].step = "compile" /\ threads[t].dump \in Nat /\ Compiles(f, threads[t].dump)
      /\ len # 0 /\ threads[t].old \in 0..len
  BY ContextOf, ReportedCompiled DEF Recompile, Step, Jumps, Placed
<1>2. IF threads[t].old = 0 THEN BackToCode(t) ELSE Reports(t, "link")
  BY TrampolineEffects
<1>3. /\ Len(copies'[f]) = len + 1
      /\ \A n \in 1..len : copies'[f][n] = copies[f][n]
      /\ copies'[f][Len(copies'[f])] = Copy(loaded', threads[t].dump)
      /\ \A g \in Functions : g # f => copies'[g] = copies[g]
      /\ mapping' = [mapping EXCEPT ![f] = len + 1]
  BY <1>1, CompileGrows
<1>4. mapping'[f] = len + 1 /\ \A g \in Functions : g # f => mapping'[g] = mapping[g]
  BY <1>3 DEF TypeOK
<1>5. copies'[f][len + 1].next = 0
  BY <1>3 DEF Copy
<1>6. \A n \in 1..len : copies[f][n].next = 0 \/ copies[f][n].next \in n + 1..len
  BY DEF Jumps, Forward
<1>7. ASSUME NEW n \in 1..len + 1
      PROVE  copies'[f][n].next = 0 \/ copies'[f][n].next \in n + 1..len + 1
  <2>1. n = len + 1 \/ n \in 1..len
    OBVIOUS
  <2>2. ASSUME n \in 1..len PROVE copies'[f][n].next = 0 \/ copies'[f][n].next \in n + 1..len + 1
    <3>1. copies'[f][n].next = copies[f][n].next
      BY <1>3, <2>2
    <3>2. n + 1..len \subseteq n + 1..len + 1
      OBVIOUS
    <3> QED
      BY <1>6, <2>2, <3>1, <3>2
  <2> QED
    BY <1>5, <2>1, <2>2
<1>8. Forward(f)'
  BY <1>3, <1>4, <1>7 DEF Forward
<1>9. Others(t) /\ Placed(t)'
  <2>1. CASE BackToCode(t)
    BY <2>1, NothingPlaced DEF BackToCode
  <2>2. CASE threads[t].old # 0 /\ Reports(t, "link")
    <3>1. Target(t)' = f /\ threads'[t].old = threads[t].old /\ threads'[t].step = "link" /\ Others(t)
      BY <2>2 DEF Reports, GoesOn, Target
    <3>2. threads'[t].old \in 1..Len(copies'[f]) - 1
      BY <1>1, <1>3, <2>2, <3>1
    <3> QED
      BY <3>1, <3>2 DEF Placed
  <2> QED
    BY <1>2, <2>1, <2>2
<1>10. Len(copies'[f]) \in Nat /\ Len(copies'[f]) >= Len(copies[f]) /\ mapping'[f] # 1
  BY <1>1, <1>3, <1>4
<1> QED
  BY <1>3, <1>4, <1>8, <1>9, <1>10, OwnJumps

LEMMA LinkJumps ==
  ASSUME TypeOK, Jumps, NEW t \in Threads, Link(t), NEW f \in Functions, f = Target(t)
  PROVE  Jumps'
<1>1. UNCHANGED <<copies, mapping>> /\ threads[t].step = "link" /\ mapping[f] # 0
  BY DEF Link, Step
<1>2. /\ Others(t) /\ threads'[t].at = threads[t].at /\ threads'[t].step = "patch"
      /\ threads'[t].old = threads[t].old /\ threads'[t].new = mapping[f]
  BY TrampolineEffects DEF Reports, GoesOn
<1>3. Target(t)' = f /\ Len(copies[f]) \in Nat
  BY <1>2 DEF Target, TypeOK
<1>4. mapping[f] = Len(copies[f]) /\ threads[t].old \in 1..Len(copies[f]) - 1
  BY <1>1 DEF Jumps, Forward, Placed
<1>5. Placed(t)'
  BY <1>1, <1>2, <1>3, <1>4 DEF Placed
<1> QED
  BY <1>1, <1>2, <1>5, QuietJumps

LEMMA PatchJumps ==
  ASSUME TypeOK, Jumps, NEW t \in Threads, Patch(t),
         NEW f \in Functions, f = Target(t), NEW len \in Nat, len = Len(copies[f])
  PROVE  Jumps'
<1>1. threads[t].step = "patch" /\ mapping' = mapping /\ copies[f] \in Seq(Copies)
  BY DEF Patch, Step, TypeOK
<1>2. Others(t) /\ threads'[t].step = "code"
  BY TrampolineEffects DEF BackToCode
<1>3. /\ Len(copies'[f]) = len
      /\ \A g \in Functions : g # f => copies'[g] = copies[g]
      /\ \A n \in 1..len : copies'[f][n] = IF n = threads[t].old
           THEN [copies[f][n] EXCEPT !.next = threads[t].new] ELSE copies[f][n]
  BY PatchWrites
<1>4. \A n \in 1..len : copies[f][n] \in Copies
  BY <1>1
<1>5. \A n \in 1..len :
        copies'[f][n].next = IF n = threads[t].old THEN threads[t].new ELSE copies[f][n].next
  BY <1>3, <1>4 DEF Copies
<1>6. threads[t].new \in threads[t].old + 1..len
  BY <1>1 DEF Jumps, Placed
<1>7. \A n \in 1..len : copies'[f][n].next = 0 \/ copies'[f][n].next \in n + 1..len
  BY <1>5, <1>6 DEF Jumps, Forward
<1>8. \/ mapping[f] = len
      \/ mapping[f] = 0 /\ \E u \in Threads : threads'[u].step = "compile" /\ Target(u)' = f
  BY <1>1, <1>2 DEF Jumps, Forward, Others, Target
<1>9. Forward(f)'
  BY <1>1, <1>3, <1>7, <1>8 DEF Forward
<1> QED
  BY <1>1, <1>2, <1>3, <1>9, NothingPlaced, OwnJumps

LEMMA CompileJumps ==
  ASSUME TypeOK, Working, Apart, Jumps, NEW f \in Functions, Compile(f)
  PROVE  Jumps'
<1>1. /\ threads' = threads /\ mapping[f] = 0 /\ Compiles(f, 0) /\ 0 \in Nat
      /\ \A t \in Threads : threads[t].step = "code"
  BY NobodyReports
<1>2. Len(copies[f]) = 0
  BY <1>1 DEF Jumps, Forward
<1>3. /\ Len(copies'[f]) = Len(copies[f]) + 1
      /\ copies'[f][Len(copies'[f])] = Copy(loaded', 0)
      /\ \A g \in Functions : g # f => copies'[g] = copies[g]
      /\ mapping' = [mapping EXCEPT ![f] = Len(copies[f]) + 1]
  BY <1>1, CompileGrows
<1>4. /\ mapping'[f] = 1 /\ Len(copies'[f]) = 1 /\ copies'[f][1].next = 0
      /\ \A g \in Functions : g # f => mapping'[g] = mapping[g]
  BY <1>2, <1>3 DEF TypeOK, Copy
<1>5. Forward(f)'
  BY <1>4 DEF Forward
<1>6. \A g \in Functions : g # f => Forward(g)'
  BY <1>1, <1>3, <1>4, ForwardStays DEF Jumps
<1>7. \A t \in Threads : Placed(t)'
  BY <1>1, NothingPlaced
<1> QED
  BY <1>5, <1>6, <1>7 DEF Jumps

LEMMA JumpsNext ==
  ASSUME TypeOK, Working, Apart, Jumps, [Next]_vars
  PROVE  Jumps'
<1>1. CASE EndsRun
  <2>1. /\ \A f \in Functions : Len(copies'[f]) = 0 /\ mapping'[f] = 0
        /\ \A t \in Threads : threads'[t].step = "code"
    BY <1>1, EndsMean
  <2>2. \A f \in Functions : Forward(f)'
    BY <2>1 DEF Forward
  <2>3. \A t \in Threads : Placed(t)'
    BY <2>1, NothingPlaced
  <2> QED
    BY <2>2, <2>3 DEF Jumps
<1>2. CASE UNCHANGED <<copies, mapping, threads>>
  BY <1>2 DEF Jumps, Forward, Placed, Target
<1>3. RunMain \/ Restart \/ UNCHANGED vars => UNCHANGED <<copies, mapping, threads>>
  BY DEF RunMain, Restart, vars
<1>4. ASSUME NEW t \in Threads,
             (\E f \in Functions : Call(t, f)) \/ (\E tr \in Trampolines : EnterLoop(t, tr))
               \/ Return(t) \/ Load(t) \/ Store(t) \/ BeginDump(t)
      PROVE  Jumps'
  <2>1. UNCHANGED <<copies, mapping>>
    BY <1>4 DEF Call, EnterLoop, Return, Load, Store, BeginDump
  <2>2. threads[t].step \in {"code", "load", "store", "message"}
    BY <1>4 DEF Call, MayCall, EnterLoop, Return, Load, Store, BeginDump, Step
  <2>3. Others(t) /\ threads'[t].step \in {"code", "load", "store", "message", "dumping"}
    BY <1>4, CodeEffects, TrampolineEffects DEF GoesOn, BackToCode
  <2>4. Placed(t)'
    BY <2>3, NothingPlaced
  <2> QED
    BY <2>1, <2>2, <2>3, <2>4, QuietJumps
<1>5. ASSUME NEW t \in Threads,
             EndDump(t) \/ Fetch(t) \/ Unmap(t) \/ Recompile(t) \/ Link(t) \/ Patch(t)
      PROVE  Jumps'
  <2>1. Target(t) \in Functions
    BY ContextOf
  <2>2. Len(copies[Target(t)]) \in Nat
    BY <2>1 DEF TypeOK
  <2> QED
    BY <1>5, <2>1, <2>2, EndDumpJumps, FetchJumps, UnmapJumps, RecompileJumps, LinkJumps, PatchJumps
<1>6. (\A t \in Threads : Quits(t) => EndsRun) /\ (Exit \/ Kill => EndsRun)
  BY Endings
<1> QED
  BY <1>1, <1>2, <1>3, <1>4, <1>5, <1>6, CompileJumps DEF Next, Trampoline, Quits

(***************************************************************************)
(* Warm functions                                                          *)
(***************************************************************************)

LEMMA EnablingNext ==
  ASSUME TypeOK, Enabling, [Next]_vars
  PROVE  Enabling'
<1>1. CASE EndsRun
  BY <1>1, EndsMean DEF Enabling
<1>2. (\E f \in Functions : Compile(f)) \/ RunMain \/ Restart \/ UNCHANGED vars
        => UNCHANGED <<threads, enabled>>
  BY DEF Compile, RunMain, Restart, vars
<1>3. CASE UNCHANGED <<threads, enabled>>
  BY <1>3 DEF Enabling
<1>4. ASSUME NEW t \in Threads, Others(t), enabled => enabled',
             threads'[t].step \in {"fetch", "unmap", "compile", "link", "patch"} => enabled'
      PROVE  Enabling'
  BY <1>4 DEF Enabling, Others
<1>5. ASSUME NEW t \in Threads,
             (\E f \in Functions : Call(t, f)) \/ (\E tr \in Trampolines : EnterLoop(t, tr))
               \/ Return(t) \/ Load(t) \/ Store(t) \/ BeginDump(t)
      PROVE  Enabling'
  <2>1. enabled' = enabled
    BY <1>5 DEF Call, EnterLoop, Return, Load, Store, BeginDump
  <2>2. Others(t) /\ threads'[t].step \in {"code", "load", "store", "message", "dumping"}
    BY <1>5, CodeEffects, TrampolineEffects DEF GoesOn, BackToCode
  <2> QED
    BY <1>4, <2>1, <2>2
<1>6. ASSUME NEW t \in Threads,
             EndDump(t) \/ Fetch(t) \/ Unmap(t) \/ Recompile(t) \/ Link(t) \/ Patch(t)
      PROVE  Enabling'
  <2>1. Others(t)
    BY <1>6, TrampolineEffects DEF Reports, GoesOn, BackToCode
  <2>2. enabled'
    BY <1>6 DEF Enabling, EndDump, Fetch, Unmap, Recompile, Link, Patch, Step
  <2> QED
    BY <1>4, <2>1, <2>2
<1>7. (\A t \in Threads : Quits(t) => EndsRun) /\ (Exit \/ Kill => EndsRun)
  BY Endings
<1> QED
  BY <1>1, <1>2, <1>3, <1>5, <1>6, <1>7 DEF Next, Trampoline, Quits

LEMMA PoweredStays ==
  ASSUME NEW f \in Functions, Powered(f), copies'[f] = copies[f], mapping'[f] = mapping[f],
         \A u \in Threads : Relinks(u) /\ Target(u) = f =>
           Relinks(u)' /\ Target(u)' = f /\ threads'[u].old = threads[u].old
  PROVE  Powered(f)'
BY DEF Powered

(* The copies of f change at t only. *)
LEMMA OwnPowered ==
  ASSUME NEW t \in Threads, Others(t), NEW f, f = Target(t), \A g \in Functions : Powered(g),
         \A g \in Functions : g # f => copies'[g] = copies[g] /\ mapping'[g] = mapping[g],
         Powered(f)'
  PROVE  \A g \in Functions : Powered(g)'
<1>1. ASSUME NEW g \in Functions, g # f PROVE Powered(g)'
  <2>1. \A u \in Threads : Relinks(u) /\ Target(u) = g =>
          Relinks(u)' /\ Target(u)' = g /\ threads'[u].old = threads[u].old
    BY <1>1 DEF Others, Relinks, Target
  <2> QED
    BY <1>1, <2>1, PoweredStays
<1> QED
  BY <1>1

LEMMA UnmapPowered ==
  ASSUME TypeOK, Jumps, \A g \in Functions : Powered(g), NEW t \in Threads, Unmap(t),
         NEW f \in Functions, f = Target(t)
  PROVE  \A g \in Functions : Powered(g)'
<1>1. threads[t].step = "unmap" /\ copies' = copies /\ mapping' = [mapping EXCEPT ![f] = 0]
  BY DEF Unmap, Step
<1>2. /\ Others(t) /\ threads'[t].at = threads[t].at /\ threads'[t].step = "compile"
      /\ threads'[t].old = threads[t].old
  BY TrampolineEffects DEF Reports, GoesOn
<1>3. \A g \in Functions : g # f => mapping'[g] = mapping[g]
  BY <1>1 DEF TypeOK
<1>4. Target(t)' = f /\ Relinks(t)'
  BY <1>2 DEF Target, Relinks
<1>5. mapping[f] = 1 => threads[t].old = 1
  BY <1>1 DEF Jumps, Forward, Placed
<1>6. \A u \in Threads : Relinks(u) => Relinks(u)' /\ Target(u)' = Target(u) /\ threads'[u].old = threads[u].old
  BY <1>1, <1>2 DEF Others, Relinks, Target
<1>7. Powered(f)'
  BY <1>1, <1>2, <1>4, <1>5, <1>6 DEF Powered
<1> QED
  BY <1>1, <1>2, <1>3, <1>7, OwnPowered

LEMMA RecompilePowered ==
  ASSUME TypeOK, Working, Enabling, Jumps, \A g \in Functions : Powered(g), NEW t \in Threads,
         Recompile(t), NEW f \in Functions, f = Target(t), NEW len \in Nat, len = Len(copies[f])
  PROVE  \A g \in Functions : Powered(g)'
<1>1. threads[t].step = "compile" /\ threads[t].dump \in Nat /\ Compiles(f, threads[t].dump)
      /\ len # 0 /\ enabled /\ mapping[f] # 1
  BY ContextOf, ReportedCompiled DEF Recompile, Step, Enabling, Jumps, Placed
<1>2. IF threads[t].old = 0 THEN BackToCode(t) ELSE Reports(t, "link")
  BY TrampolineEffects
<1>3. /\ Len(copies'[f]) = len + 1
      /\ \A n \in 1..len : copies'[f][n] = copies[f][n]
      /\ copies'[f][Len(copies'[f])] = Copy(loaded', threads[t].dump)
      /\ \A g \in Functions : g # f => copies'[g] = copies[g]
      /\ mapping' = [mapping EXCEPT ![f] = len + 1]
  BY <1>1, CompileGrows
<1>4. \A g \in Functions : g # f => mapping'[g] = mapping[g]
  BY <1>3 DEF TypeOK
<1>5. copies'[f][len + 1].powered
  BY <1>1, <1>3 DEF Copy
<1>6. \A n \in 1..len + 1 : n # 1 => copies'[f][n].powered
  <2>1. \A n \in 1..len + 1 : n = len + 1 \/ n \in 1..len
    OBVIOUS
  <2>2. \A n \in 1..len : n # 1 => copies'[f][n].powered
    BY <1>3 DEF Powered
  <2> QED
    BY <1>5, <2>1, <2>2
<1>7. copies'[f][1] = copies[f][1]
  BY <1>1, <1>3
<1>8. ASSUME ~copies[f][1].powered, copies[f][1].next = 0
      PROVE  \E u \in Threads : Relinks(u)' /\ Target(u)' = f /\ threads'[u].old = 1
  <2>1. PICK u \in Threads : Relinks(u) /\ Target(u) = f /\ threads[u].old = 1
    BY <1>1, <1>8 DEF Powered
  <2>2. CASE u = t
    BY <1>2, <2>1, <2>2 DEF Reports, GoesOn, Relinks, Target
  <2>3. CASE u # t
    BY <1>2, <2>1, <2>3 DEF Reports, GoesOn, BackToCode, Others, Relinks, Target
  <2> QED
    BY <2>2, <2>3
<1>9. Powered(f)'
  BY <1>3, <1>6, <1>7, <1>8 DEF Powered
<1>10. Others(t)
  BY <1>2 DEF Reports, GoesOn, BackToCode
<1> QED
  BY <1>3, <1>4, <1>9, <1>10, OwnPowered

LEMMA PatchPowered ==
  ASSUME TypeOK, Jumps, \A g \in Functions : Powered(g), NEW t \in Threads, Patch(t),
         NEW f \in Functions, f = Target(t), NEW len \in Nat, len = Len(copies[f])
  PROVE  \A g \in Functions : Powered(g)'
<1>1. threads[t].step = "patch" /\ mapping' = mapping /\ copies[f] \in Seq(Copies)
      /\ threads[t].old \in Nat
  BY ContextOf DEF Patch, Step, TypeOK
<1>2. Others(t) /\ threads'[t].step = "code"
  BY TrampolineEffects DEF BackToCode
<1>3. /\ Len(copies'[f]) = len
      /\ \A g \in Functions : g # f => copies'[g] = copies[g]
      /\ \A n \in 1..len : copies'[f][n] = IF n = threads[t].old
           THEN [copies[f][n] EXCEPT !.next = threads[t].new] ELSE copies[f][n]
  BY PatchWrites
<1>4. \A n \in 1..len : copies[f][n] \in Copies
  BY <1>1
<1>5. \A n \in 1..len :
        /\ copies'[f][n].next = IF n = threads[t].old THEN threads[t].new ELSE copies[f][n].next
        /\ copies'[f][n].powered = copies[f][n].powered
  BY <1>3, <1>4 DEF Copies
<1>6. threads[t].new # 0
  BY <1>1 DEF Jumps, Placed
<1>7. ASSUME len > 0, ~copies[f][1].powered, mapping[f] # 1, copies'[f][1].next = 0
      PROVE  \E u \in Threads : Relinks(u)' /\ Target(u)' = f /\ threads'[u].old = 1
  <2>1. threads[t].old # 1 /\ copies[f][1].next = 0
    BY <1>5, <1>6, <1>7
  <2>2. PICK u \in Threads : Relinks(u) /\ Target(u) = f /\ threads[u].old = 1
    BY <1>7, <2>1 DEF Powered
  <2>3. u # t
    BY <2>1, <2>2
  <2> QED
    BY <1>2, <2>2, <2>3 DEF Others, Relinks, Target
<1>8. Powered(f)'
  BY <1>1, <1>3, <1>5, <1>7 DEF Powered
<1> QED
  BY <1>1, <1>2, <1>3, <1>8, OwnPowered

LEMMA CompilePowered ==
  ASSUME TypeOK, Working, Apart, Jumps, \A g \in Functions : Powered(g),
         NEW f \in Functions, Compile(f)
  PROVE  \A g \in Functions : Powered(g)'
<1>1. /\ threads' = threads /\ mapping[f] = 0 /\ Compiles(f, 0) /\ 0 \in Nat
      /\ \A t \in Threads : threads[t].step = "code"
  BY NobodyReports
<1>2. Len(copies[f]) = 0
  BY <1>1 DEF Jumps, Forward
<1>3. /\ Len(copies'[f]) = Len(copies[f]) + 1
      /\ \A g \in Functions : g # f => copies'[g] = copies[g]
      /\ mapping' = [mapping EXCEPT ![f] = Len(copies[f]) + 1]
  BY <1>1, CompileGrows
<1>4. /\ Len(copies'[f]) = 1 /\ mapping'[f] = 1
      /\ \A g \in Functions : g # f => mapping'[g] = mapping[g]
  BY <1>2, <1>3 DEF TypeOK
<1>5. Powered(f)'
  BY <1>4 DEF Powered
<1>6. \A g \in Functions : g # f => Powered(g)'
  BY <1>1, <1>3, <1>4, PoweredStays DEF Relinks, Target
<1> QED
  BY <1>5, <1>6

LEMMA PoweredNext ==
  ASSUME TypeOK, Working, Apart, Enabling, Jumps, \A f \in Functions : Powered(f), [Next]_vars
  PROVE  \A f \in Functions : Powered(f)'
<1>1. CASE EndsRun
  BY <1>1, EndsMean DEF Powered
<1>2. CASE UNCHANGED <<copies, mapping, threads>>
  BY <1>2, PoweredStays DEF Relinks, Target
<1>3. RunMain \/ Restart \/ UNCHANGED vars => UNCHANGED <<copies, mapping, threads>>
  BY DEF RunMain, Restart, vars
<1>4. ASSUME NEW t \in Threads,
             (\E f \in Functions : Call(t, f)) \/ (\E tr \in Trampolines : EnterLoop(t, tr))
               \/ Return(t) \/ Load(t) \/ Store(t) \/ BeginDump(t) \/ EndDump(t) \/ Fetch(t)
      PROVE  \A f \in Functions : Powered(f)'
  <2>1. UNCHANGED <<copies, mapping>>
    BY <1>4 DEF Call, EnterLoop, Return, Load, Store, BeginDump, EndDump, Fetch
  <2>2. ~Relinks(t)
    BY <1>4 DEF Call, MayCall, EnterLoop, Return, Load, Store, BeginDump, EndDump, Fetch, Step, Relinks
  <2>3. Others(t)
    BY <1>4, CodeEffects, TrampolineEffects DEF Reports, GoesOn, BackToCode
  <2>4. \A u \in Threads : Relinks(u) =>
          Relinks(u)' /\ Target(u)' = Target(u) /\ threads'[u].old = threads[u].old
    BY <2>2, <2>3 DEF Others, Relinks, Target
  <2> QED
    BY <2>1, <2>4, PoweredStays
<1>5. ASSUME NEW t \in Threads, Link(t) PROVE \A f \in Functions : Powered(f)'
  <2>1. UNCHANGED <<copies, mapping>> /\ Reports(t, "patch")
    BY <1>5, TrampolineEffects DEF Link
  <2>2. \A u \in Threads : Relinks(u) =>
          Relinks(u)' /\ Target(u)' = Target(u) /\ threads'[u].old = threads[u].old
    BY <2>1 DEF Reports, GoesOn, Others, Relinks, Target
  <2> QED
    BY <2>1, <2>2, PoweredStays
<1>6. ASSUME NEW t \in Threads, Unmap(t) \/ Recompile(t) \/ Patch(t)
      PROVE  \A f \in Functions : Powered(f)'
  <2>1. Target(t) \in Functions
    BY ContextOf
  <2>2. Len(copies[Target(t)]) \in Nat
    BY <2>1 DEF TypeOK
  <2> QED
    BY <1>6, <2>1, <2>2, UnmapPowered, RecompilePowered, PatchPowered
<1>7. (\A t \in Threads : Quits(t) => EndsRun) /\ (Exit \/ Kill => EndsRun)
  BY Endings
<1> QED
  BY <1>1, <1>2, <1>3, <1>4, <1>5, <1>6, <1>7, CompilePowered DEF Next, Trampoline, Quits

(* Copies are only added, and a jump once set at the first stays set. *)
Grown(f) ==
  Len(copies[f]) > 0 =>
    /\ Len(copies'[f]) >= Len(copies[f])
    /\ copies'[f][1].powered <=> copies[f][1].powered
    /\ copies[f][1].next # 0 => copies'[f][1].next # 0

LEMMA HotStays ==
  ASSUME TypeOK, NEW f \in Functions, Grown(f), Hot(f)
  PROVE  Hot(f)'
<1>1. Len(copies[f]) \in Nat /\ Len(copies[f]) > 0
  BY DEF TypeOK, Hot
<1>2. /\ Len(copies'[f]) >= Len(copies[f])
      /\ copies'[f][1].powered <=> copies[f][1].powered
      /\ copies[f][1].next # 0 => copies'[f][1].next # 0
  BY <1>1 DEF Grown
<1> QED
  BY <1>1, <1>2 DEF Hot, Shared

LEMMA CompilesGrown ==
  ASSUME TypeOK, NEW f \in Functions, NEW dump \in Nat, Compiles(f, dump)
  PROVE  \A g \in Functions : Grown(g)
<1>1. /\ Len(copies'[f]) = Len(copies[f]) + 1
      /\ \A n \in 1..Len(copies[f]) : copies'[f][n] = copies[f][n]
      /\ \A g \in Functions : g # f => copies'[g] = copies[g]
  BY CompileGrows
<1>2. \A g \in Functions : Len(copies[g]) \in Nat
  BY DEF TypeOK
<1>3. Grown(f)
  BY <1>1, <1>2 DEF Grown
<1>4. \A g \in Functions : g # f => Grown(g)
  BY <1>1, <1>2 DEF Grown
<1> QED
  BY <1>3, <1>4

LEMMA PatchGrown ==
  ASSUME TypeOK, Jumps, NEW t \in Threads, Patch(t), NEW f \in Functions, f = Target(t)
  PROVE  /\ \A g \in Functions : Grown(g)
         /\ Len(copies'[f]) = Len(copies[f]) /\ Len(copies[f]) > 1
         /\ \A n \in 1..Len(copies[f]) :
              copies'[f][n].next = IF n = threads[t].old THEN threads[t].new ELSE copies[f][n].next
         /\ threads[t].new # 0
<1>1. threads[t].step = "patch" /\ copies[f] \in Seq(Copies) /\ threads[t].old \in Nat
  BY ContextOf DEF Patch, Step, TypeOK
<1>2. /\ \A g \in Functions : g # f => copies'[g] = copies[g]
      /\ \A g \in Functions : Len(copies'[g]) = Len(copies[g])
      /\ \A n \in 1..Len(copies[f]) : copies'[f][n] = IF n = threads[t].old
           THEN [copies[f][n] EXCEPT !.next = threads[t].new] ELSE copies[f][n]
  BY PatchWrites
<1>3. \A n \in 1..Len(copies[f]) : copies[f][n] \in Copies
  BY <1>1
<1>4. \A n \in 1..Len(copies[f]) :
        /\ copies'[f][n].next = IF n = threads[t].old THEN threads[t].new ELSE copies[f][n].next
        /\ copies'[f][n].powered = copies[f][n].powered
  BY <1>2, <1>3 DEF Copies
<1>5. threads[t].old \in 1..Len(copies[f]) - 1 /\ threads[t].new # 0
  BY <1>1 DEF Jumps, Placed
<1>6. \A g \in Functions : Len(copies[g]) \in Nat
  BY DEF TypeOK
<1>7. Grown(f)
  BY <1>2, <1>4, <1>5, <1>6 DEF Grown
<1>8. \A g \in Functions : g # f => Grown(g)
  BY <1>2, <1>6 DEF Grown
<1> QED
  BY <1>2, <1>4, <1>5, <1>6, <1>7, <1>8

LEMMA OwnerTyped == \A tr \in Trampolines : Owner[tr] \in Functions
BY OptimizationAssumption

(* A step of t: what it makes hot it reports, and what it has reported is hot. *)
LEMMA HeatStays ==
  ASSUME TypeOK, Heat, \A f \in Functions : Grown(f), NEW t \in Threads, Others(t),
         \A tr \in Trampolines : Heated(tr)' => Heated(tr) \/ Reporting(t, tr)',
         \A tr \in Trampolines : Reporting(t, tr) => Reporting(t, tr)' \/ Hot(Owner[tr])'
  PROVE  Heat'
<1> SUFFICES ASSUME NEW tr \in Trampolines, Heated(tr)'
             PROVE  Hot(Owner[tr])' \/ \E u \in Threads : Reporting(u, tr)'
  BY DEF Heat
<1>1. CASE Reporting(t, tr)'
  BY <1>1
<1>2. CASE Heated(tr)
  <2>1. CASE Hot(Owner[tr])
    BY <2>1, HotStays, OwnerTyped
  <2>2. ASSUME NEW u \in Threads, Reporting(u, tr) PROVE Hot(Owner[tr])' \/ Reporting(u, tr)'
    BY <2>2 DEF Others, Reporting
  <2> QED
    BY <1>2, <2>1, <2>2 DEF Heat
<1> QED
  BY <1>1, <1>2

LEMMA SameHeated ==
  ASSUME counter' = counter, NEW t \in Threads, Others(t), threads'[t].step # "store"
  PROVE  \A tr \in Trampolines : Heated(tr)' => Heated(tr)
BY DEF Heated, Reported, Others, Step

LEMMA StoreHeated ==
  ASSUME TypeOK, NEW t \in Threads, Store(t)
  PROVE  \A tr \in Trampolines : Heated(tr)' => Heated(tr) \/ Reporting(t, tr)'
<1> DEFINE at == threads[t].at
           reg == threads[t].reg
           result == (reg + CounterMod - 1) % CounterMod
<1>1. /\ Threshold \in Nat /\ CounterMod \in Nat /\ Threshold < CounterMod
      /\ at \in Trampolines /\ reg \in 0..CounterMod - 1
  <2>1. threads[t] \in Contexts
    BY ContextOf
  <2>2. PICK tr \in Trampolines : TRUE
    BY <2>1 DEF Contexts
  <2>3. MaxPast[tr] \in Nat /\ Threshold + MaxPast[tr] < CounterMod
        /\ Threshold \in Nat /\ CounterMod \in Nat
    BY OptimizationAssumption
  <2> QED
    BY <2>1, <2>3 DEF Contexts
<1>2. threads[t].step = "store" /\ counter' = [counter EXCEPT ![at] = result]
  BY DEF Store, Step
<1>3. /\ counter'[at] = result /\ \A tr \in Trampolines : tr # at => counter'[tr] = counter[tr]
  <2> HIDE DEF at, result
  <2> QED
    BY <1>1, <1>2 DEF TypeOK
<1>4. result = 0 => GoesOn(t, "message")
  <2>1. result = 0 => threads' = [threads EXCEPT ![t].step = "message", ![t].reg = 0]
    BY DEF Store
  <2>2. threads[t] \in Contexts
    BY ContextOf
  <2> HIDE DEF result
  <2> QED
    BY <2>1, <2>2 DEF GoesOn, Others, SameFrames, Contexts, TypeOK
<1>5. Others(t) /\ threads'[t].step # "store"
  BY TrampolineEffects DEF GoesOn, BackToCode
<1>6. result > Threshold => reg = 0 \/ reg > Threshold
  <2>1. ASSUME reg # 0 PROVE result = reg - 1
    <3>1. reg + CounterMod - 1 = CounterMod + (reg - 1) /\ reg - 1 \in 0..CounterMod - 1
      BY <1>1, <2>1
    <3> QED
      BY <1>1, <3>1
  <2> QED
    BY <1>1, <2>1
<1>7. ASSUME NEW tr \in Trampolines, NEW u \in Threads, Step(u, "store")', threads'[u].at = tr,
             threads'[u].reg = 0 \/ threads'[u].reg > Threshold
      PROVE  Heated(tr)
  BY <1>5, <1>7 DEF Others, Heated, Step
<1>8. ASSUME NEW tr \in Trampolines, Reported(tr)' PROVE Heated(tr) \/ Reporting(t, tr)'
  <2>1. CASE tr # at
    BY <1>3, <1>8, <2>1 DEF Reported, Heated
  <2>2. CASE tr = at /\ result = 0
    BY <1>4, <2>2 DEF GoesOn, Reporting
  <2>3. CASE tr = at /\ result # 0
    <3>1. result > Threshold
      BY <1>3, <1>8, <2>3 DEF Reported
    <3> QED
      BY <1>2, <1>6, <2>3, <3>1 DEF Heated, Step
  <2> QED
    BY <2>1, <2>2, <2>3
<1> QED
  BY <1>7, <1>8 DEF Heated

(* A report is over once its function is warm. *)
LEMMA ReportEnds ==
  ASSUME TypeOK, Working, Linked, Jumps, NEW t \in Threads,
         Fetch(t) \/ Recompile(t) \/ Patch(t), NEW f \in Functions, f = Target(t)
  PROVE  /\ \A g \in Functions : Grown(g)
         /\ BackToCode(t) => Hot(f)'
<1>1. Len(copies[f]) \in Nat /\ \A g \in Functions : Len(copies[g]) \in Nat
  BY DEF TypeOK
<1>2. Shared(f)' <=> Shared(f)
  BY DEF Shared
<1>3. CASE Fetch(t)
  <2>1. threads[t].step = "fetch" /\ copies' = copies
    BY <1>3 DEF Fetch, Step
  <2>2. Shared(f)
    BY <2>1 DEF Linked, Unlinked
  <2>3. IF mapping[f] # 0 THEN BackToCode(t) ELSE Reports(t, "compile")
    BY <1>3, TrampolineEffects
  <2>4. ASSUME mapping[f] # 0 PROVE Len(copies[f]) > 1
    <3>1. mapping[f] = Len(copies[f]) /\ mapping[f] # 1
      BY <2>1, <2>4 DEF Jumps, Forward, Placed
    <3>2. PICK len \in Nat : len = Len(copies[f])
      BY <1>1
    <3>3. len # 0 /\ len # 1
      BY <2>4, <3>1, <3>2
    <3>4. len > 1
      BY <3>3
    <3> QED
      BY <3>2, <3>4, Zenon
  <2>5. BackToCode(t) => mapping[f] # 0
    BY <2>3 DEF Reports, GoesOn, BackToCode
  <2> QED
    BY <1>1, <1>2, <2>1, <2>2, <2>4, <2>5 DEF Hot, Grown
<1>4. CASE Recompile(t)
  <2>1. threads[t].step = "compile" /\ threads[t].dump \in Nat /\ Compiles(f, threads[t].dump)
    BY <1>4, ContextOf DEF Recompile, Step
  <2>2. Len(copies'[f]) = Len(copies[f]) + 1 /\ Len(copies[f]) # 0
    BY <2>1, CompileGrows, ReportedCompiled
  <2>3. IF threads[t].old = 0 THEN BackToCode(t) ELSE Reports(t, "link")
    BY <1>4, TrampolineEffects
  <2>4. BackToCode(t) => threads[t].old = 0
    BY <2>3 DEF Reports, GoesOn, BackToCode
  <2>5. threads[t].old = 0 => Shared(f)
    BY <2>1, <2>2 DEF Linked, Unlinked
  <2> QED
    BY <1>1, <1>2, <2>1, <2>2, <2>4, <2>5, CompilesGrown DEF Hot
<1>5. CASE Patch(t)
  <2>1. /\ Len(copies'[f]) = Len(copies[f]) /\ Len(copies[f]) > 1
        /\ \A n \in 1..Len(copies[f]) :
             copies'[f][n].next = IF n = threads[t].old THEN threads[t].new ELSE copies[f][n].next
        /\ threads[t].new # 0 /\ \A g \in Functions : Grown(g)
    BY <1>5, PatchGrown
  <2>2. threads[t].step = "patch"
    BY <1>5 DEF Patch, Step
  <2>3. ASSUME ~Shared(f) PROVE copies'[f][1].next # 0
    <3>1. threads[t].old = Len(copies[f]) - 1 /\ Chain(f, Len(copies[f]) - 1)
      BY <2>2, <2>3 DEF Linked, Unlinked
    <3>2. 1 \in 1..Len(copies[f]) - 1 /\ 1 \in 1..Len(copies[f])
      BY <1>1, <2>1
    <3>3. threads[t].old # 1 => copies[f][1].next # 0
      <4>1. 1 # Len(copies[f]) - 1 /\ 1 \in 1..Len(copies[f]) - 1 =>
              copies[f][1].next \in 1 + 1..Len(copies[f]) - 1
        BY <3>1 DEF Chain
      <4> QED
        BY <1>1, <3>1, <3>2, <4>1
    <3> QED
      BY <2>1, <3>2, <3>3
  <2> QED
    BY <1>2, <2>1, <2>3 DEF Hot
<1> QED
  BY <1>3, <1>4, <1>5

LEMMA FreshUnreported ==
  \A tr \in Trampolines :
    /\ Fresh(copies, mapping, counter, enabled, loaded, threads) => ~Reported(tr)
    /\ Fresh(copies', mapping', counter', enabled', loaded', threads') => ~Reported(tr)'
<1>1. Threshold # 0 /\ ~(Threshold > Threshold)
  BY OptimizationAssumption
<1> QED
  BY <1>1 DEF Fresh, Reported

LEMMA HeatNext ==
  ASSUME TypeOK, Working, Apart, Linked, Jumps, Heat, [Next]_vars
  PROVE  Heat'
<1>1. CASE EndsRun
  <2>1. \A t \in Threads : threads'[t].step = "code"
    BY <1>1, EndsMean
  <2>2. \A tr \in Trampolines : ~Heated(tr)'
    BY <1>1, <2>1, EndsFresh, FreshUnreported DEF Heated, Step
  <2> QED
    BY <2>2 DEF Heat
<1>2. ASSUME UNCHANGED <<threads, counter>>, \A f \in Functions : Grown(f) PROVE Heat'
  <2>1. \A tr \in Trampolines : Heated(tr)' <=> Heated(tr)
    BY <1>2 DEF Heated, Reported, Step
  <2>2. \A tr \in Trampolines : \A t \in Threads : Reporting(t, tr)' <=> Reporting(t, tr)
    BY <1>2 DEF Reporting
  <2>3. \A tr \in Trampolines : Hot(Owner[tr]) => Hot(Owner[tr])'
    BY <1>2, HotStays, OwnerTyped
  <2> QED
    BY <2>1, <2>2, <2>3 DEF Heat
<1>3. ASSUME copies' = copies PROVE \A f \in Functions : Grown(f)
  <2>1. \A f \in Functions : Len(copies[f]) \in Nat
    BY DEF TypeOK
  <2> QED
    BY <1>3, <2>1 DEF Grown
<1>4. RunMain \/ Restart \/ UNCHANGED vars => UNCHANGED <<threads, counter, copies>>
  BY DEF RunMain, Restart, vars
<1>5. ASSUME NEW f \in Functions, Compile(f) PROVE Heat'
  <2>1. UNCHANGED <<threads, counter>> /\ Compiles(f, 0) /\ 0 \in Nat
    BY <1>5 DEF Compile
  <2> QED
    BY <1>2, <2>1, CompilesGrown
<1>6. ASSUME NEW t \in Threads,
             (\E f \in Functions : Call(t, f)) \/ (\E tr \in Trampolines : EnterLoop(t, tr)) \/ Return(t)
      PROVE  Heat'
  <2>1. UNCHANGED <<copies, counter>>
    BY <1>6 DEF Call, EnterLoop, Return
  <2>2. Others(t) /\ threads'[t].step # "store"
    BY <1>6, CodeEffects
  <2>3. threads[t].step = "code"
    BY <1>6 DEF Call, MayCall, EnterLoop, Return, Step
  <2>4. \A tr \in Trampolines : ~Reporting(t, tr)
    BY <2>3 DEF Reporting
  <2> QED
    BY <1>3, <2>1, <2>2, <2>4, SameHeated, HeatStays
<1>7. ASSUME NEW t \in Threads, Load(t) PROVE Heat'
  <2>1. UNCHANGED <<copies, counter>> /\ threads[t].step = "load" /\ GoesOn(t, "store")
    BY <1>7, TrampolineEffects DEF Load, Step
  <2>2. threads'[t].reg = counter[threads[t].at] /\ threads[t].at \in Trampolines
    BY <1>7, ContextOf DEF Load, TypeOK, Contexts
  <2>3. \A tr \in Trampolines : Heated(tr)' => Heated(tr)
    BY <2>1, <2>2 DEF Heated, Reported, GoesOn, Others, Step
  <2>4. \A tr \in Trampolines : ~Reporting(t, tr)
    BY <2>1 DEF Reporting
  <2> QED
    BY <1>3, <2>1, <2>3, <2>4, HeatStays DEF GoesOn
<1>8. ASSUME NEW t \in Threads, Store(t) PROVE Heat'
  <2>1. copies' = copies /\ threads[t].step = "store"
    BY <1>8 DEF Store, Step
  <2>2. Others(t)
    BY <1>8, TrampolineEffects DEF GoesOn, BackToCode
  <2>3. \A tr \in Trampolines : ~Reporting(t, tr)
    BY <2>1 DEF Reporting
  <2> QED
    BY <1>3, <1>8, <2>1, <2>2, <2>3, StoreHeated, HeatStays
<1>9. ASSUME NEW t \in Threads, BeginDump(t) \/ EndDump(t) \/ Unmap(t) \/ Link(t) PROVE Heat'
  <2>1. UNCHANGED <<copies, counter>>
    BY <1>9 DEF BeginDump, EndDump, Unmap, Link
  <2>2. /\ Others(t) /\ threads'[t].at = threads[t].at
        /\ threads'[t].step \in {"dumping", "fetch", "unmap", "compile", "patch"}
    BY <1>9, TrampolineEffects DEF Reports, GoesOn
  <2>3. \A tr \in Trampolines : Reporting(t, tr) => Reporting(t, tr)'
    BY <2>2 DEF Reporting
  <2> QED
    BY <1>3, <2>1, <2>2, <2>3, SameHeated, HeatStays
<1>10. ASSUME NEW t \in Threads, Fetch(t) \/ Recompile(t) \/ Patch(t) PROVE Heat'
  <2>1. PICK f \in Functions : f = Target(t)
    BY ContextOf
  <2>2. counter' = counter
    BY <1>10 DEF Fetch, Recompile, Patch
  <2>3. /\ Others(t)
        /\ \/ BackToCode(t)
           \/ threads'[t].at = threads[t].at /\ threads'[t].step \in {"compile", "link"}
    BY <1>10, TrampolineEffects DEF Reports, GoesOn, BackToCode
  <2>4. (\A g \in Functions : Grown(g)) /\ (BackToCode(t) => Hot(f)')
    BY <1>10, <2>1, ReportEnds
  <2>5. \A tr \in Trampolines : Reporting(t, tr) => Reporting(t, tr)' \/ Hot(Owner[tr])'
    BY <2>1, <2>3, <2>4 DEF Reporting, Target
  <2>6. threads'[t].step # "store"
    BY <2>3 DEF BackToCode
  <2> QED
    BY <2>2, <2>3, <2>4, <2>5, <2>6, SameHeated, HeatStays
<1>11. (\A t \in Threads : Quits(t) => EndsRun) /\ (Exit \/ Kill => EndsRun)
  BY Endings
<1> QED
  BY <1>1, <1>2, <1>3, <1>4, <1>5, <1>6, <1>7, <1>8, <1>9, <1>10, <1>11 DEF Next, Trampoline, Quits


(***************************************************************************)
(* The inductive invariant and the theorems                                *)
(***************************************************************************)

LEMMA InvInit == Init => IInv
<1> SUFFICES ASSUME Init PROVE IInv
  OBVIOUS
<1>1. Fresh(copies, mapping, counter, enabled, loaded, threads) /\ phase = "constructing"
  BY DEF Init
<1>2. /\ \A f \in Functions : Len(copies[f]) = 0 /\ mapping[f] = 0
      /\ ~enabled /\ loaded = 0
      /\ \A t \in Threads : threads[t].frames = <<>> /\ threads[t].step = "code"
  BY <1>1, FreshMeans
<1>3. TypeOK
  BY TypesInit
<1>4. Working /\ Apart /\ Gone
  BY <1>1, <1>2 DEF Working, Apart, Gone
<1>5. Linked /\ Jumps
  BY <1>2 DEF Linked, Whole, Chain, Unlinked, Jumps, Forward, Placed
<1>6. Profiled
  BY <1>2 DEF Profiled, LaidOut, HasDump
<1>7. \A tr \in Trampolines : ~Heated(tr)
  BY <1>1, <1>2, FreshUnreported DEF Heated, Step
<1>8. Warm
  BY <1>2, <1>7 DEF Warm, Enabling, Powered, Heat
<1> QED
  BY <1>3, <1>4, <1>5, <1>6, <1>8 DEF IInv

LEMMA InvNext == IInv /\ [Next]_vars => IInv'
<1> SUFFICES ASSUME IInv, [Next]_vars PROVE IInv'
  OBVIOUS
<1>1. TypeOK /\ Working /\ Apart /\ Gone /\ Linked /\ Jumps /\ Warm /\ Profiled
  BY DEF IInv
<1>2. TypeOK'
  BY <1>1, TypesNext
<1>3. Working'
  BY <1>1, WorkingNext
<1>4. Apart'
  BY <1>1, ApartNext
<1>5. Gone'
  BY <1>1, GoneNext
<1>6. Linked'
  BY <1>1, LinkedNext
<1>7. Jumps'
  BY <1>1, JumpsNext
<1>8. Warm'
  BY <1>1, EnablingNext, PoweredNext, HeatNext DEF Warm
<1>9. Profiled'
  BY <1>1, ProfiledNext
<1> QED
  BY <1>2, <1>3, <1>4, <1>5, <1>6, <1>7, <1>8, <1>9 DEF IInv

LEMMA InvAlways == Spec => []IInv
<1> QED
  BY InvInit, InvNext, PTL DEF Spec

(* Outside the few steps in which a thread relinks a function, the jumps   *)
(* at the entries of its old copies lead on to the mapped copy, however    *)
(* many threads compile and relink at a time.  Threads that relink the     *)
(* same function may leave one of its copies without a jump, but one that  *)
(* went through the power pass.                                            *)
THEOREM LinksSound == Spec => []CopiesForward
<1>1. IInv => CopiesForward
  <2> SUFFICES ASSUME IInv, NEW f \in Functions,
                      \A t \in Threads :
                        ~(threads[t].step \in {"compile", "link", "patch"} /\ Target(t) = f),
                      NEW n \in 1..Len(copies[f])
               PROVE  IF n = mapping[f] THEN copies[f][n].next = 0
                      ELSE \/ copies[f][n].next \in n + 1..mapping[f]
                           \/ Shared(f) /\ copies[f][n].next = 0 /\ copies[f][n].powered
    BY Zenon DEF CopiesForward
  <2>1. PICK len \in Nat : len = Len(copies[f])
    BY DEF IInv, TypeOK
  <2>2. mapping[f] = len /\ (copies[f][n].next = 0 \/ copies[f][n].next \in n + 1..len)
    BY <2>1 DEF IInv, Jumps, Forward
  <2>3. \A t \in Threads : ~(Relinks(t) /\ Target(t) = f)
    BY DEF Relinks
  <2>4. CASE ~Shared(f)
    <3>1. Whole(f)
      BY <2>3, <2>4 DEF IInv, Linked
    <3> QED
      BY <3>1 DEF Whole, Chain
  <2>5. CASE Shared(f)
    <3>1. CASE n = mapping[f]
      BY <2>1, <2>2, <3>1
    <3>2. ASSUME n # mapping[f], copies[f][n].next = 0 PROVE copies[f][n].powered
      <4>1. Powered(f)
        BY DEF IInv, Warm
      <4>2. CASE n = 1
        BY <2>1, <2>3, <3>2, <4>1, <4>2 DEF Powered
      <4>3. CASE n # 1
        BY <4>1, <4>3 DEF Powered
      <4> QED
        BY <4>2, <4>3
    <3> QED
      BY <2>2, <2>5, <3>1, <3>2
  <2> QED
    BY <2>4, <2>5
<1> QED
  BY <1>1, InvAlways, PTL

(* Powered code was laid out by a profile with a packet of its own run,    *)
(* whatever the file held before and however earlier runs ended.           *)
THEOREM ProfilesSound == Spec => []ProfileOfThisRun
<1>1. IInv => ProfileOfThisRun
  BY DEF IInv, Profiled, LaidOut, HasPacket, ProfileOfThisRun
<1> QED
  BY <1>1, InvAlways, PTL

(***************************************************************************)
(* Where a call ends                                                       *)
(***************************************************************************)

(* A set of numbers up to n that is not empty has a greatest element. *)
LEMMA GreatestOf ==
  ASSUME NEW n \in Nat, NEW S \in SUBSET (1..n), S # {}
  PROVE  \E m \in S : \A k \in S : k <= m
<1> DEFINE T == {n - m : m \in S}
           Less == {ss \in Nat \X Nat : ss[1] < ss[2]}
<1>1. T \in SUBSET Nat /\ T # {}
  <2>1. \A m \in S : n - m \in Nat
    OBVIOUS
  <2> QED
    BY <2>1
<1>2. OpToRel(<,Nat) = Less
  BY Zenon DEF OpToRel
<1>3. IsWellFoundedOn(Less, Nat)
  BY <1>2, NatLessThanWellFounded, Zenon
<1> HIDE DEF Less
<1>4. PICK k \in T : \A l \in T : ~(<<l, k>> \in Less)
  <2> HIDE DEF T
  <2> QED
    BY <1>1, <1>3, WFMin, Zenon
<1>5. \A l \in T : k <= l
  <2> HIDE DEF T
  <2> SUFFICES ASSUME NEW l \in T PROVE k <= l
    OBVIOUS
  <2>1. <<l, k>> \in Less <=> (<<l, k>> \in Nat \X Nat /\ <<l, k>>[1] < <<l, k>>[2])
    BY Zenon DEF Less
  <2> QED
    BY <1>1, <1>4, <2>1
<1>6. PICK m \in S : k = n - m
  BY <1>4
<1>7. \A j \in S : n - m <= n - j
  BY <1>5, <1>6
<1> QED
  BY <1>7

(* The jumps of the copies of f are the equation that Newest solves: when  *)
(* all of them lead forward it has one solution.                           *)
Leads(f, e) ==
  e = [m \in 1..Len(copies[f]) |->
         IF copies[f][m].next = 0 THEN m ELSE e[copies[f][m].next]]

LEMMA JumpsEnd ==
  ASSUME NEW f \in Functions, NEW len \in Nat, len = Len(copies[f]),
         \A m \in 1..len : copies[f][m].next # 0 => copies[f][m].next \in m + 1..len,
         NEW e, Leads(f, e)
  PROVE  \A n \in 1..len : Newest(f, n) = e[n]
<1>1. ASSUME NEW g, Leads(f, g) PROVE g = e
  <2> DEFINE Differ == {m \in 1..len : g[m] # e[m]}
  <2>1. /\ g = [m \in 1..len |-> IF copies[f][m].next = 0 THEN m ELSE g[copies[f][m].next]]
        /\ e = [m \in 1..len |-> IF copies[f][m].next = 0 THEN m ELSE e[copies[f][m].next]]
    BY <1>1 DEF Leads
  <2>2. Differ = {}
    <3> SUFFICES ASSUME Differ # {} PROVE FALSE
      OBVIOUS
    <3>1. Differ \in SUBSET (1..len)
      OBVIOUS
    <3>2. PICK m \in Differ : \A k \in Differ : k <= m
      <4> HIDE DEF Differ
      <4> QED
        BY <3>1, GreatestOf
    <3>3. m \in 1..len /\ g[m] # e[m]
      BY <3>2
    <3>4. CASE copies[f][m].next = 0
      BY <2>1, <3>3, <3>4
    <3>5. CASE copies[f][m].next # 0
      <4>1. copies[f][m].next \in m + 1..len
        BY <3>3, <3>5
      <4>2. g[m] = g[copies[f][m].next] /\ e[m] = e[copies[f][m].next]
        BY <2>1, <3>3, <3>5
      <4>3. copies[f][m].next \in Differ
        BY <3>3, <4>1, <4>2
      <4> QED
        BY <3>2, <3>3, <4>1, <4>3
    <3> QED
      BY <3>4, <3>5
  <2>3. DOMAIN g = 1..len /\ DOMAIN e = 1..len
    BY <2>1
  <2>4. \A m \in 1..len : g[m] = e[m]
    BY <2>2
  <2>5. g = [m \in 1..len |-> g[m]] /\ e = [m \in 1..len |-> e[m]]
    BY <2>1
  <2> QED
    BY <2>4, <2>5
<1>2. (CHOOSE g : Leads(f, g)) = e
  BY <1>1, Zenon
<1>3. \A n \in 1..len : Newest(f, n) = (CHOOSE g : Leads(f, g))[n]
  BY Zenon DEF Newest, Leads
<1> QED
  BY <1>2, <1>3

(* When all jumps lead forward they end, in a copy that has none. *)
LEMMA NewestEnds ==
  ASSUME NEW f \in Functions, NEW len \in Nat, len = Len(copies[f]),
         \A m \in 1..len : copies[f][m].next = 0 \/ copies[f][m].next \in m + 1..len
  PROVE  \A n \in 1..len : Newest(f, n) \in 1..len /\ copies[f][Newest(f, n)].next = 0
<1> DEFINE next(m) == copies[f][m].next
           Solves(e, m) == /\ e[m] = IF next(m) = 0 THEN m ELSE e[next(m)]
                           /\ e[m] \in 1..len /\ next(e[m]) = 0
           Solved(low) == \E e : \A m \in low..len : Solves(e, m)
           Lows == {k \in 1..len + 1 : Solved(len + 2 - k)}
<1>1. Lows \in SUBSET (1..len + 1) /\ len + 1 \in Nat
  OBVIOUS
<1>2. 1 \in Lows
  <2>1. len + 2 - 1..len = {} /\ 1 \in 1..len + 1
    OBVIOUS
  <2> HIDE DEF Solves
  <2> QED
    BY <2>1
<1>3. PICK k \in Lows : \A j \in Lows : j <= k
  <2> HIDE DEF Lows
  <2> QED
    BY <1>1, <1>2, GreatestOf
<1>4. k \in 1..len + 1 /\ Solved(len + 2 - k)
  BY <1>3
<1>5. k = len + 1
  <2> SUFFICES ASSUME k # len + 1 PROVE FALSE
    OBVIOUS
  <2> DEFINE low == len + 2 - k
  <2>1. low \in 2..len + 1 /\ k + 1 \in 1..len + 1 /\ len + 2 - (k + 1) = low - 1 /\ low - 1 \in 1..len
    BY <1>4
  <2>2. PICK e : \A m \in low..len : Solves(e, m)
    BY <1>4
  <2> HIDE DEF low
  <2>3. next(low - 1) = 0 \/ next(low - 1) \in low..len
    <3>1. low - 1 + 1 = low
      BY <2>1
    <3> QED
      BY <2>1, <3>1
  <2> DEFINE new == [m \in low - 1..len |->
                       IF m = low - 1 THEN IF next(m) = 0 THEN m ELSE e[next(m)] ELSE e[m]]
  <2>4. \A m \in low..len : new[m] = e[m]
    BY <2>1
  <2>5. \A m \in low..len : next(m) = 0 \/ next(m) \in low..len
    <3> SUFFICES ASSUME NEW m \in low..len PROVE next(m) = 0 \/ next(m) \in low..len
      OBVIOUS
    <3>1. m \in 1..len /\ m + 1..len \subseteq low..len
      BY <2>1
    <3> QED
      BY <3>1
  <2>6. new[low - 1] = IF next(low - 1) = 0 THEN low - 1 ELSE e[next(low - 1)]
    BY <2>1
  <2> HIDE DEF new
  <2>7. \A m \in low..len : Solves(new, m)
    BY <2>2, <2>4, <2>5
  <2>8. Solves(new, low - 1)
    <3>1. CASE next(low - 1) = 0
      BY <2>1, <2>6, <3>1
    <3>2. CASE next(low - 1) # 0
      <4>1. next(low - 1) \in low..len
        BY <2>3, <3>2
      <4>2. Solves(new, next(low - 1)) /\ new[next(low - 1)] = e[next(low - 1)]
        BY <2>4, <2>7, <4>1
      <4> QED
        BY <2>6, <3>2, <4>2
    <3> QED
      BY <3>1, <3>2
  <2> HIDE DEF Solves
  <2>9. \A m \in low - 1..len : Solves(new, m)
    <3>1. \A m \in low - 1..len : m = low - 1 \/ m \in low..len
      BY <2>1
    <3> QED
      BY <2>7, <2>8, <3>1
  <2>10. Solved(low - 1)
    BY <2>9
  <2>11. k + 1 \in Lows
    <3> HIDE DEF Solved
    <3> QED
      BY <2>1, <2>10
  <2>12. k + 1 <= k
    <3> HIDE DEF Lows
    <3> QED
      BY <1>3, <2>11
  <2> HIDE DEF Solved
  <2> QED
    BY <1>4, <2>12
<1>6. PICK e : \A m \in 1..len : Solves(e, m)
  <2>1. len + 2 - k = 1
    BY <1>5
  <2> HIDE DEF Solves
  <2> QED
    BY <1>4, <2>1
<1> DEFINE end == [m \in 1..len |-> e[m]]
<1>7. Leads(f, end)
  <2>1. \A m \in 1..len : end[m] = IF next(m) = 0 THEN m ELSE end[next(m)]
    <3> SUFFICES ASSUME NEW m \in 1..len PROVE end[m] = IF next(m) = 0 THEN m ELSE end[next(m)]
      OBVIOUS
    <3>1. next(m) # 0 => next(m) \in 1..len
      <4>1. m + 1..len \subseteq 1..len
        OBVIOUS
      <4> QED
        BY <4>1
    <3> QED
      BY <1>6, <3>1
  <2>2. end = [m \in 1..len |-> end[m]]
    OBVIOUS
  <2> HIDE DEF end
  <2> QED
    BY <2>1, <2>2 DEF Leads
<1>8. \A n \in 1..len : Newest(f, n) = e[n]
  <2>1. \A n \in 1..len : end[n] = e[n]
    OBVIOUS
  <2>2. \A m \in 1..len : copies[f][m].next # 0 => copies[f][m].next \in m + 1..len
    OBVIOUS
  <2> HIDE DEF end
  <2>3. \A n \in 1..len : Newest(f, n) = end[n]
    BY <1>7, <2>2, JumpsEnd
  <2> QED
    BY <2>1, <2>3
<1>9. \A n \in 1..len : e[n] \in 1..len /\ copies[f][e[n]].next = 0
  BY <1>6
<1> QED
  BY <1>8, <1>9, Zenon

(***************************************************************************)
(* The counters of the trampolines that threads are at                     *)
(***************************************************************************)

(* A thread at a trampoline of a function of its own: the counter may still *)
(* be decremented, it is the one the thread has read, and it is zero once   *)
(* the thread reports.                                                      *)
Counting(t) ==
  ~Shared(Target(t)) =>
    /\ threads[t].step \in {"load", "store"} => Within(threads[t].at)
    /\ threads[t].step = "store" => threads[t].reg = counter[threads[t].at]
    /\ threads[t].step \notin {"code", "load", "store"} => counter[threads[t].at] = 0

Counts == \A t \in Threads : Counting(t)

(* The trampolines whose copy is made. *)
Pending(t, tr) == Reporting(t, tr) /\ threads[t].step \notin {"link", "patch"}
Recompiled(tr) == Reported(tr) /\ \A t \in Threads : ~Pending(t, tr)

LEMMA StoreEffects ==
  ASSUME TypeOK, Working, Apart, Counts, NEW t \in Threads, Store(t), ~Shared(Target(t))
  PROVE  /\ threads[t].step = "store" /\ Within(threads[t].at)
         /\ counter'[threads[t].at] = (counter[threads[t].at] + CounterMod - 1) % CounterMod
         /\ \A tr \in Trampolines : tr # threads[t].at => counter'[tr] = counter[tr]
         /\ \A u \in Threads \ {t} : threads[u].step # "code" => threads[u].at # threads[t].at
         /\ IF counter'[threads[t].at] = 0 THEN GoesOn(t, "message") ELSE BackToCode(t)
<1> DEFINE result == (threads[t].reg + CounterMod - 1) % CounterMod
<1>1. threads[t].step = "store" /\ counter' = [counter EXCEPT ![threads[t].at] = result]
  BY DEF Store, Step
<1>2. Within(threads[t].at) /\ threads[t].reg = counter[threads[t].at]
  BY <1>1 DEF Counts, Counting
<1>3. threads[t].at \in Trampolines /\ threads[t] \in Contexts
  BY ContextOf
<1>4. /\ counter'[threads[t].at] = result
      /\ \A tr \in Trampolines : tr # threads[t].at => counter'[tr] = counter[tr]
  <2> HIDE DEF result
  <2> QED
    BY <1>1, <1>3 DEF TypeOK
<1>5. \A u \in Threads \ {t} : threads[u].step # "code" => threads[u].at # threads[t].at
  BY <1>1, DistinctTargets DEF Target
<1>6. CASE result = 0
  <2>1. threads' = [threads EXCEPT ![t].step = "message", ![t].reg = 0]
    BY <1>6 DEF Store
  <2>2. GoesOn(t, "message")
    BY <1>3, <2>1 DEF GoesOn, Others, SameFrames, Contexts, TypeOK
  <2> QED
    BY <1>1, <1>2, <1>4, <1>5, <1>6, <2>2
<1>7. CASE result # 0
  <2>1. Continues(t)
    BY <1>7 DEF Store
  <2>2. BackToCode(t)
    BY <2>1 DEF Continues, BackToCode, InCode, Others, SameFrames, TypeOK
  <2> QED
    BY <1>1, <1>2, <1>4, <1>5, <1>7, <2>2
<1> QED
  BY <1>6, <1>7

(* A counter within its bound that is decremented: it reports once. *)
LEMMA Decrements ==
  ASSUME NEW past \in Nat, Threshold + past < CounterMod, NEW c \in 0..CounterMod - 1,
         (Threshold + CounterMod - c) % CounterMod < Threshold + past,
         NEW d, d = (c + CounterMod - 1) % CounterMod
  PROVE  /\ d \in Nat
         /\ d = 0 => ~(c = 0 \/ c > Threshold)
         /\ d # 0 => ((d = 0 \/ d > Threshold) <=> (c = 0 \/ c > Threshold))
<1>1. Threshold \in Nat /\ Threshold > 0 /\ past \in Nat /\ CounterMod \in Nat
      /\ Threshold + past < CounterMod
  BY OptimizationAssumption
<1>2. CASE c = 0
  <2>1. Threshold + CounterMod - c = CounterMod + Threshold
    BY <1>1, <1>2
  <2>2. (CounterMod + Threshold) % CounterMod = Threshold
    BY <1>1
  <2>3. Threshold < Threshold + past
    BY <2>1, <2>2
  <2>4. d = CounterMod - 1
    BY <1>1, <1>2
  <2> QED
    BY <1>1, <1>2, <2>3, <2>4
<1>3. CASE c # 0
  <2>1. d = c - 1
    <3>1. c + CounterMod - 1 = CounterMod + (c - 1) /\ c - 1 \in 0..CounterMod - 1
      BY <1>1, <1>3
    <3> QED
      BY <1>1, <3>1
  <2>2. CASE c <= Threshold
    BY <1>1, <1>3, <2>1, <2>2
  <2>3. CASE c > Threshold
    <3>1. Threshold + CounterMod - c \in 0..CounterMod - 1
      BY <1>1, <2>3
    <3>2. (Threshold + CounterMod - c) % CounterMod = Threshold + CounterMod - c
      BY <1>1, <3>1
    <3>3. c - 1 > Threshold
      BY <1>1, <3>2
    <3> QED
      BY <1>1, <2>1, <2>3, <3>3
  <2> QED
    BY <1>1, <2>2, <2>3
<1> QED
  BY <1>2, <1>3

LEMMA StoreReports ==
  ASSUME TypeOK, Working, Apart, Counts, NEW t \in Threads, Store(t), ~Shared(Target(t)),
         NEW tr \in Trampolines, tr = threads[t].at
  PROVE  /\ Reported(tr)' => counter'[tr] = 0 \/ Reported(tr)
         /\ Reported(tr) => Reported(tr)' /\ counter'[tr] # 0
<1>1. counter[tr] \in 0..CounterMod - 1
  BY DEF TypeOK
<1>2. /\ (Threshold + CounterMod - counter[tr]) % CounterMod < Threshold + MaxPast[tr]
      /\ counter'[tr] = (counter[tr] + CounterMod - 1) % CounterMod
  BY StoreEffects DEF Within
<1>3. MaxPast[tr] \in Nat /\ Threshold + MaxPast[tr] < CounterMod
  BY OptimizationAssumption
<1> QED
  BY <1>1, <1>2, <1>3, Decrements DEF Reported

LEMMA CountsNext ==
  ASSUME TypeOK, Working, Apart, Linked, Counts, [Next]_vars
  PROVE  Counts'
<1>1. CASE EndsRun
  BY <1>1, EndsMean, Zenon DEF Counts, Counting
<1>2. CASE UNCHANGED <<threads, counter>>
  BY <1>2 DEF Counts, Counting, Within, Shared, Target
<1>3. (\E f \in Functions : Compile(f)) \/ RunMain \/ Restart \/ UNCHANGED vars
        => UNCHANGED <<threads, counter>>
  BY DEF Compile, RunMain, Restart, vars
<1>4. ASSUME NEW t \in Threads, Others(t), counter' = counter, Counting(t)' PROVE Counts'
  BY <1>4 DEF Counts, Counting, Others, Within, Shared, Target
<1>5. ASSUME NEW t \in Threads, NEW f \in Functions, Call(t, f) PROVE Counts'
  <2>1. /\ Others(t) /\ threads'[t].at = Entry[f] /\ threads'[t].step = "load"
        /\ Within(Entry[f]) /\ counter' = counter
    BY <1>5, CodeEffects DEF Call
  <2> QED
    BY <1>4, <2>1 DEF Counting, Within
<1>6. ASSUME NEW t \in Threads, NEW tr \in Trampolines, EnterLoop(t, tr) PROVE Counts'
  <2>1. /\ Others(t) /\ threads'[t].at = tr /\ threads'[t].step = "load"
        /\ Within(tr) /\ counter' = counter
    BY <1>6, CodeEffects DEF EnterLoop
  <2> QED
    BY <1>4, <2>1 DEF Counting, Within
<1>7. ASSUME NEW t \in Threads, Return(t) \/ Patch(t) PROVE Counts'
  <2>1. Others(t) /\ threads'[t].step = "code" /\ counter' = counter
    BY <1>7, CodeEffects, TrampolineEffects DEF Return, Patch, BackToCode
  <2> QED
    BY <1>4, <2>1 DEF Counting
<1>8. ASSUME NEW t \in Threads, Load(t) PROVE Counts'
  <2>1. /\ GoesOn(t, "store") /\ threads[t].step = "load" /\ counter' = counter
    BY <1>8, TrampolineEffects DEF Load, Step
  <2>2. threads'[t].reg = counter[threads[t].at]
    BY <1>8, ContextOf DEF Load, TypeOK, Contexts
  <2> QED
    BY <1>4, <2>1, <2>2 DEF Counts, Counting, Within, GoesOn, Shared, Target
<1>9. ASSUME NEW t \in Threads,
             BeginDump(t) \/ EndDump(t) \/ Fetch(t) \/ Unmap(t) \/ Recompile(t) \/ Link(t)
      PROVE  Counts'
  <2>1. /\ Others(t)
        /\ \/ threads'[t].step = "code"
           \/ /\ threads'[t].at = threads[t].at
              /\ threads'[t].step \in {"dumping", "fetch", "unmap", "compile", "link", "patch"}
    BY <1>9, TrampolineEffects DEF Reports, GoesOn, BackToCode
  <2>2. threads[t].step \notin {"code", "load", "store"} /\ counter' = counter
    BY <1>9 DEF BeginDump, EndDump, Fetch, Unmap, Recompile, Link, Step
  <2> QED
    BY <1>4, <2>1, <2>2 DEF Counts, Counting, Shared, Target
<1>10. ASSUME NEW t \in Threads, Store(t) PROVE Counts'
  <2>1. /\ Others(t) /\ threads[t].step = "store" /\ threads[t].at \in Trampolines
        /\ \/ threads'[t].step = "code"
           \/ threads'[t].at = threads[t].at /\ threads'[t].step = "message"
    BY <1>10, ContextOf, TrampolineEffects DEF GoesOn, BackToCode, Store, Step
  <2>2. Counting(t)'
    <3>1. CASE threads'[t].step = "code"
      BY <3>1 DEF Counting
    <3>2. CASE threads'[t].step # "code"
      <4>1. Target(t)' = Target(t) /\ (Shared(Target(t))' <=> Shared(Target(t)))
        BY <2>1, <3>2 DEF Target, Shared
      <4>2. ~Shared(Target(t)) => counter'[threads[t].at] = 0
        BY <1>10, <3>2, StoreEffects DEF BackToCode
      <4> QED
        BY <2>1, <3>2, <4>1, <4>2 DEF Counting
    <3> QED
      BY <3>1, <3>2
  <2>3. ASSUME NEW u \in Threads \ {t} PROVE Counting(u)'
    <3>1. /\ threads'[u] = threads[u] /\ threads[u].at \in Trampolines
          /\ Target(u)' = Target(u) /\ (Shared(Target(u))' <=> Shared(Target(u)))
      BY <2>1, ContextOf DEF Others, Target, Shared
    <3>2. ASSUME threads[u].step # "code", ~Shared(Target(u))
          PROVE  counter'[threads[u].at] = counter[threads[u].at]
      <4>1. threads[u].at # threads[t].at
        BY <2>1, <3>2, DistinctTargets DEF Target
      <4> QED
        BY <1>10, <3>1, <4>1 DEF Store, TypeOK
    <3> QED
      BY <3>1, <3>2 DEF Counts, Counting, Within
  <2> QED
    BY <2>2, <2>3 DEF Counts
<1>11. (\A t \in Threads : Quits(t) => EndsRun) /\ (Exit \/ Kill => EndsRun)
  BY Endings
<1> QED
  BY <1>1, <1>2, <1>3, <1>5, <1>6, <1>7, <1>8, <1>9, <1>10, <1>11 DEF Next, Trampoline, Quits

(* What each step does to the reports of functions that one thread runs. *)
SameReports ==
  \A tr \in Trampolines : ~Shared(Owner[tr]) => (Recompiled(tr)' <=> Recompiled(tr))

LEMMA QuietReports ==
  ASSUME counter' = counter, NEW t \in Threads, Others(t),
         \A tr \in Trampolines : ~Shared(Owner[tr]) => (Pending(t, tr)' <=> Pending(t, tr))
  PROVE  SameReports
<1>1. \A tr \in Trampolines : Reported(tr)' <=> Reported(tr)
  BY DEF Reported
<1>2. \A tr \in Trampolines : \A u \in Threads \ {t} : Pending(u, tr)' <=> Pending(u, tr)
  BY DEF Pending, Reporting, Others
<1> QED
  BY <1>1, <1>2 DEF SameReports, Recompiled

LEMMA StoreSameReports ==
  ASSUME TypeOK, Working, Apart, Counts, NEW t \in Threads, Store(t)
  PROVE  SameReports
<1>1. /\ Others(t) /\ threads[t].step = "store" /\ threads[t].at \in Trampolines
      /\ \/ threads'[t].step = "code"
         \/ threads'[t].at = threads[t].at /\ threads'[t].step = "message"
  BY ContextOf, TrampolineEffects DEF GoesOn, BackToCode, Store, Step
<1>2. \A tr \in Trampolines : \A u \in Threads \ {t} : Pending(u, tr)' <=> Pending(u, tr)
  BY <1>1 DEF Pending, Reporting, Others
<1>3. ASSUME NEW tr \in Trampolines, tr # threads[t].at PROVE Recompiled(tr)' <=> Recompiled(tr)
  <2>1. counter'[tr] = counter[tr]
    BY <1>1, <1>3 DEF Store, TypeOK
  <2>2. ~Pending(t, tr) /\ ~Pending(t, tr)'
    BY <1>1, <1>3 DEF Pending, Reporting
  <2> QED
    BY <1>2, <2>1, <2>2 DEF Recompiled, Reported
<1>4. ASSUME NEW tr \in Trampolines, tr = threads[t].at, ~Shared(Owner[tr])
      PROVE  Recompiled(tr)' <=> Recompiled(tr)
  <2>1. ~Shared(Target(t))
    BY <1>4 DEF Target
  <2>2. \A u \in Threads : ~Pending(u, tr)
    BY <1>1, <1>4, <2>1, StoreEffects DEF Pending, Reporting
  <2>3. CASE counter'[tr] = 0
    <3>1. Pending(t, tr)'
      BY <1>4, <2>1, <2>3, StoreEffects DEF GoesOn, Pending, Reporting
    <3>2. ~Reported(tr)
      BY <1>4, <2>1, <2>3, StoreReports
    <3> QED
      BY <3>1, <3>2 DEF Recompiled
  <2>4. CASE counter'[tr] # 0
    <3>1. ~Pending(t, tr)'
      BY <1>4, <2>1, <2>4, StoreEffects DEF BackToCode, Pending, Reporting
    <3>2. Reported(tr)' <=> Reported(tr)
      BY <1>4, <2>1, <2>4, StoreReports
    <3> QED
      BY <1>2, <2>2, <3>1, <3>2 DEF Recompiled
  <2> QED
    BY <2>3, <2>4
<1> QED
  BY <1>3, <1>4 DEF SameReports

(* A compilation for a report makes its copy, and no other. *)
LEMMA RecompileReports ==
  ASSUME TypeOK, Working, Apart, Linked, Counts, NEW t \in Threads, Recompile(t)
  PROVE  /\ Shared(Target(t)) => SameReports
         /\ ~Shared(Target(t)) =>
              /\ \A tr \in Trampolines : Recompiled(tr)' <=> Recompiled(tr) \/ tr = threads[t].at
              /\ ~Recompiled(threads[t].at)
<1>1. /\ Others(t) /\ threads[t].step = "compile" /\ counter' = counter
      /\ \/ threads'[t].step = "code"
         \/ threads'[t].at = threads[t].at /\ threads'[t].step = "link"
  BY TrampolineEffects DEF Reports, GoesOn, BackToCode, Recompile, Step
<1>2. \A tr \in Trampolines : (Reported(tr)' <=> Reported(tr)) /\ ~Pending(t, tr)'
  BY <1>1 DEF Reported, Pending, Reporting
<1>3. \A tr \in Trampolines : \A u \in Threads \ {t} : Pending(u, tr)' <=> Pending(u, tr)
  BY <1>1 DEF Pending, Reporting, Others
<1>4. \A tr \in Trampolines : Pending(t, tr) <=> tr = threads[t].at
  BY <1>1 DEF Pending, Reporting
<1>5. threads[t].at \in Trampolines
  BY ContextOf
<1>6. ASSUME Shared(Target(t)) PROVE SameReports
  <2>1. \A tr \in Trampolines : ~Shared(Owner[tr]) => ~Pending(t, tr)
    BY <1>4, <1>6 DEF Target
  <2> QED
    BY <1>2, <1>3, <2>1 DEF SameReports, Recompiled
<1>7. ASSUME ~Shared(Target(t))
      PROVE  /\ \A tr \in Trampolines : Recompiled(tr)' <=> Recompiled(tr) \/ tr = threads[t].at
             /\ ~Recompiled(threads[t].at)
  <2>1. Reported(threads[t].at)
    BY <1>1, <1>7 DEF Counts, Counting, Reported
  <2>2. \A u \in Threads \ {t} : ~Pending(u, threads[t].at)
    BY <1>1, <1>7, DistinctTargets DEF Pending, Reporting, Target
  <2> QED
    BY <1>2, <1>3, <1>4, <1>5, <2>1, <2>2 DEF Recompiled
<1> QED
  BY <1>6, <1>7

(***************************************************************************)
(* A function is compiled once, and once more for every report             *)
(***************************************************************************)

Made(f) == {tr \in Trampolines : Owner[tr] = f /\ Recompiled(tr)}

LEMMA MadeFinite == \A f : IsFiniteSet(Made(f))
<1> SUFFICES ASSUME NEW f PROVE IsFiniteSet(Made(f))
  OBVIOUS
<1>1. Made(f) \subseteq Trampolines /\ IsFiniteSet(Trampolines)
  BY OptimizationAssumption DEF Made
<1> QED
  BY <1>1, FS_Subset

LEMMA OneCopyMeans ==
  OneCopyPerReport <=>
    \A f \in Functions : copies[f] # <<>> /\ ~Shared(f) => Len(copies[f]) = 1 + Cardinality(Made(f))
BY DEF OneCopyPerReport, Made, Recompiled, Pending

LEMMA CopiesKept ==
  ASSUME OneCopyPerReport, SameReports,
         \A f \in Functions : ~Shared(f) =>
           (copies'[f] # <<>> => copies[f] # <<>>) /\ Len(copies'[f]) = Len(copies[f])
  PROVE  OneCopyPerReport'
<1>1. \A f \in Functions : ~Shared(f) => Made(f)' = Made(f)
  BY DEF Made, SameReports
<1>2. \A f \in Functions : copies'[f] # <<>> /\ ~Shared(f) =>
        Len(copies'[f]) = 1 + Cardinality(Made(f)')
  BY <1>1, OneCopyMeans
<1> QED
  BY <1>2 DEF OneCopyPerReport, Made, Recompiled, Pending, Shared

LEMMA CompileCounted ==
  ASSUME TypeOK, Working, Apart, Jumps, Warm, OneCopyPerReport, NEW f \in Functions, Compile(f)
  PROVE  OneCopyPerReport'
<1>1. /\ threads' = threads /\ mapping[f] = 0 /\ Compiles(f, 0) /\ 0 \in Nat
      /\ \A t \in Threads : threads[t].step = "code"
  BY NobodyReports
<1>2. counter' = counter
  BY DEF Compile
<1>3. Len(copies[f]) = 0
  BY <1>1 DEF Jumps, Forward
<1>4. Len(copies'[f]) = 1 /\ \A g \in Functions : g # f => copies'[g] = copies[g]
  <2>1. /\ Len(copies'[f]) = Len(copies[f]) + 1
        /\ \A g \in Functions : g # f => copies'[g] = copies[g]
    BY <1>1, CompileGrows
  <2> QED
    BY <1>3, <2>1
<1>5. \A g \in Functions : Made(g)' = Made(g)
  BY <1>1, <1>2 DEF Made, Recompiled, Reported, Pending, Reporting
<1>6. Made(f) = {}
  <2> SUFFICES ASSUME NEW tr \in Trampolines, Owner[tr] = f, Reported(tr) PROVE FALSE
    BY DEF Made, Recompiled
  <2>1. Hot(f)
    BY <1>1 DEF Warm, Heat, Heated, Reporting
  <2> QED
    BY <1>3, <2>1 DEF Hot
<1>7. Len(copies'[f]) = 1 + Cardinality(Made(f)')
  BY <1>4, <1>5, <1>6, FS_EmptySet
<1>8. \A g \in Functions : copies'[g] # <<>> /\ ~Shared(g) =>
        Len(copies'[g]) = 1 + Cardinality(Made(g)')
  BY <1>4, <1>5, <1>7, OneCopyMeans
<1> QED
  BY <1>8 DEF OneCopyPerReport, Made, Recompiled, Pending, Shared

LEMMA RecompileCounted ==
  ASSUME TypeOK, Working, Apart, Linked, Counts, OneCopyPerReport, NEW t \in Threads, Recompile(t),
         NEW f \in Functions, f = Target(t), NEW tr \in Trampolines, tr = threads[t].at
  PROVE  OneCopyPerReport'
<1>1. Compiles(f, threads[t].dump) /\ threads[t].dump \in Nat /\ threads[t].step = "compile"
  BY ContextOf DEF Recompile, Step
<1>2. /\ Len(copies'[f]) = Len(copies[f]) + 1 /\ copies[f] \in Seq(Copies)
      /\ \A g \in Functions : g # f => copies'[g] = copies[g]
  BY <1>1, CompileGrows DEF TypeOK
<1>3. CASE Shared(f)
  <2>1. SameReports
    BY <1>3, RecompileReports
  <2> QED
    BY <1>2, <1>3, <2>1, CopiesKept
<1>4. CASE ~Shared(f)
  <2>1. Owner[tr] = f /\ ~Recompiled(tr)
        /\ \A tt \in Trampolines : Recompiled(tt)' <=> Recompiled(tt) \/ tt = tr
    BY <1>4, RecompileReports DEF Target
  <2>2. Made(f)' = Made(f) \cup {tr} /\ tr \notin Made(f)
    BY <2>1 DEF Made
  <2>3. \A g \in Functions : g # f => Made(g)' = Made(g)
    BY <2>1 DEF Made
  <2>4. Cardinality(Made(f)') = Cardinality(Made(f)) + 1
    BY <2>2, MadeFinite, FS_AddElement
  <2>5. copies[f] # <<>>
    BY <1>1, ReportedCompiled
  <2>6. Cardinality(Made(f)) \in Nat /\ Len(copies[f]) = 1 + Cardinality(Made(f))
    BY <1>4, <2>5, MadeFinite, FS_CardinalityType, OneCopyMeans
  <2>7. Len(copies'[f]) = 1 + Cardinality(Made(f)')
    BY <1>2, <2>4, <2>6
  <2>8. \A g \in Functions : copies'[g] # <<>> /\ ~Shared(g) =>
          Len(copies'[g]) = 1 + Cardinality(Made(g)')
    BY <1>2, <2>3, <2>7, OneCopyMeans
  <2> QED
    BY <2>8 DEF OneCopyPerReport, Made, Recompiled, Pending, Shared
<1> QED
  BY <1>3, <1>4

LEMMA CopiesCounted ==
  ASSUME TypeOK, Working, Apart, Linked, Jumps, Warm, Counts, OneCopyPerReport, [Next]_vars
  PROVE  OneCopyPerReport'
<1>1. CASE EndsRun
  BY <1>1, EndsMean DEF OneCopyPerReport
<1>2. CASE UNCHANGED <<threads, counter, copies>>
  <2>1. SameReports
    BY <1>2 DEF SameReports, Recompiled, Reported, Pending, Reporting
  <2> QED
    BY <1>2, <2>1, CopiesKept
<1>3. RunMain \/ Restart \/ UNCHANGED vars => UNCHANGED <<threads, counter, copies>>
  BY DEF RunMain, Restart, vars
<1>4. ASSUME NEW t \in Threads,
             (\E f \in Functions : Call(t, f)) \/ (\E tr \in Trampolines : EnterLoop(t, tr))
               \/ Return(t) \/ Load(t)
      PROVE  OneCopyPerReport'
  <2>1. UNCHANGED <<copies, counter>>
    BY <1>4 DEF Call, EnterLoop, Return, Load
  <2>2. Others(t) /\ threads'[t].step \in {"code", "load", "store"}
    BY <1>4, CodeEffects, TrampolineEffects DEF GoesOn
  <2>3. threads[t].step \in {"code", "load"}
    BY <1>4 DEF Call, MayCall, EnterLoop, Return, Load, Step
  <2>4. SameReports
    BY <2>1, <2>2, <2>3, QuietReports DEF Pending, Reporting
  <2> QED
    BY <2>1, <2>4, CopiesKept
<1>5. ASSUME NEW t \in Threads, Store(t) PROVE OneCopyPerReport'
  BY <1>5, StoreSameReports, CopiesKept DEF Store
<1>6. ASSUME NEW t \in Threads, BeginDump(t) \/ EndDump(t) \/ Unmap(t) PROVE OneCopyPerReport'
  <2>1. UNCHANGED <<copies, counter>>
    BY <1>6 DEF BeginDump, EndDump, Unmap
  <2>2. /\ Others(t) /\ threads'[t].at = threads[t].at
        /\ threads'[t].step \in {"dumping", "fetch", "unmap", "compile"}
    BY <1>6, TrampolineEffects DEF Reports, GoesOn
  <2>3. threads[t].step \in {"message", "dumping", "unmap"}
    BY <1>6 DEF BeginDump, EndDump, Unmap, Step
  <2>4. SameReports
    BY <2>1, <2>2, <2>3, QuietReports DEF Pending, Reporting
  <2> QED
    BY <2>1, <2>4, CopiesKept
<1>7. ASSUME NEW t \in Threads, Fetch(t) PROVE OneCopyPerReport'
  <2>1. UNCHANGED <<copies, counter>> /\ threads[t].step = "fetch"
    BY <1>7 DEF Fetch, Step
  <2>2. Others(t) /\ (BackToCode(t) \/ Reports(t, "compile"))
    BY <1>7, TrampolineEffects DEF Reports, GoesOn, BackToCode
  <2>3. Shared(Target(t))
    BY <2>1 DEF Linked, Unlinked
  <2>4. \A tr \in Trampolines : ~Shared(Owner[tr]) => (Pending(t, tr)' <=> Pending(t, tr))
    <3> SUFFICES ASSUME NEW tr \in Trampolines, ~Shared(Owner[tr]) PROVE ~Pending(t, tr) /\ ~Pending(t, tr)'
      OBVIOUS
    <3>1. threads[t].at # tr
      BY <2>3 DEF Target
    <3> QED
      BY <2>2, <3>1 DEF Pending, Reporting, BackToCode, Reports, GoesOn
  <2> QED
    BY <2>1, <2>2, <2>4, QuietReports, CopiesKept
<1>8. ASSUME NEW t \in Threads, Link(t) \/ Patch(t) PROVE OneCopyPerReport'
  <2>1. counter' = counter /\ threads[t].step \in {"link", "patch"}
    BY <1>8 DEF Link, Patch, Step
  <2>2. Others(t) /\ threads'[t].step \in {"patch", "code"}
    BY <1>8, TrampolineEffects DEF Reports, GoesOn, BackToCode
  <2>3. SameReports
    BY <2>1, <2>2, QuietReports DEF Pending, Reporting
  <2>4. CASE Link(t)
    BY <2>3, <2>4, CopiesKept DEF Link
  <2>5. CASE Patch(t)
    <3>1. \A g \in Functions : Len(copies'[g]) = Len(copies[g])
      BY <2>5, PatchWrites
    <3>2. \A g \in Functions : copies'[g] # <<>> => copies[g] # <<>>
      <4>1. copies' \in [Functions -> Seq(Copies)] /\ copies \in [Functions -> Seq(Copies)]
        BY <2>5, PatchWrites DEF TypeOK
      <4> QED
        BY <3>1, <4>1, EmptySeq
    <3> QED
      BY <2>3, <3>1, <3>2, CopiesKept
  <2> QED
    BY <1>8, <2>4, <2>5
<1>9. ASSUME NEW t \in Threads, Recompile(t) PROVE OneCopyPerReport'
  <2>1. Target(t) \in Functions /\ threads[t].at \in Trampolines
    BY ContextOf
  <2> QED
    BY <1>9, <2>1, RecompileCounted
<1>10. (\A t \in Threads : Quits(t) => EndsRun) /\ (Exit \/ Kill => EndsRun)
  BY Endings
<1> QED
  BY <1>1, <1>2, <1>3, <1>4, <1>5, <1>6, <1>7, <1>8, <1>9, <1>10, CompileCounted
  DEF Next, Trampoline, Quits

ReportsInv == Counts /\ OneCopyPerReport

LEMMA ReportsInit == Init => ReportsInv
<1> SUFFICES ASSUME Init PROVE ReportsInv
  OBVIOUS
<1>1. Fresh(copies, mapping, counter, enabled, loaded, threads)
  BY DEF Init
<1>2. /\ \A f \in Functions : copies[f] = <<>>
      /\ \A t \in Threads : threads[t].step = "code"
  BY <1>1, FreshMeans
<1> QED
  BY <1>2 DEF ReportsInv, Counts, Counting, OneCopyPerReport

LEMMA ReportsNext == IInv /\ ReportsInv /\ [Next]_vars => ReportsInv'
BY CountsNext, CopiesCounted DEF IInv, ReportsInv

LEMMA ReportsAlways == Spec => []ReportsInv
<1> QED
  BY ReportsInit, ReportsNext, InvAlways, PTL DEF Spec

(* A trampoline makes one copy: for any number of trampolines, threads and *)
(* runs, a function that one thread runs and that is compiled has one copy *)
(* for its first compilation and one for every trampoline of its own that  *)
(* reported, as long as no counter is decremented a whole round of its 32  *)
(* bits.  What other threads share, and report twice, does not disturb it. *)
THEOREM ReportsCompileOnce == Spec => []OneCopyPerReport
<1>1. ReportsInv => OneCopyPerReport
  BY DEF ReportsInv
<1> QED
  BY <1>1, ReportsAlways, PTL

(* After InsertMessage has returned for a trampoline, a call of its        *)
(* function from any call site ends in powered code, also while another    *)
(* trampoline of the function is having it compiled and linked again, and  *)
(* also if threads share the function, unless one of them is still about   *)
(* to patch the copy that was compiled without the pass.                   *)
THEOREM HotCallsPowered == Spec => []CallsRunPowered
<1>1. IInv => CallsRunPowered
  <2> SUFFICES ASSUME IInv, NEW tr \in Trampolines, Reported(tr),
                      \A t \in Threads : ~Reporting(t, tr),
                      Shared(Owner[tr]) => \A t \in Threads : ~PatchesCold(t, Owner[tr]),
                      NEW n \in 1..Len(copies[Owner[tr]])
               PROVE  copies[Owner[tr]][Newest(Owner[tr], n)].powered
    BY Zenon DEF CallsRunPowered
  <2>1. PICK f \in Functions : f = Owner[tr]
    BY OwnerTyped
  <2>2. PICK len \in Nat : len = Len(copies[f])
    BY DEF IInv, TypeOK
  <2>3. Newest(f, n) \in 1..len /\ copies[f][Newest(f, n)].next = 0
    BY <2>1, <2>2, NewestEnds DEF IInv, Jumps, Forward
  <2>4. Hot(f) /\ Powered(f)
    BY <2>1 DEF IInv, Warm, Heat, Heated
  <2>5. PICK m \in 1..len : m = Newest(f, n) /\ copies[f][m].next = 0
    BY <2>3
  <2>6. CASE m # 1
    BY <2>1, <2>2, <2>4, <2>5, <2>6 DEF Powered
  <2>7. ASSUME m = 1, ~copies[f][1].powered PROVE FALSE
    <3>1. len > 1 /\ Shared(f) /\ copies[f][1].next = 0
      BY <2>2, <2>4, <2>5, <2>7 DEF Hot
    <3>2. mapping[f] # 1
      BY <2>2, <3>1 DEF IInv, Jumps, Forward
    <3>3. PICK t \in Threads : Relinks(t) /\ Target(t) = f /\ threads[t].old = 1
      BY <2>2, <2>4, <2>7, <3>1, <3>2 DEF Powered
    <3>4. PatchesCold(t, f)
      BY <2>7, <3>3 DEF Relinks, PatchesCold
    <3> QED
      BY <2>1, <3>1, <3>4
  <2> QED
    BY <2>1, <2>5, <2>6, <2>7
<1> QED
  BY <1>1, InvAlways, PTL
===============================================================================
