----------------------------- MODULE InOrderMemory -----------------------------
(***************************************************************************)
(* What the load and store queues of the out-of-order core promise: each   *)
(* thread executes its uops one at a time and in program order on a memory *)
(* of chunks of bytes.  A load of a chunk that no other thread stores to   *)
(* returns what is there, and so does a locked one; other loads are not    *)
(* ordered.  From a locked load to the store that ends its instruction no  *)
(* other thread stores to the chunk.  What is not promised: a store to a   *)
(* chunk that others store to may write once more what stores of its own   *)
(* thread left there since its last fence, over what others have stored.   *)
(***************************************************************************)
EXTENDS Naturals, Sequences

CONSTANTS Threads, Chunks, Bytes, None

VARIABLES
  prog,   \* the uops of each thread
  done,   \* how many of them it has executed
  memory, \* the tag of the uop that wrote each byte of each chunk
  result  \* what the last load of each thread returned

mvars == <<prog, done, memory, result>>

Uops(t) == 1..Len(prog[t])
Private(t, c) ==
  \A u \in Threads \ {t} : \A i \in Uops(u) :
    ~(prog[u][i].kind = "st" /\ prog[u][i].chunk = c)

Writes(t, j, c, b) ==
  prog[t][j].kind = "st" /\ prog[t][j].chunk = c /\ b \in prog[t][j].bytes

(* The last store of the thread to a byte of the chunk of its store i,     *)
(* unless a fence that holds stores back stands between the two.           *)
LastStore(t, i, b) ==
  {j \in 1..(i - 1) :
     /\ Writes(t, j, prog[t][i].chunk, b)
     /\ \A k \in (j + 1)..(i - 1) :
          /\ ~Writes(t, k, prog[t][i].chunk, b)
          /\ ~(prog[t][k].kind = "mf" /\ "st" \in prog[t][k].holds)}

(* The bytes that the store may write again (oooexec.cpp:1026).            *)
Again(t, i) ==
  {b \in Bytes : ~Private(t, prog[t][i].chunk) /\ LastStore(t, i, b) # {}}

(* The thread has executed the locked load of an instruction on the chunk, *)
(* and not yet its store.                                                  *)
InUpdate(t, c) ==
  \E i \in 1..done[t], j \in Uops(t) \ (1..done[t]) :
    /\ prog[t][i].locked /\ prog[t][i].kind = "ld"
    /\ prog[t][j].locked /\ prog[t][j].kind = "st"
    /\ prog[t][i].som = prog[t][j].som
    /\ prog[t][i].chunk = c /\ prog[t][j].chunk = c

Init ==
  /\ done = [t \in Threads |-> 0]
  /\ memory = [c \in Chunks |-> [b \in Bytes |-> None]]
  /\ result = [t \in Threads |-> None]

Step(t, kind) ==
  /\ done[t] < Len(prog[t])
  /\ prog[t][done[t] + 1].kind = kind
  /\ done' = [done EXCEPT ![t] = @ + 1]
  /\ UNCHANGED prog

Load(t) ==
  LET op == prog[t][done[t] + 1]
  IN  /\ Step(t, "ld")
      /\ Private(t, op.chunk) \/ op.locked =>
           result'[t] = [b \in op.bytes |-> memory[op.chunk][b]]
      /\ \A u \in Threads \ {t} : result'[u] = result[u]
      /\ UNCHANGED memory

Store(t) ==
  LET i == done[t] + 1  op == prog[t][i]
  IN  /\ Step(t, "st")
      /\ \A u \in Threads \ {t} : ~InUpdate(u, op.chunk)
      /\ \E again \in SUBSET Again(t, i) :
           memory' = [memory EXCEPT ![op.chunk] =
                        [b \in Bytes |->
                           IF b \in op.bytes THEN <<t, i>>
                           ELSE IF b \in again THEN <<t, CHOOSE j \in LastStore(t, i, b) : TRUE>>
                           ELSE @[b]]]
      /\ UNCHANGED result

Fence(t) == Step(t, "mf") /\ UNCHANGED <<memory, result>>

(* The instruction the thread is in starts again. *)
Restart(t) ==
  /\ 0 < done[t] /\ done[t] < Len(prog[t])
  /\ done' = [done EXCEPT ![t] = prog[t][@ + 1].som - 1]
  /\ UNCHANGED <<prog, memory, result>>

Next == \E t \in Threads : Load(t) \/ Store(t) \/ Fence(t) \/ Restart(t)

Spec == Init /\ [][Next]_mvars
================================================================================
