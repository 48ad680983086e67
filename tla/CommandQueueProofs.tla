------------------------- MODULE CommandQueueProofs -------------------------
(***************************************************************************)
(* Theorems about CommandQueue, for every set of commands, every           *)
(* assignment of priorities and every bound on the number of clears: the   *)
(* safety invariants, and that the queue implements CommandChannel.        *)
(***************************************************************************)
EXTENDS CommandQueue, SequenceTheorems, TLAPS

(* Replacing one array of the heap leaves every other as it was. *)
Heap == [0..MaxClear -> [Priority -> Seq(Command)]]

LEMMA HeapType ==
  ASSUME TypeOK
  PROVE  /\ heap \in Heap
         /\ \A g \in 0..MaxClear, p \in Priority : heap[g][p] \in Seq(Command)
BY DEF TypeOK, Heap

LEMMA HeapUpdate ==
  ASSUME NEW h \in Heap, NEW g \in 0..MaxClear, NEW p \in Priority,
         NEW s \in Seq(Command)
  PROVE  /\ [h EXCEPT ![g][p] = s] \in Heap
         /\ \A k \in 0..MaxClear, q \in Priority :
              [h EXCEPT ![g][p] = s][k][q] = IF k = g /\ q = p THEN s ELSE h[k][q]
<1>1. [h[g] EXCEPT ![p] = s] \in [Priority -> Seq(Command)]
  BY DEF Heap
<1>. QED BY <1>1 DEF Heap

(* The one way a loop touches the arrays: types are kept. *)
LEMMA ShiftType ==
  ASSUME TypeOK, NEW l \in Loop, NEW g \in 0..MaxClear, NEW p \in Priority,
         ShiftFrom(l, g, p)
  PROVE  /\ heap' \in [0..MaxClear -> [Priority -> Seq(Command)]]
         /\ cur' \in [Loop -> Command \cup {NoCommand}]
<1>1. CASE heap[g][p] = << >>
  BY <1>1 DEF ShiftFrom, TypeOK, Loop
<1>2. CASE heap[g][p] # << >>
  <2>1. heap[g][p] \in Seq(Command)
    BY DEF TypeOK
  <2>2. Head(heap[g][p]) \in Command /\ Tail(heap[g][p]) \in Seq(Command)
    BY <1>2, <2>1, HeadTailProperties
  <2>3. heap' = [heap EXCEPT ![g][p] = Tail(heap[g][p])]
    BY <1>2 DEF ShiftFrom
  <2>4. heap \in Heap
    BY DEF TypeOK, Heap
  <2>5. heap' \in Heap
    BY <2>2, <2>3, <2>4, HeapUpdate
  <2>. QED
    BY <1>2, <2>2, <2>5 DEF ShiftFrom, TypeOK, Loop, Heap
<1>. QED BY <1>1, <1>2

LEMMA EnterType ==
  ASSUME TypeOK, NEW l \in Loop, NEW p \in Priority, Enter(l, p)
  PROVE  /\ heap' \in [0..MaxClear -> [Priority -> Seq(Command)]]
         /\ cur' \in [Loop -> Command \cup {NoCommand}]
         /\ at' \in [Loop -> {"none", "scheduled", "ended"} \cup Priority]
         /\ holds' \in [Loop -> 0..MaxClear]
<1>1. gen \in 0..MaxClear
  BY DEF TypeOK
<1>2. ShiftFrom(l, gen, p)
  BY DEF Enter
<1>. QED BY <1>1, <1>2, ShiftType DEF Enter, TypeOK

LEMMA TypeInit == Init => TypeOK
<1>1. << >> \in Seq(Command) /\ 0 \in 0..MaxClear
  BY QueueAssumption
<1>2. Init => heap \in Heap
  BY <1>1 DEF Init, Heap
<1>5. Init => gen \in 0..MaxClear /\ isProcessing \in BOOLEAN
  BY <1>1 DEF Init
<1>3. Init => /\ at \in [Loop -> {"none", "scheduled", "ended"} \cup Priority]
              /\ holds \in [Loop -> 0..MaxClear]
              /\ cur \in [Loop -> Command \cup {NoCommand}]
  BY <1>1 DEF Init
<1>4. Init => status \in [Command -> {"unsent", "pending"} \cup Outcome]
  BY DEF Init
<1>. QED BY <1>2, <1>3, <1>4, <1>5 DEF TypeOK, Heap

(* Every variable keeps its type in every reachable state. *)
THEOREM Typing == Safety => []TypeOK
<1>1. Init => TypeOK
  BY TypeInit
<1>2. TypeOK /\ [Next]_vars => TypeOK'
  <2> SUFFICES ASSUME TypeOK, [Next]_vars PROVE TypeOK'
    OBVIOUS
  <2>. USE QueueAssumption
  <2>1. ASSUME NEW c \in Command, Add(c) PROVE TypeOK'
    <3>1. PriorityOf[c] \in Priority /\ heap[gen][PriorityOf[c]] \in Seq(Command)
      BY DEF TypeOK
    <3>2. Append(heap[gen][PriorityOf[c]], c) \in Seq(Command)
      BY <3>1, AppendProperties
    <3>3. heap' \in Heap
      BY <2>1, <3>1, <3>2, HeapUpdate DEF Add, TypeOK, Heap
    <3>4. at' \in [Loop -> {"none", "scheduled", "ended"} \cup Priority]
      BY <2>1 DEF Add, TypeOK, Loop
    <3>5. status' \in [Command -> {"unsent", "pending"} \cup Outcome]
      BY <2>1 DEF Add, TypeOK
    <3>6. UNCHANGED <<gen, isProcessing, holds, cur>>
      BY <2>1 DEF Add
    <3>. QED BY <3>3, <3>4, <3>5, <3>6 DEF TypeOK, Heap
  <2>2. ASSUME NEW l \in Loop, StartLoop(l) PROVE TypeOK'
    <3>1. CASE isProcessing \/ ~HasCommands
      BY <2>2, <3>1 DEF StartLoop, TypeOK
    <3>2. CASE ~isProcessing /\ HasCommands
      <4>1. Enter(l, "high")
        BY <2>2, <3>2 DEF StartLoop
      <4>. QED BY <2>2, <3>2, <4>1, EnterType DEF StartLoop, TypeOK, Priority
    <3>. QED BY <3>1, <3>2
  <2>3. ASSUME NEW l \in Loop, NEW outcome \in Outcome, Complete(l, outcome)
        PROVE  TypeOK'
    <3>1. holds[l] \in 0..MaxClear /\ at[l] \in Priority /\ ShiftFrom(l, holds[l], at[l])
      BY <2>3 DEF Complete, Active, TypeOK
    <3>. QED BY <2>3, <3>1, ShiftType DEF Complete, TypeOK
  <2>4. ASSUME NEW l \in Loop, NextPriority(l) PROVE TypeOK'
    <3>1. \E p \in Priority : Enter(l, p)
      BY <2>4 DEF NextPriority, Priority
    <3>. QED BY <2>4, <3>1, EnterType DEF NextPriority, TypeOK
  <2>5. ASSUME NEW l \in Loop, EndPass(l) PROVE TypeOK'
    <3>1. CASE HasCommands
      <4>1. Enter(l, "high")
        BY <2>5, <3>1 DEF EndPass
      <4>. QED BY <2>5, <3>1, <4>1, EnterType DEF EndPass, TypeOK, Priority
    <3>2. CASE ~HasCommands
      <4>1. 0 \in 0..MaxClear
        OBVIOUS
      <4>2. /\ at' = [at EXCEPT ![l] = "ended"]
            /\ isProcessing' = FALSE
            /\ holds' = [holds EXCEPT ![l] = 0]
            /\ UNCHANGED <<heap, gen, cur, status>>
        BY <2>5, <3>2 DEF EndPass
      <4>. QED BY <4>1, <4>2 DEF TypeOK
    <3>. QED BY <3>1, <3>2
  <2>6. ASSUME Clear PROVE TypeOK'
    BY <2>6 DEF Clear, TypeOK
  <2>7. ASSUME UNCHANGED vars PROVE TypeOK'
    BY <2>7 DEF vars, TypeOK
  <2>. QED BY <2>1, <2>2, <2>3, <2>4, <2>5, <2>6, <2>7 DEF Next
<1>. QED BY <1>1, <1>2, PTL DEF Safety

-----------------------------------------------------------------------------
(* Mutual exclusion of the loops and the absence of lost wakeups.  The      *)
(* arrays that later clears will put in place are still empty, so clearing  *)
(* leaves no command without a loop.                                        *)
FreshEmpty == \A g \in 0..MaxClear, p \in Priority : g > gen => heap[g][p] = << >>

LoopInv == TypeOK /\ OneLoop /\ NoLostWakeup /\ FreshEmpty

(* Shifting fills no array. *)
LEMMA ShiftShrinks ==
  ASSUME TypeOK, NEW l \in Loop, NEW g \in 0..MaxClear, NEW p \in Priority,
         ShiftFrom(l, g, p)
  PROVE  \A k \in 0..MaxClear, q \in Priority :
           heap[k][q] = << >> => heap'[k][q] = << >>
<1>1. CASE heap[g][p] = << >>
  BY <1>1 DEF ShiftFrom
<1>2. CASE heap[g][p] # << >>
  <2>1. heap \in Heap /\ heap[g][p] \in Seq(Command)
    BY DEF TypeOK, Heap
  <2>2. Tail(heap[g][p]) \in Seq(Command)
    BY <1>2, <2>1, HeadTailProperties
  <2>3. heap' = [heap EXCEPT ![g][p] = Tail(heap[g][p])]
    BY <1>2 DEF ShiftFrom
  <2>. QED BY <1>2, <2>1, <2>2, <2>3, HeapUpdate
<1>. QED BY <1>1, <1>2

(* An add only ever schedules a loop that is not active. *)
LEMMA AddActive ==
  ASSUME TypeOK, OneLoop, NEW c \in Command, Add(c)
  PROVE  \A m \in Loop : Active(m)' <=> Active(m)
<1>1. CASE isProcessing
  BY <1>1 DEF Add, Active
<1>2. CASE ~isProcessing
  <2>1. at' = [at EXCEPT ![c] = "scheduled"] /\ ~Active(c)
    BY <1>2 DEF Add, OneLoop, Loop
  <2>. QED BY <2>1 DEF Active, TypeOK, Priority, Loop
<1>. QED BY <1>1, <1>2

(* Starting or continuing a loop that is the only active one. *)
LEMMA EnterLoop ==
  ASSUME LoopInv, TypeOK', NEW l \in Loop, NEW p \in Priority, Enter(l, p),
         gen' = gen, isProcessing' = TRUE,
         \A m \in Loop : Active(m) => m = l
  PROVE  LoopInv'
<1>1. at' = [at EXCEPT ![l] = p] /\ at \in [Loop -> {"none", "scheduled", "ended"} \cup Priority]
  BY DEF Enter, LoopInv, TypeOK
<1>2. OneLoop'
  BY <1>1 DEF OneLoop, Active
<1>3. NoLostWakeup'
  BY DEF NoLostWakeup
<1>4. ShiftFrom(l, gen, p) /\ gen \in 0..MaxClear
  BY DEF Enter, LoopInv, TypeOK
<1>5. FreshEmpty'
  BY <1>4, ShiftShrinks DEF FreshEmpty, LoopInv
<1>. QED BY <1>2, <1>3, <1>5 DEF LoopInv

(* LoopInv is inductive.                                                    *)
LEMMA LoopInvHolds == Safety => []LoopInv
<1>1. Init => LoopInv
  <2> SUFFICES ASSUME Init PROVE LoopInv
    OBVIOUS
  <2>1. TypeOK
    BY TypeInit
  <2>2. \A g \in 0..MaxClear, p \in Priority : heap[g][p] = << >>
    BY DEF Init
  <2>3. \A l \in Loop : ~Active(l)
    BY DEF Init, Active, Priority
  <2>4. ~HasCommands
    BY <2>1, <2>2 DEF HasCommands, TypeOK
  <2>. QED BY <2>1, <2>2, <2>3, <2>4 DEF LoopInv, OneLoop, NoLostWakeup, FreshEmpty, Init
<1>2. LoopInv /\ TypeOK' /\ [Next]_vars => LoopInv'
  <2> SUFFICES ASSUME LoopInv, TypeOK', [Next]_vars PROVE LoopInv'
    OBVIOUS
  <2>. USE QueueAssumption
  <2>1. ASSUME NEW c \in Command, Add(c) PROVE LoopInv'
    <3>1. PriorityOf[c] \in Priority /\ heap \in Heap /\ gen \in 0..MaxClear
      BY DEF LoopInv, TypeOK, Heap
    <3>2. Append(heap[gen][PriorityOf[c]], c) \in Seq(Command)
      BY <3>1, AppendProperties DEF Heap
    <3>3. \A k \in 0..MaxClear, q \in Priority : k # gen => heap'[k][q] = heap[k][q]
      BY <2>1, <3>1, <3>2, HeapUpdate DEF Add
    <3>4. FreshEmpty'
      BY <2>1, <3>1, <3>3 DEF Add, FreshEmpty, LoopInv
    <3>5. \A m \in Loop : Active(m)' <=> Active(m)
      BY <2>1, AddActive DEF LoopInv
    <3>7. OneLoop'
      BY <2>1, <3>5 DEF Add, OneLoop, LoopInv
    <3>6. NoLostWakeup'
      BY <2>1 DEF Add, NoLostWakeup, LoopInv, TypeOK, Loop
    <3>. QED BY <3>4, <3>6, <3>7 DEF LoopInv
  <2>2. ASSUME NEW l \in Loop, StartLoop(l) PROVE LoopInv'
    <3>1. CASE isProcessing \/ ~HasCommands
      <4>1. /\ at' = [at EXCEPT ![l] = "ended"]
            /\ UNCHANGED <<heap, gen, isProcessing>>
        BY <2>2, <3>1 DEF StartLoop
      <4>2. ~Active(l)
        BY <2>2 DEF StartLoop, Active, Priority
      <4>3. OneLoop'
        BY <4>1, <4>2 DEF OneLoop, Active, LoopInv, TypeOK, Priority
      <4>4. NoLostWakeup'
        BY <3>1, <4>1 DEF NoLostWakeup, HasCommands
      <4>5. FreshEmpty'
        BY <4>1 DEF FreshEmpty, LoopInv
      <4>. QED BY <4>3, <4>4, <4>5 DEF LoopInv
    <3>2. CASE ~isProcessing /\ HasCommands
      <4>1. Enter(l, "high") /\ isProcessing' = TRUE /\ gen' = gen
        BY <2>2, <3>2 DEF StartLoop
      <4>2. \A m \in Loop : ~Active(m)
        BY <3>2 DEF LoopInv, OneLoop
      <4>. QED BY <4>1, <4>2, EnterLoop DEF Priority
    <3>. QED BY <3>1, <3>2
  <2>3. ASSUME NEW l \in Loop, NEW outcome \in Outcome, Complete(l, outcome)
        PROVE  LoopInv'
    <3>1. holds[l] \in 0..MaxClear /\ at[l] \in Priority /\ ShiftFrom(l, holds[l], at[l])
      BY <2>3 DEF Complete, Active, LoopInv, TypeOK
    <3>2. isProcessing /\ UNCHANGED <<gen, isProcessing, at>>
      BY <2>3 DEF Complete, LoopInv, OneLoop
    <3>3. FreshEmpty'
      BY <3>1, <3>2, ShiftShrinks DEF FreshEmpty, LoopInv
    <3>. QED BY <3>2, <3>3 DEF LoopInv, OneLoop, NoLostWakeup, Active
  <2>4. ASSUME NEW l \in Loop, NextPriority(l) PROVE LoopInv'
    <3>1. PICK p \in Priority : Enter(l, p)
      BY <2>4 DEF NextPriority, Priority
    <3>2. Active(l)
      BY <2>4 DEF NextPriority, Active, Priority
    <3>3. isProcessing' = TRUE /\ gen' = gen
      BY <2>4, <3>2 DEF NextPriority, LoopInv, OneLoop, TypeOK
    <3>. QED BY <3>1, <3>2, <3>3, EnterLoop DEF LoopInv, OneLoop
  <2>5. ASSUME NEW l \in Loop, EndPass(l) PROVE LoopInv'
    <3>1. Active(l) /\ isProcessing /\ gen' = gen
      BY <2>5 DEF EndPass, Active, Priority, LoopInv, OneLoop
    <3>2. CASE HasCommands
      <4>1. Enter(l, "high") /\ isProcessing' = TRUE
        BY <2>5, <3>1, <3>2 DEF EndPass, LoopInv, TypeOK
      <4>. QED BY <3>1, <4>1, EnterLoop DEF LoopInv, OneLoop, Priority
    <3>3. CASE ~HasCommands
      <4>1. /\ at' = [at EXCEPT ![l] = "ended"]
            /\ isProcessing' = FALSE
            /\ UNCHANGED <<heap, gen>>
        BY <2>5, <3>3 DEF EndPass
      <4>2. OneLoop'
        BY <3>1, <4>1 DEF OneLoop, Active, LoopInv, TypeOK, Priority
      <4>3. NoLostWakeup' /\ FreshEmpty'
        BY <3>3, <4>1 DEF NoLostWakeup, HasCommands, FreshEmpty, LoopInv
      <4>. QED BY <4>2, <4>3 DEF LoopInv
    <3>. QED BY <3>2, <3>3
  <2>6. ASSUME Clear PROVE LoopInv'
    <3>1. /\ gen \in 0..MaxClear /\ gen' = gen + 1 /\ gen + 1 \in 0..MaxClear
          /\ UNCHANGED <<heap, isProcessing, at>>
      BY <2>6 DEF Clear, LoopInv, TypeOK
    <3>2. FreshEmpty'
      BY <3>1 DEF FreshEmpty, LoopInv
    <3>3. ~HasCommands'
      BY <3>1 DEF HasCommands, FreshEmpty, LoopInv
    <3>. QED BY <3>1, <3>2, <3>3 DEF LoopInv, OneLoop, NoLostWakeup, Active
  <2>7. ASSUME UNCHANGED vars PROVE LoopInv'
    BY <2>7 DEF vars, LoopInv, OneLoop, NoLostWakeup, FreshEmpty, HasCommands, Active
  <2>. QED BY <2>1, <2>2, <2>3, <2>4, <2>5, <2>6, <2>7 DEF Next
<1>. QED BY <1>1, <1>2, Typing, PTL DEF Safety

(* Whatever the interleaving of adds, setImmediate callbacks, completions   *)
(* and clears, one loop at most is processing, isProcessing says whether    *)
(* one is, and no command waits with no loop coming for it.                 *)
THEOREM LoopsCorrect == Safety => []LoopsServe
<1>1. LoopInv => LoopsServe
  BY DEF LoopInv, LoopsServe
<1>. QED BY <1>1, LoopInvHolds, PTL

-----------------------------------------------------------------------------
(* Every command is in one place at most. *)
PlaceInv == LoopInv /\ OnePlace

(* What shifting does, index by index: the array of (g, p) moves up by one  *)
(* if it was not empty, and its first command is the one the loop executes. *)
LEMMA ShiftIndex ==
  ASSUME TypeOK, NEW l \in Loop, NEW g \in 0..MaxClear, NEW p \in Priority,
         ShiftFrom(l, g, p),
         NEW k \in 0..MaxClear, NEW q \in Priority, NEW i \in 1..Len(heap'[k][q])
  PROVE  \E j \in 1..Len(heap[k][q]) :
           /\ heap'[k][q][i] = heap[k][q][j]
           /\ j = IF k = g /\ q = p /\ heap[g][p] # << >> THEN i + 1 ELSE i
<1>0. heap \in Heap /\ heap[k][q] \in Seq(Command) /\ heap[g][p] \in Seq(Command)
  BY HeapType
<1>1. CASE heap[g][p] = << >>
  BY <1>0, <1>1 DEF ShiftFrom
<1>2. CASE heap[g][p] # << >>
  <2>1. heap' = [heap EXCEPT ![g][p] = Tail(heap[g][p])]
    BY <1>2 DEF ShiftFrom
  <2>2. Tail(heap[g][p]) \in Seq(Command)
    BY <1>0, <1>2, HeadTailProperties
  <2>3. CASE k = g /\ q = p
    <3>0. heap'[g][p] = Tail(heap[g][p])
      <4>1. [heap EXCEPT ![g][p] = Tail(heap[g][p])][g][p] = Tail(heap[g][p])
        BY <1>0, <2>2 DEF Heap
      <4>. QED BY <2>1, <4>1
    <3>1. heap'[k][q] = Tail(heap[g][p])
      BY <2>3, <3>0
    <3>2. /\ Len(Tail(heap[g][p])) = Len(heap[g][p]) - 1
          /\ \A n \in 1..Len(Tail(heap[g][p])) : Tail(heap[g][p])[n] = heap[g][p][n + 1]
      BY <1>0, <1>2, HeadTailProperties
    <3>3. Len(heap[g][p]) \in Nat
      BY <1>0, LenProperties
    <3>4. i \in 1..Len(heap[g][p]) - 1 /\ heap'[k][q][i] = heap[g][p][i + 1]
      BY <3>1, <3>2
    <3>5. i + 1 \in 1..Len(heap[g][p])
      BY <3>3, <3>4
    <3>. QED BY <1>2, <2>3, <3>4, <3>5
  <2>4. CASE ~(k = g /\ q = p)
    <3>1. heap'[k][q] = heap[k][q]
      BY <1>0, <2>1, <2>2, <2>4, HeapUpdate
    <3>. QED BY <2>4, <3>1
  <2>. QED BY <2>3, <2>4
<1>. QED BY <1>1, <1>2

LEMMA ShiftHead ==
  ASSUME TypeOK, NEW l \in Loop, NEW g \in 0..MaxClear, NEW p \in Priority,
         ShiftFrom(l, g, p), cur'[l] # NoCommand
  PROVE  /\ heap[g][p] # << >>
         /\ 1 \in 1..Len(heap[g][p])
         /\ cur'[l] = heap[g][p][1]
<1>1. heap[g][p] # << >> /\ cur'[l] = Head(heap[g][p])
  BY DEF ShiftFrom, TypeOK
<1>2. heap[g][p] \in Seq(Command)
  BY DEF TypeOK
<1>. QED BY <1>1, <1>2, EmptySeq, LenProperties

(* A loop that puts nothing back may settle the command it had, then shift  *)
(* the next one.                                                            *)
LEMMA ShiftPlace ==
  ASSUME TypeOK, TypeOK', OnePlace,
         NEW l \in Loop, NEW g \in 0..MaxClear, NEW p \in Priority,
         ShiftFrom(l, g, p), Active(l)',
         \A m \in Loop : m # l => at'[m] = at[m],
         \A c \in Command : c # cur[l] => status'[c] = status[c]
  PROVE  OnePlace'
<1>. USE DEF OnePlace
<1>0. \A k \in 0..MaxClear, q \in Priority : \A i \in 1..Len(heap'[k][q]) :
        \E j \in 1..Len(heap[k][q]) :
          /\ heap'[k][q][i] = heap[k][q][j]
          /\ j = IF k = g /\ q = p /\ heap[g][p] # << >> THEN i + 1 ELSE i
  BY ShiftIndex
<1>1. ArraysDistinct'
  <2> SUFFICES ASSUME NEW k \in 0..MaxClear, NEW h \in 0..MaxClear,
                      NEW q \in Priority, NEW r \in Priority,
                      NEW i \in 1..Len(heap'[k][q]), NEW j \in 1..Len(heap'[h][r]),
                      heap'[k][q][i] = heap'[h][r][j]
               PROVE  k = h /\ q = r /\ i = j
    BY DEF ArraysDistinct
  <2>1. PICK a \in 1..Len(heap[k][q]) :
           /\ heap'[k][q][i] = heap[k][q][a]
           /\ a = IF k = g /\ q = p /\ heap[g][p] # << >> THEN i + 1 ELSE i
    BY <1>0
  <2>2. PICK b \in 1..Len(heap[h][r]) :
           /\ heap'[h][r][j] = heap[h][r][b]
           /\ b = IF h = g /\ r = p /\ heap[g][p] # << >> THEN j + 1 ELSE j
    BY <1>0
  <2>3. heap[k][q][a] = heap[h][r][b]
    BY <2>1, <2>2
  <2>4. k = h /\ q = r /\ a = b
    <3>1. ArraysDistinct
      OBVIOUS
    <3>2. \A x \in 1..Len(heap[k][q]), y \in 1..Len(heap[h][r]) :
            heap[k][q][x] = heap[h][r][y] => k = h /\ q = r /\ x = y
      BY <3>1, SMTT(30) DEF ArraysDistinct
    <3>3. a \in 1..Len(heap[k][q]) /\ b \in 1..Len(heap[h][r])
      BY <2>1, <2>2
    <3>. QED BY <2>3, <3>2, <3>3, Zenon
  <2>. QED BY <2>1, <2>2, <2>4
<1>2. \A m \in Loop : m # l => cur'[m] = cur[m]
  BY DEF ShiftFrom, TypeOK
<1>3. ArraysPending'
  <2> SUFFICES ASSUME NEW k \in 0..MaxClear, NEW q \in Priority,
                      NEW i \in 1..Len(heap'[k][q])
               PROVE  /\ status'[heap'[k][q][i]] = "pending"
                      /\ PriorityOf[heap'[k][q][i]] = q
                      /\ \A m \in Loop : cur'[m] # heap'[k][q][i]
    BY DEF ArraysPending
  <2>1. PICK j \in 1..Len(heap[k][q]) :
           /\ heap'[k][q][i] = heap[k][q][j]
           /\ j = IF k = g /\ q = p /\ heap[g][p] # << >> THEN i + 1 ELSE i
    BY <1>0
  <2>2. heap[k][q][j] \in Command
    <3>1. heap[k][q] \in Seq(Command)
      BY HeapType
    <3>. QED BY <3>1, ElementOfSeq
  <2>3. status'[heap'[k][q][i]] = "pending" /\ PriorityOf[heap'[k][q][i]] = q
    BY <2>1, <2>2 DEF ArraysPending
  <2>4. ASSUME cur'[l] = heap'[k][q][i] PROVE FALSE
    <3>1. cur'[l] # NoCommand
      BY <2>1, <2>2, <2>4, QueueAssumption
    <3>2. heap[g][p] # << >> /\ 1 \in 1..Len(heap[g][p]) /\ cur'[l] = heap[g][p][1]
      BY <3>1, ShiftHead
    <3>3. k = g /\ q = p /\ j = 1
      BY <2>1, <2>4, <3>2 DEF ArraysDistinct
    <3>. QED BY <2>1, <3>2, <3>3
  <2>5. \A m \in Loop : cur'[m] # heap'[k][q][i]
    BY <1>2, <2>1, <2>4 DEF ArraysPending
  <2>. QED BY <2>3, <2>5
<1>4. RunningPending'
  <2> SUFFICES ASSUME NEW m \in Loop, cur'[m] # NoCommand
               PROVE  /\ Active(m)'
                      /\ status'[cur'[m]] = "pending"
                      /\ \A n \in Loop : cur'[n] = cur'[m] => n = m
    BY DEF RunningPending
  <2>1. cur'[m] \in Command /\ cur[l] \in Command \cup {NoCommand}
    BY DEF TypeOK
  <2>2. cur'[l] # NoCommand =>
          /\ cur'[l] = heap[g][p][1]
          /\ 1 \in 1..Len(heap[g][p])
    BY ShiftHead
  <2>3. CASE m = l
    <3>1. status[cur'[l]] = "pending" /\ \A n \in Loop : cur[n] # cur'[l]
      BY <2>2, <2>3 DEF ArraysPending
    <3>. QED BY <1>2, <2>1, <2>3, <3>1
  <2>4. CASE m # l
    <3>1. cur'[m] = cur[m] /\ at'[m] = at[m]
      BY <1>2, <2>4
    <3>2. Active(m) /\ status[cur[m]] = "pending" /\ \A n \in Loop : cur[n] = cur[m] => n = m
      BY <3>1 DEF RunningPending
    <3>3. cur'[l] # cur'[m]
      BY <2>2, <3>1 DEF ArraysPending
    <3>4. \A n \in Loop : cur'[n] = cur'[m] => n = m
      BY <1>2, <3>1, <3>2, <3>3
    <3>5. status'[cur'[m]] = "pending"
      BY <2>1, <2>4, <3>1, <3>2
    <3>6. Active(m)'
      BY <3>1, <3>2 DEF Active
    <3>. QED BY <3>4, <3>5, <3>6
  <2>. QED BY <2>3, <2>4
<1>. QED BY <1>1, <1>3, <1>4

(* What adding does, index by index. *)
LEMMA AddIndex ==
  ASSUME TypeOK, NEW c \in Command, Add(c),
         NEW k \in 0..MaxClear, NEW q \in Priority, NEW i \in 1..Len(heap'[k][q])
  PROVE  \/ i \in 1..Len(heap[k][q]) /\ heap'[k][q][i] = heap[k][q][i]
         \/ /\ k = gen /\ q = PriorityOf[c]
            /\ i = Len(heap[k][q]) + 1 /\ heap'[k][q][i] = c
<1>. DEFINE line == heap[gen][PriorityOf[c]]
<1>1. /\ heap \in Heap /\ gen \in 0..MaxClear /\ PriorityOf[c] \in Priority
      /\ line \in Seq(Command)
  BY QueueAssumption, HeapType DEF TypeOK
<1>2. Append(line, c) \in Seq(Command)
  BY <1>1, AppendProperties
<1>3. heap' = [heap EXCEPT ![gen][PriorityOf[c]] = Append(line, c)]
  BY DEF Add
<1>4. CASE k = gen /\ q = PriorityOf[c]
  <2>1. heap'[k][q] = Append(line, c)
    BY <1>1, <1>2, <1>3, <1>4 DEF Heap
  <2>2. /\ Len(Append(line, c)) = Len(line) + 1
        /\ \A n \in 1..Len(line) : Append(line, c)[n] = line[n]
        /\ Append(line, c)[Len(line) + 1] = c
    BY <1>1, AppendProperties
  <2>3. Len(line) \in Nat
    BY <1>1, LenProperties
  <2>4. i \in 1..Len(line) \/ i = Len(line) + 1
    BY <2>1, <2>2, <2>3
  <2>. QED BY <1>4, <2>1, <2>2, <2>4
<1>5. CASE ~(k = gen /\ q = PriorityOf[c])
  BY <1>1, <1>2, <1>3, <1>5 DEF Heap
<1>. QED BY <1>4, <1>5

LEMMA AddPlace ==
  ASSUME TypeOK, TypeOK', OneLoop, OnePlace, NEW c \in Command, Add(c)
  PROVE  OnePlace'
<1>. USE DEF OnePlace
<1>1. \A k \in 0..MaxClear, q \in Priority : \A i \in 1..Len(heap'[k][q]) :
        \/ i \in 1..Len(heap[k][q]) /\ heap'[k][q][i] = heap[k][q][i]
        \/ /\ k = gen /\ q = PriorityOf[c]
           /\ i = Len(heap[k][q]) + 1 /\ heap'[k][q][i] = c
  BY AddIndex
<1>2. /\ status[c] = "unsent" /\ status'[c] = "pending" /\ cur' = cur
      /\ \A d \in Command : d # c => status'[d] = status[d]
  BY DEF Add, TypeOK
<1>3. \A k \in 0..MaxClear, q \in Priority : \A i \in 1..Len(heap[k][q]) :
        heap[k][q][i] # c
  BY <1>2 DEF ArraysPending
<1>4. \A m \in Loop : cur[m] # c
  BY <1>2, QueueAssumption DEF RunningPending
<1>5. ArraysDistinct'
  <2> SUFFICES ASSUME NEW k \in 0..MaxClear, NEW h \in 0..MaxClear,
                      NEW q \in Priority, NEW r \in Priority,
                      NEW i \in 1..Len(heap'[k][q]), NEW j \in 1..Len(heap'[h][r]),
                      heap'[k][q][i] = heap'[h][r][j]
               PROVE  k = h /\ q = r /\ i = j
    BY DEF ArraysDistinct
  <2>1. \/ i \in 1..Len(heap[k][q]) /\ heap'[k][q][i] = heap[k][q][i]
        \/ k = gen /\ q = PriorityOf[c] /\ i = Len(heap[k][q]) + 1 /\ heap'[k][q][i] = c
    BY <1>1
  <2>2. \/ j \in 1..Len(heap[h][r]) /\ heap'[h][r][j] = heap[h][r][j]
        \/ h = gen /\ r = PriorityOf[c] /\ j = Len(heap[h][r]) + 1 /\ heap'[h][r][j] = c
    BY <1>1
  <2>3. CASE i \in 1..Len(heap[k][q]) /\ heap'[k][q][i] = heap[k][q][i]
    <3>1. j \in 1..Len(heap[h][r]) /\ heap'[h][r][j] = heap[h][r][j]
      BY <1>3, <2>2, <2>3
    <3>2. ArraysDistinct
      OBVIOUS
    <3>3. \A x \in 1..Len(heap[k][q]), y \in 1..Len(heap[h][r]) :
            heap[k][q][x] = heap[h][r][y] => k = h /\ q = r /\ x = y
      BY <3>2, SMTT(30) DEF ArraysDistinct
    <3>4. heap[k][q][i] = heap[h][r][j]
      BY <2>3, <3>1
    <3>. QED BY <2>3, <3>1, <3>3, <3>4, Zenon
  <2>4. CASE k = gen /\ q = PriorityOf[c] /\ i = Len(heap[k][q]) + 1 /\ heap'[k][q][i] = c
    BY <1>3, <2>2, <2>4
  <2>. QED BY <2>1, <2>3, <2>4
<1>6. ArraysPending'
  <2> SUFFICES ASSUME NEW k \in 0..MaxClear, NEW q \in Priority,
                      NEW i \in 1..Len(heap'[k][q])
               PROVE  /\ status'[heap'[k][q][i]] = "pending"
                      /\ PriorityOf[heap'[k][q][i]] = q
                      /\ \A m \in Loop : cur'[m] # heap'[k][q][i]
    BY DEF ArraysPending
  <2>1. CASE i \in 1..Len(heap[k][q]) /\ heap'[k][q][i] = heap[k][q][i]
    <3>1. heap[k][q][i] \in Command
      BY <2>1, HeapType, ElementOfSeq
    <3>. QED BY <1>2, <1>3, <2>1, <3>1 DEF ArraysPending
  <2>2. CASE q = PriorityOf[c] /\ heap'[k][q][i] = c
    BY <1>2, <1>4, <2>2
  <2>. QED BY <1>1, <2>1, <2>2
<1>7. RunningPending'
  BY <1>2, <1>4, AddActive DEF RunningPending, TypeOK
<1>. QED BY <1>5, <1>6, <1>7

(* A command is executed at most once, and answered only by its execution:  *)
(* at every moment it is in one array or in one loop or nowhere.            *)
THEOREM CommandsInOnePlace == Safety => []OnePlace
<1>1. Init => OnePlace
  BY DEF Init, OnePlace, ArraysDistinct, ArraysPending, RunningPending
<1>2. OnePlace /\ OneLoop /\ TypeOK /\ TypeOK' /\ [Next]_vars => OnePlace'
  <2> SUFFICES ASSUME OnePlace, OneLoop, TypeOK, TypeOK', [Next]_vars
               PROVE  OnePlace'
    OBVIOUS
  <2>0. \A l \in Loop : ~Active(l) => cur[l] = NoCommand
    BY DEF OnePlace, RunningPending
  <2>1. ASSUME NEW l \in Loop, NEW p \in Priority, Enter(l, p), UNCHANGED status
        PROVE  OnePlace'
    <3>1. ShiftFrom(l, gen, p) /\ gen \in 0..MaxClear
      BY <2>1 DEF Enter, TypeOK
    <3>2. Active(l)' /\ \A m \in Loop : m # l => at'[m] = at[m]
      BY <2>1 DEF Enter, Active, TypeOK
    <3>. QED BY <2>1, <3>1, <3>2, ShiftPlace
  <2>2. ASSUME NEW l \in Loop, at' = [at EXCEPT ![l] = "ended"], cur[l] = NoCommand,
               UNCHANGED <<heap, cur, status>>
        PROVE  OnePlace'
    <3>1. ArraysDistinct' /\ ArraysPending'
      BY <2>2 DEF OnePlace, ArraysDistinct, ArraysPending
    <3>2. \A m \in Loop : m # l => at'[m] = at[m]
      BY <2>2 DEF TypeOK
    <3>3. RunningPending'
      BY <2>2, <3>2 DEF OnePlace, RunningPending, Active
    <3>. QED BY <3>1, <3>3 DEF OnePlace
  <2>3. ASSUME NEW c \in Command, Add(c) PROVE OnePlace'
    BY <2>3, AddPlace
  <2>4. ASSUME NEW l \in Loop, StartLoop(l) PROVE OnePlace'
    <3>1. cur[l] = NoCommand
      BY <2>0, <2>4 DEF StartLoop, Active, Priority
    <3>2. "high" \in Priority
      BY DEF Priority
    <3>. QED BY <2>1, <2>2, <2>4, <3>1, <3>2 DEF StartLoop
  <2>5. ASSUME NEW l \in Loop, NEW outcome \in Outcome, Complete(l, outcome)
        PROVE  OnePlace'
    <3>1. /\ holds[l] \in 0..MaxClear /\ at[l] \in Priority
          /\ ShiftFrom(l, holds[l], at[l])
      BY <2>5 DEF Complete, Active, TypeOK
    <3>2. Active(l)' /\ \A m \in Loop : m # l => at'[m] = at[m]
      BY <2>5 DEF Complete, Active
    <3>3. \A c \in Command : c # cur[l] => status'[c] = status[c]
      BY <2>5 DEF Complete, TypeOK
    <3>. QED BY <3>1, <3>2, <3>3, ShiftPlace
  <2>6. ASSUME NEW l \in Loop, NextPriority(l) PROVE OnePlace'
    <3>1. \E p \in Priority : Enter(l, p)
      BY <2>6 DEF NextPriority, Priority
    <3>. QED BY <2>1, <2>6, <3>1 DEF NextPriority
  <2>7. ASSUME NEW l \in Loop, EndPass(l) PROVE OnePlace'
    <3>1. "high" \in Priority
      BY DEF Priority
    <3>. QED BY <2>1, <2>2, <2>7, <3>1 DEF EndPass
  <2>8. ASSUME Clear \/ UNCHANGED vars PROVE OnePlace'
    <3>1. UNCHANGED <<heap, at, cur, status>>
      BY <2>8 DEF Clear, vars
    <3>2. ArraysDistinct'
      BY <3>1 DEF OnePlace, ArraysDistinct
    <3>3. ArraysPending'
      BY <3>1 DEF OnePlace, ArraysPending
    <3>4. RunningPending'
      BY <3>1 DEF OnePlace, RunningPending, Active
    <3>. QED BY <3>2, <3>3, <3>4 DEF OnePlace
  <2>. QED BY <2>3, <2>4, <2>5, <2>6, <2>7, <2>8 DEF Next
<1>3. LoopsServe => OneLoop
  BY DEF LoopsServe
<1>. QED BY <1>1, <1>2, <1>3, Typing, LoopsCorrect, PTL DEF Safety

-----------------------------------------------------------------------------
(* A command dropped by a clear stays so: no later add, loop or clear       *)
(* brings it back to where it could be executed, and its promise is never   *)
(* settled.  Who awaits it waits until the process ends (clearQueue neither *)
(* rejects nor resolves what it drops).                                     *)
LostForGood == [][\A c \in Command : Lost(c) => Lost(c)']_vars

(* A loop shifts from an array that can be reached, and settles nothing or  *)
(* the command it had.                                                      *)
LEMMA ShiftLost ==
  ASSUME TypeOK, FreshEmpty, NEW c \in Command, Lost(c),
         NEW l \in Loop, NEW g \in 0..MaxClear, NEW p \in Priority,
         ShiftFrom(l, g, p), Reachable(g, p),
         at'[l] = p, holds'[l] = g, gen' = gen,
         \A m \in Loop : m # l => at'[m] = at[m] /\ holds'[m] = holds[m],
         status'[c] = status[c]
  PROVE  Lost(c)'
<1>0. \A k \in 0..MaxClear, q \in Priority : \A i \in 1..Len(heap'[k][q]) :
        \E j \in 1..Len(heap[k][q]) :
          /\ heap'[k][q][i] = heap[k][q][j]
          /\ j = IF k = g /\ q = p /\ heap[g][p] # << >> THEN i + 1 ELSE i
  BY ShiftIndex
<1>1. \A m \in Loop : m # l => cur'[m] = cur[m]
  BY DEF ShiftFrom, TypeOK
<1>2. ~Waiting(c) /\ ~Running(c) /\ status'[c] = "pending"
  BY DEF Lost
<1>3. ASSUME cur'[l] = c PROVE FALSE
  <2>1. heap[g][p] # << >> /\ 1 \in 1..Len(heap[g][p]) /\ heap[g][p][1] = c
    BY <1>3, ShiftHead, QueueAssumption
  <2>2. g \in 0..gen
    BY <2>1 DEF FreshEmpty, TypeOK
  <2> QED BY <1>2, <2>1, <2>2 DEF Waiting, InArray
<1>4. ~Running(c)'
  <2> SUFFICES ASSUME NEW m \in Loop, Active(m)', cur'[m] = c PROVE FALSE
    BY DEF Running
  <2>1. m # l
    BY <1>3
  <2> QED BY <1>1, <1>2, <2>1 DEF Running, Active
<1>5. ~Waiting(c)'
  <2> SUFFICES ASSUME NEW k \in 0..gen, NEW q \in Priority,
                      Reachable(k, q)', NEW i \in 1..Len(heap'[k][q]), heap'[k][q][i] = c
               PROVE  FALSE
    BY DEF Waiting, InArray
  <2>1. k \in 0..MaxClear
    BY QueueAssumption DEF TypeOK
  <2>2. PICK j \in 1..Len(heap[k][q]) : heap'[k][q][i] = heap[k][q][j]
    BY <1>0, <2>1
  <2>3. Reachable(k, q)
    <3>1. CASE k = gen
      BY <3>1 DEF Reachable
    <3>2. CASE k # gen
      <4>1. PICK m \in Loop : at'[m] = q /\ cur'[m] # NoCommand /\ holds'[m] = k
        BY <3>2 DEF Reachable, Held, Holding
      <4>2. CASE m = l
        BY <4>1, <4>2
      <4>3. CASE m # l
        BY <1>1, <4>1, <4>3 DEF Reachable, Held, Holding
      <4> QED BY <4>2, <4>3
    <3> QED BY <3>1, <3>2
  <2>4. InArray(c, k, q)
    BY <2>2 DEF InArray
  <2> QED BY <1>2, <2>3, <2>4 DEF Waiting
<1> QED BY <1>2, <1>4, <1>5 DEF Lost

LEMMA AddLost ==
  ASSUME TypeOK, OneLoop, NEW c \in Command, Lost(c), NEW d \in Command, Add(d)
  PROVE  Lost(c)'
<1>1. d # c /\ status'[c] = "pending" /\ UNCHANGED <<gen, holds, cur>>
  BY DEF Add, Lost, TypeOK
<1>2. ~Waiting(c) /\ ~Running(c)
  BY DEF Lost
<1>3. \A m \in Loop : Active(m)' <=> Active(m)
  BY AddActive
<1>4. ~Running(c)'
  BY <1>1, <1>2, <1>3 DEF Running
<1>5. \A m \in Loop, q \in Priority : at'[m] = q => at[m] = q
  BY <1>3 DEF Add, Active, TypeOK, Loop, Priority
<1>6. ~Waiting(c)'
  <2> SUFFICES ASSUME NEW k \in 0..gen, NEW q \in Priority,
                      Reachable(k, q)', NEW i \in 1..Len(heap'[k][q]), heap'[k][q][i] = c
               PROVE  FALSE
    BY <1>1 DEF Waiting, InArray
  <2>1. k \in 0..MaxClear
    BY QueueAssumption DEF TypeOK
  <2>2. i \in 1..Len(heap[k][q]) /\ heap[k][q][i] = c
    BY <1>1, <2>1, AddIndex
  <2>3. Reachable(k, q)
    BY <1>1, <1>5 DEF Reachable, Held, Holding
  <2> QED BY <1>2, <2>2, <2>3 DEF Waiting, InArray
<1> QED BY <1>1, <1>4, <1>6 DEF Lost

(* A loop without a command ends; nothing else changes.                     *)
LEMMA EndLost ==
  ASSUME TypeOK, NEW c \in Command, Lost(c), NEW l \in Loop, cur[l] = NoCommand,
         at' = [at EXCEPT ![l] = "ended"], UNCHANGED <<heap, gen, cur, status>>,
         \A m \in Loop : m # l => holds'[m] = holds[m]
  PROVE  Lost(c)'
<1>1. \A m \in Loop : m # l => at'[m] = at[m]
  BY DEF TypeOK
<1>2. ~Running(c)'
  BY <1>1, QueueAssumption DEF Lost, Running, Active
<1>3. \A k \in 0..gen, q \in Priority : Reachable(k, q)' => Reachable(k, q)
  BY <1>1 DEF Reachable, Held, Holding
<1>4. ~Waiting(c)'
  BY <1>3 DEF Lost, Waiting, InArray
<1> QED BY <1>2, <1>4 DEF Lost

LEMMA ClearLost ==
  ASSUME TypeOK, FreshEmpty, NEW c \in Command, Lost(c), Clear
  PROVE  Lost(c)'
<1>1. /\ gen' = gen + 1 /\ gen \in 0..MaxClear /\ gen + 1 \in 0..MaxClear
      /\ UNCHANGED <<heap, at, holds, cur, status>>
  BY QueueAssumption DEF Clear, TypeOK
<1>2. ~Waiting(c)'
  <2> SUFFICES ASSUME NEW k \in 0..gen + 1, NEW q \in Priority,
                      Reachable(k, q)', InArray(c, k, q)'
               PROVE  FALSE
    BY <1>1 DEF Waiting
  <2>1. CASE k = gen + 1
    <3>1. heap[k][q] = << >>
      BY <1>1, <2>1 DEF FreshEmpty
    <3> QED BY <1>1, <3>1 DEF InArray
  <2>2. CASE k \in 0..gen
    <3>1. Reachable(k, q) /\ InArray(c, k, q)
      BY <1>1, <2>2 DEF Reachable, Held, Holding, InArray
    <3> QED BY <2>2, <3>1 DEF Lost, Waiting
  <2> QED BY <1>1, <2>1, <2>2
<1> QED BY <1>1, <1>2 DEF Lost, Running, Active

LEMMA LostStep ==
  ASSUME LoopInv, RunningPending, NEW c \in Command, Lost(c), [Next]_vars
  PROVE  Lost(c)'
<1> USE DEF LoopInv
<1>0. \A l \in Loop : ~Active(l) => cur[l] = NoCommand
  BY DEF RunningPending
<1>1. ASSUME NEW l \in Loop, NEW p \in Priority, Enter(l, p), UNCHANGED <<gen, status>>
      PROVE  Lost(c)'
  <2>1. ShiftFrom(l, gen, p) /\ gen \in 0..MaxClear /\ Reachable(gen, p)
    BY <1>1 DEF Enter, TypeOK, Reachable
  <2>2. /\ at'[l] = p /\ holds'[l] = gen
        /\ \A m \in Loop : m # l => at'[m] = at[m] /\ holds'[m] = holds[m]
    BY <1>1 DEF Enter, TypeOK
  <2> QED BY <1>1, <2>1, <2>2, ShiftLost
<1>2. ASSUME NEW d \in Command, Add(d) PROVE Lost(c)'
  BY <1>2, AddLost
<1>3. ASSUME NEW l \in Loop, StartLoop(l) PROVE Lost(c)'
  <2>1. cur[l] = NoCommand /\ "high" \in Priority
    BY <1>0, <1>3 DEF StartLoop, Active, Priority
  <2> QED BY <1>1, <1>3, <2>1, EndLost DEF StartLoop
<1>4. ASSUME NEW l \in Loop, NEW outcome \in Outcome, Complete(l, outcome)
      PROVE  Lost(c)'
  <2>1. /\ holds[l] \in 0..MaxClear /\ at[l] \in Priority
        /\ ShiftFrom(l, holds[l], at[l]) /\ UNCHANGED <<gen, at, holds>>
    BY <1>4 DEF Complete, Active, TypeOK
  <2>2. Reachable(holds[l], at[l])
    BY <1>4 DEF Complete, Reachable, Held, Holding
  <2>3. status'[c] = status[c]
    <3>1. cur[l] # c
      BY <1>4 DEF Complete, Lost, Running
    <3> QED BY <1>4, <3>1 DEF Complete, TypeOK
  <2> QED BY <2>1, <2>2, <2>3, ShiftLost
<1>5. ASSUME NEW l \in Loop, NextPriority(l) PROVE Lost(c)'
  <2>1. PICK p \in Priority : Enter(l, p)
    BY <1>5 DEF NextPriority, Priority
  <2> QED BY <1>1, <1>5, <2>1 DEF NextPriority
<1>6. ASSUME NEW l \in Loop, EndPass(l) PROVE Lost(c)'
  <2>1. CASE Enter(l, "high")
    BY <1>1, <1>6, <2>1 DEF EndPass, Priority
  <2>2. CASE at' = [at EXCEPT ![l] = "ended"] /\ holds' = [holds EXCEPT ![l] = 0]
             /\ UNCHANGED <<heap, cur>>
    <3>1. \A m \in Loop : m # l => holds'[m] = holds[m]
      BY <2>2 DEF TypeOK
    <3> QED BY <1>6, <2>2, <3>1, EndLost DEF EndPass
  <2> QED BY <1>6, <2>1, <2>2 DEF EndPass
<1>7. CASE Clear
  BY <1>7, ClearLost
<1>8. CASE UNCHANGED vars
  BY <1>8 DEF vars, Lost, Waiting, Reachable, Held, Holding, InArray, Running, Active
<1> QED BY <1>2, <1>3, <1>4, <1>5, <1>6, <1>7, <1>8 DEF Next

THEOREM LostStaysLost == Safety => LostForGood
<1>1. LoopInv /\ OnePlace /\ [Next]_vars => [\A c \in Command : Lost(c) => Lost(c)']_vars
  BY LostStep DEF OnePlace
<1> QED BY <1>1, LoopInvHolds, CommandsInOnePlace, PTL DEF Safety, LostForGood

-----------------------------------------------------------------------------
(* The queue implements CommandChannel.  First, sequences put one after the *)
(* other, as the detached array and the field's array are in WaitingLine.   *)
LEMMA ConcatParts ==
  ASSUME NEW s \in Seq(Command), NEW t \in Seq(Command)
  PROVE  /\ s \o t \in Seq(Command)
         /\ Len(s \o t) = Len(s) + Len(t)
         /\ \A i \in 1..Len(s) : (s \o t)[i] = s[i]
         /\ << >> \o t = t
         /\ t \o << >> = t
  BY SMTT(30)

LEMMA ConcatAppend ==
  ASSUME NEW s \in Seq(Command), NEW t \in Seq(Command), NEW c \in Command
  PROVE  s \o Append(t, c) = Append(s \o t, c)
  BY SMTT(30)

LEMMA ConcatHeadTail ==
  ASSUME NEW s \in Seq(Command), NEW t \in Seq(Command), s # << >>
  PROVE  /\ s \o t # << >>
         /\ Head(s \o t) = Head(s)
         /\ Tail(s \o t) = Tail(s) \o t
  BY SMTT(30)

(* What callers see while no command is on the line, and while loop l has   *)
(* one there.                                                               *)
IdleView == WaitingLine = heap[gen] /\ OnLine = NoCommand

BusyLine(l) ==
  [p \in Priority |-> (IF at[l] = p /\ holds[l] # gen THEN heap[holds[l]][p] ELSE << >>)
                        \o heap[gen][p]]
BusyView(l) == WaitingLine = BusyLine(l) /\ OnLine = cur[l]

LEMMA ViewIdle ==
  ASSUME TypeOK, \A l \in Loop : cur[l] = NoCommand
  PROVE  IdleView
<1>1. \A p \in Priority : Detached(p) = << >>
  BY DEF Detached, Holding
<1>2. \A p \in Priority : << >> \o heap[gen][p] = heap[gen][p]
  BY ConcatParts DEF TypeOK
<1>3. WaitingLine = [p \in Priority |-> heap[gen][p]]
  BY <1>1, <1>2 DEF WaitingLine
<1>4. heap[gen] = [p \in Priority |-> heap[gen][p]]
  BY DEF TypeOK
<1> QED BY <1>3, <1>4 DEF IdleView, OnLine

LEMMA ViewIdleNext ==
  ASSUME TypeOK', \A l \in Loop : cur'[l] = NoCommand
  PROVE  IdleView'
<1>1. \A p \in Priority : Detached(p)' = << >>
  BY DEF Detached, Holding
<1>2. \A p \in Priority : << >> \o heap'[gen'][p] = heap'[gen'][p]
  BY ConcatParts DEF TypeOK
<1>3. WaitingLine' = [p \in Priority |-> heap'[gen'][p]]
  BY <1>1, <1>2 DEF WaitingLine
<1>4. heap'[gen'] = [p \in Priority |-> heap'[gen'][p]]
  BY DEF TypeOK
<1> QED BY <1>3, <1>4 DEF IdleView, OnLine

LEMMA ViewBusy ==
  ASSUME NEW l \in Loop, cur[l] # NoCommand,
         \A m \in Loop : cur[m] # NoCommand => m = l
  PROVE  BusyView(l)
<1>1. \A p \in Priority :
        Detached(p) = IF at[l] = p /\ holds[l] # gen THEN heap[holds[l]][p] ELSE << >>
  <2> TAKE p \in Priority
  <2>1. CASE at[l] = p /\ holds[l] # gen
    <3>1. Holding(l, p) /\ holds[l] # gen
      BY <2>1 DEF Holding
    <3>2. \A m \in Loop : Holding(m, p) /\ holds[m] # gen => m = l
      BY DEF Holding
    <3>3. (CHOOSE m \in Loop : Holding(m, p) /\ holds[m] # gen) = l
      BY <3>1, <3>2
    <3> QED BY <2>1, <3>1, <3>3 DEF Detached
  <2>2. CASE ~(at[l] = p /\ holds[l] # gen)
    <3>1. ~ \E m \in Loop : Holding(m, p) /\ holds[m] # gen
      BY <2>2 DEF Holding
    <3> QED BY <2>2, <3>1 DEF Detached
  <2> QED BY <2>1, <2>2
<1>2. OnLine = cur[l]
  <2>1. (CHOOSE m \in Loop : cur[m] # NoCommand) = l
    OBVIOUS
  <2> QED BY <2>1 DEF OnLine
<1>3. WaitingLine = BusyLine(l)
  BY <1>1 DEF WaitingLine, BusyLine
<1> QED BY <1>2, <1>3 DEF BusyView

LEMMA ViewBusyNext ==
  ASSUME NEW l \in Loop, cur'[l] # NoCommand,
         \A m \in Loop : cur'[m] # NoCommand => m = l
  PROVE  BusyView(l)'
<1>1. \A p \in Priority :
        Detached(p)' = IF at'[l] = p /\ holds'[l] # gen' THEN heap'[holds'[l]][p] ELSE << >>
  <2> TAKE p \in Priority
  <2>1. CASE at'[l] = p /\ holds'[l] # gen'
    <3>1. Holding(l, p)' /\ holds'[l] # gen'
      BY <2>1 DEF Holding
    <3>2. \A m \in Loop : Holding(m, p)' /\ holds'[m] # gen' => m = l
      BY DEF Holding
    <3>3. (CHOOSE m \in Loop : Holding(m, p)' /\ holds'[m] # gen') = l
      BY <3>1, <3>2
    <3> QED BY <2>1, <3>1, <3>3 DEF Detached
  <2>2. CASE ~(at'[l] = p /\ holds'[l] # gen')
    <3>1. ~ \E m \in Loop : Holding(m, p)' /\ holds'[m] # gen'
      BY <2>2 DEF Holding
    <3> QED BY <2>2, <3>1 DEF Detached
  <2> QED BY <2>1, <2>2
<1>2. OnLine' = cur'[l]
  <2>1. (CHOOSE m \in Loop : cur'[m] # NoCommand) = l
    OBVIOUS
  <2> QED BY <2>1 DEF OnLine
<1>3. WaitingLine' = BusyLine(l)'
  BY <1>1 DEF WaitingLine, BusyLine
<1> QED BY <1>2, <1>3 DEF BusyView

(* What of the invariants the steps below need.                             *)
ViewInv == TypeOK /\ OneLoop /\ FreshEmpty /\ RunningPending
SameView == UNCHANGED <<WaitingLine, OnLine, status>>

(* With no command on the line, a loop that enters an array puts its first  *)
(* command there, or finds it empty.                                        *)
LEMMA EnterImplements ==
  ASSUME ViewInv, TypeOK', NEW l \in Loop, NEW p \in Priority, Enter(l, p),
         gen' = gen, status' = status, \A m \in Loop : cur[m] = NoCommand
  PROVE  Channel!Begin(p) \/ SameView
<1>1. TypeOK /\ gen \in 0..MaxClear /\ heap \in Heap /\ heap[gen][p] \in Seq(Command)
  BY HeapType DEF ViewInv, TypeOK
<1>2. WaitingLine = heap[gen] /\ OnLine = NoCommand
  BY <1>1, ViewIdle DEF IdleView
<1>3. cur \in [Loop -> Command \cup {NoCommand}] /\ holds \in [Loop -> 0..MaxClear]
  BY <1>1 DEF TypeOK
<1>4. CASE heap[gen][p] = << >>
  <2>1. heap' = heap /\ cur' = [cur EXCEPT ![l] = NoCommand]
    BY <1>4 DEF Enter, ShiftFrom
  <2>2. \A m \in Loop : cur'[m] = NoCommand
    BY <1>3, <2>1
  <2>3. WaitingLine' = heap'[gen'] /\ OnLine' = NoCommand
    BY <2>2, ViewIdleNext DEF IdleView
  <2>. QED BY <1>2, <2>1, <2>3 DEF SameView
<1>5. CASE heap[gen][p] # << >>
  <2>1. Head(heap[gen][p]) \in Command /\ Tail(heap[gen][p]) \in Seq(Command)
    BY <1>1, <1>5, HeadTailProperties
  <2>2. /\ heap' = [heap EXCEPT ![gen][p] = Tail(heap[gen][p])]
        /\ cur' = [cur EXCEPT ![l] = Head(heap[gen][p])]
        /\ holds' = [holds EXCEPT ![l] = gen]
    BY <1>5 DEF Enter, ShiftFrom
  <2>3. cur'[l] = Head(heap[gen][p]) /\ holds'[l] = gen
    BY <1>1, <1>3, <2>2
  <2>4. cur'[l] # NoCommand
    BY <2>1, <2>3, QueueAssumption
  <2>5. \A m \in Loop : cur'[m] # NoCommand => m = l
    BY <1>3, <2>2
  <2>6. WaitingLine' = BusyLine(l)' /\ OnLine' = cur'[l]
    BY <2>4, <2>5, ViewBusyNext DEF BusyView
  <2>7. heap'[gen] \in [Priority -> Seq(Command)]
    BY <1>1 DEF TypeOK
  <2>8. \A q \in Priority : << >> \o heap'[gen][q] = heap'[gen][q]
    BY <2>7, ConcatParts
  <2>9. BusyLine(l)' = [q \in Priority |-> heap'[gen][q]]
    BY <2>3, <2>8 DEF BusyLine
  <2>10. heap'[gen] = [heap[gen] EXCEPT ![p] = Tail(heap[gen][p])]
    BY <1>1, <2>2 DEF Heap
  <2>11. WaitingLine' = [WaitingLine EXCEPT ![p] = Tail(heap[gen][p])]
    BY <1>2, <2>6, <2>7, <2>9, <2>10
  <2>. QED BY <1>2, <1>5, <2>3, <2>6, <2>11 DEF Channel!Begin, Channel!Take
<1>. QED BY <1>4, <1>5

(* A step that leaves the arrays, the loops' arrays and their commands as    *)
(* they are shows nothing; nor does one that ends a loop with no command on *)
(* the line.                                                                *)
LEMMA StutterSame ==
  ASSUME UNCHANGED vars
  PROVE  SameView
<1>1. \A p \in Priority : Detached(p)' = Detached(p)
  BY DEF vars, Detached, Holding
<1>2. OnLine' = OnLine
  BY DEF vars, OnLine
<1>3. WaitingLine' = WaitingLine
  BY <1>1 DEF vars, WaitingLine
<1>. QED BY <1>2, <1>3 DEF SameView, vars

LEMMA EndedSame ==
  ASSUME ViewInv, TypeOK', NEW l \in Loop, at[l] = "scheduled",
         at' = [at EXCEPT ![l] = "ended"],
         UNCHANGED <<heap, gen, holds, cur, status>>
  PROVE  SameView
<1>1. cur[l] = NoCommand
  BY DEF ViewInv, RunningPending, Active, Priority
<1>2. \A m \in Loop, p \in Priority : Holding(m, p)' <=> Holding(m, p)
  BY <1>1 DEF Holding, ViewInv, TypeOK
<1>3. \A p \in Priority : Detached(p)' = Detached(p)
  BY <1>2 DEF Detached
<1>4. OnLine' = OnLine
  BY DEF OnLine
<1>5. WaitingLine' = WaitingLine
  BY <1>3 DEF WaitingLine
<1>. QED BY <1>4, <1>5 DEF SameView

LEMMA QuietImplements ==
  ASSUME ViewInv, TypeOK', \A m \in Loop : cur[m] = NoCommand,
         UNCHANGED <<heap, gen, cur, status>>
  PROVE  SameView
<1>1. WaitingLine = heap[gen] /\ OnLine = NoCommand
  BY ViewIdle DEF IdleView, ViewInv
<1>2. WaitingLine' = heap'[gen'] /\ OnLine' = NoCommand
  BY ViewIdleNext DEF IdleView
<1>. QED BY <1>1, <1>2 DEF SameView

(* The command on the line is answered and the next of the same array, if   *)
(* there is one, follows it in the same step.                               *)
LEMMA CompleteImplements ==
  ASSUME ViewInv, TypeOK', NEW l \in Loop, NEW outcome \in Outcome, Complete(l, outcome)
  PROVE  Channel!Settle(outcome)
<1>1. PICK g \in 0..MaxClear : g = holds[l]
  BY DEF ViewInv, TypeOK
<1>2. PICK p \in Priority : p = at[l]
  BY DEF Complete, Active
<1>3. /\ gen \in 0..MaxClear /\ heap \in Heap
      /\ heap[g][p] \in Seq(Command) /\ heap[gen] \in [Priority -> Seq(Command)]
      /\ cur \in [Loop -> Command \cup {NoCommand}]
  BY DEF ViewInv, TypeOK, Heap
<1>4. /\ cur[l] # NoCommand /\ ShiftFrom(l, g, p)
      /\ status' = [status EXCEPT ![cur[l]] = outcome]
      /\ UNCHANGED <<gen, at, holds>>
  BY <1>1, <1>2 DEF Complete
<1>5. \A m \in Loop : cur[m] # NoCommand => m = l
  BY <1>4 DEF ViewInv, RunningPending, OneLoop
<1>6. WaitingLine = BusyLine(l) /\ OnLine = cur[l]
  BY <1>4, <1>5, ViewBusy DEF BusyView
<1>7. BusyLine(l) = [q \in Priority |-> (IF p = q /\ g # gen THEN heap[g][q] ELSE << >>) \o heap[gen][q]]
  BY <1>1, <1>2 DEF BusyLine
<1>8. WaitingLine[p] = (IF g # gen THEN heap[g][p] ELSE << >>) \o heap[gen][p]
  BY <1>6, <1>7
<1>9. \A q \in Priority : << >> \o heap[gen][q] = heap[gen][q]
  BY <1>3, ConcatParts
<1>10. CASE heap[g][p] = << >>
  <2>1. heap' = heap /\ cur' = [cur EXCEPT ![l] = NoCommand]
    BY <1>4, <1>10 DEF ShiftFrom
  <2>2. \A m \in Loop : cur'[m] = NoCommand
    BY <1>3, <1>5, <2>1
  <2>3. WaitingLine' = heap'[gen'] /\ OnLine' = NoCommand
    BY <2>2, ViewIdleNext DEF IdleView
  <2>4. \A q \in Priority : (IF p = q /\ g # gen THEN heap[g][q] ELSE << >>) \o heap[gen][q] = heap[gen][q]
    BY <1>9, <1>10
  <2>5. WaitingLine = heap[gen]
    BY <1>3, <1>6, <1>7, <2>4
  <2>. QED BY <1>4, <1>6, <2>1, <2>3, <2>5 DEF Channel!Settle
<1>11. CASE heap[g][p] # << >>
  <2>1. Head(heap[g][p]) \in Command /\ Tail(heap[g][p]) \in Seq(Command)
    BY <1>3, <1>11, HeadTailProperties
  <2>2. /\ heap' = [heap EXCEPT ![g][p] = Tail(heap[g][p])]
        /\ cur' = [cur EXCEPT ![l] = Head(heap[g][p])]
    BY <1>4, <1>11 DEF ShiftFrom
  <2>3. cur'[l] = Head(heap[g][p]) /\ cur'[l] # NoCommand
    BY <1>3, <2>1, <2>2, QueueAssumption
  <2>4. \A m \in Loop : cur'[m] # NoCommand => m = l
    BY <1>3, <1>5, <2>2
  <2>5. WaitingLine' = BusyLine(l)' /\ OnLine' = cur'[l]
    BY <2>3, <2>4, ViewBusyNext DEF BusyView
  <2>6. BusyLine(l)' = [q \in Priority |-> (IF p = q /\ g # gen THEN heap'[g][q] ELSE << >>) \o heap'[gen][q]]
    BY <1>1, <1>2, <1>4 DEF BusyLine
  <2>7. \A k \in 0..MaxClear, q \in Priority :
          heap'[k][q] = IF k = g /\ q = p THEN Tail(heap[g][p]) ELSE heap[k][q]
    <3>1. PICK s \in Seq(Command) : s = Tail(heap[g][p])
      BY <2>1
    <3>2. heap' = [heap EXCEPT ![g][p] = s] /\ heap \in Heap
      BY <1>3, <2>2, <3>1
    <3>3. \A k \in 0..MaxClear, q \in Priority :
            heap'[k][q] = IF k = g /\ q = p THEN s ELSE heap[k][q]
      BY <3>2, HeapUpdate
    <3>. QED BY <3>1, <3>3
  <2>8. WaitingLine[p] # << >> /\ Head(WaitingLine[p]) = Head(heap[g][p])
    <3>1. heap[gen][p] \in Seq(Command)
      BY <1>3
    <3>2. /\ heap[g][p] \o heap[gen][p] # << >>
          /\ Head(heap[g][p] \o heap[gen][p]) = Head(heap[g][p])
      BY <1>3, <1>11, <3>1, ConcatHeadTail
    <3>3. CASE g = gen
      BY <1>8, <1>9, <1>11, <3>3
    <3>4. CASE g # gen
      BY <1>8, <3>2, <3>4
    <3>. QED BY <3>3, <3>4
  <2>9. WaitingLine'[p] = Tail(WaitingLine[p])
    <3>1. CASE g = gen
      <4>1. heap'[gen][p] = Tail(heap[gen][p])
        BY <2>7, <3>1
      <4>2. << >> \o Tail(heap[gen][p]) = Tail(heap[gen][p])
        BY <2>1, <3>1, ConcatParts
      <4>. QED BY <1>8, <1>9, <2>5, <2>6, <3>1, <4>1, <4>2
    <3>2. CASE g # gen
      <4>1. heap'[gen][p] = heap[gen][p] /\ heap'[g][p] = Tail(heap[g][p])
        BY <1>3, <2>7, <3>2
      <4>2. heap[gen][p] \in Seq(Command)
        BY <1>3
      <4>3. Tail(heap[g][p] \o heap[gen][p]) = Tail(heap[g][p]) \o heap[gen][p]
        BY <1>3, <1>11, <4>2, ConcatHeadTail
      <4>. QED BY <1>8, <2>5, <2>6, <3>2, <4>1, <4>3
    <3>. QED BY <3>1, <3>2
  <2>10. \A q \in Priority : q # p => WaitingLine'[q] = WaitingLine[q]
    <3> SUFFICES ASSUME NEW q \in Priority, q # p PROVE WaitingLine'[q] = WaitingLine[q]
      OBVIOUS
    <3>1. heap'[gen][q] = heap[gen][q]
      BY <1>3, <2>7
    <3>2. WaitingLine[q] = << >> \o heap[gen][q]
      BY <1>6, <1>7
    <3>3. WaitingLine'[q] = << >> \o heap'[gen][q]
      BY <2>5, <2>6
    <3>. QED BY <3>1, <3>2, <3>3
  <2>11. WaitingLine' = [WaitingLine EXCEPT ![p] = Tail(WaitingLine[p])]
    <3>1. /\ WaitingLine = [q \in Priority |-> WaitingLine[q]]
          /\ WaitingLine' = [q \in Priority |-> WaitingLine'[q]]
      BY DEF WaitingLine
    <3>. QED BY <2>9, <2>10, <3>1
  <2>12. Channel!Take(p)
    BY <2>3, <2>5, <2>8, <2>11 DEF Channel!Take
  <2>. QED BY <1>4, <1>6, <2>12 DEF Channel!Settle
<1>. QED BY <1>10, <1>11

(* A new command joins the end of its line, whether or not the loop still   *)
(* works through a detached array.                                          *)
LEMMA AddImplements ==
  ASSUME ViewInv, TypeOK', NEW c \in Command, Add(c)
  PROVE  Channel!Submit(c)
<1>1. PICK p \in Priority : p = PriorityOf[c]
  BY QueueAssumption
<1>2. /\ gen \in 0..MaxClear /\ heap \in Heap /\ heap[gen][p] \in Seq(Command)
      /\ heap[gen] \in [Priority -> Seq(Command)]
  BY DEF ViewInv, TypeOK, Heap
<1>3. /\ status[c] = "unsent" /\ status' = [status EXCEPT ![c] = "pending"]
      /\ heap' = [heap EXCEPT ![gen][p] = Append(heap[gen][p], c)]
      /\ at' = IF isProcessing THEN at ELSE [at EXCEPT ![c] = "scheduled"]
      /\ UNCHANGED <<gen, isProcessing, holds, cur>>
  BY <1>1 DEF Add
<1>4. Append(heap[gen][p], c) \in Seq(Command)
  BY <1>2, AppendProperties
<1>5. \A k \in 0..MaxClear, q \in Priority :
        heap'[k][q] = IF k = gen /\ q = p THEN Append(heap[gen][p], c) ELSE heap[k][q]
  <2>1. PICK s \in Seq(Command) : s = Append(heap[gen][p], c)
    BY <1>4
  <2>2. heap' = [heap EXCEPT ![gen][p] = s] /\ heap \in Heap
    BY <1>2, <1>3, <2>1
  <2>3. gen \in 0..MaxClear
    BY <1>2
  <2>4. \A k \in 0..MaxClear, q \in Priority :
          heap'[k][q] = IF k = gen /\ q = p THEN s ELSE heap[k][q]
    BY <2>2, <2>3, HeapUpdate
  <2>. QED BY <2>1, <2>4
<1>6. /\ WaitingLine'[p] = Append(WaitingLine[p], c)
      /\ \A q \in Priority : q # p => WaitingLine'[q] = WaitingLine[q]
      /\ OnLine' = OnLine
  <2>1. CASE \A m \in Loop : cur[m] = NoCommand
    <3>1. WaitingLine = heap[gen] /\ OnLine = NoCommand
      BY <2>1, ViewIdle DEF IdleView, ViewInv
    <3>2. WaitingLine' = heap'[gen'] /\ OnLine' = NoCommand
      BY <1>3, <2>1, ViewIdleNext DEF IdleView
    <3>. QED BY <1>2, <1>3, <1>5, <3>1, <3>2
  <2>2. CASE \E m \in Loop : cur[m] # NoCommand
    <3>1. PICK l \in Loop : cur[l] # NoCommand
      BY <2>2
    <3>2. Active(l) /\ isProcessing
      BY <3>1 DEF ViewInv, RunningPending, OneLoop
    <3>3. \A m \in Loop : cur[m] # NoCommand => m = l
      BY <3>2 DEF ViewInv, RunningPending, OneLoop
    <3>4. at' = at
      BY <1>3, <3>2
    <3>5. WaitingLine = BusyLine(l) /\ OnLine = cur[l]
      BY <3>1, <3>3, ViewBusy DEF BusyView
    <3>6. WaitingLine' = BusyLine(l)' /\ OnLine' = cur'[l]
      BY <1>3, <3>1, <3>3, ViewBusyNext DEF BusyView
    <3>7. PICK g \in 0..MaxClear, a \in Priority : g = holds[l] /\ a = at[l]
      BY <3>2 DEF ViewInv, TypeOK, Active
    <3>8. BusyLine(l) = [q \in Priority |->
             (IF a = q /\ g # gen THEN heap[g][q] ELSE << >>) \o heap[gen][q]]
      BY <3>7 DEF BusyLine
    <3>9. BusyLine(l)' = [q \in Priority |->
             (IF a = q /\ g # gen THEN heap'[g][q] ELSE << >>) \o heap'[gen][q]]
      <4>1. gen' = gen /\ holds' = holds
        BY <1>3
      <4>. QED BY <3>4, <3>7, <4>1 DEF BusyLine
    <3>10. WaitingLine'[p] = Append(WaitingLine[p], c)
      <4>1. heap'[gen][p] = Append(heap[gen][p], c)
        BY <1>2, <1>5
      <4>2. heap[g][p] \in Seq(Command)
        BY <1>2 DEF Heap
      <4>3. CASE a = p /\ g # gen
        <5>1. WaitingLine[p] = heap[g][p] \o heap[gen][p]
          BY <3>5, <3>8, <4>3
        <5>2. WaitingLine'[p] = heap[g][p] \o Append(heap[gen][p], c)
          BY <1>5, <3>6, <3>9, <4>1, <4>3
        <5>. QED BY <1>2, <4>2, <5>1, <5>2, ConcatAppend
      <4>4. CASE ~(a = p /\ g # gen)
        <5>1. WaitingLine[p] = << >> \o heap[gen][p]
          BY <3>5, <3>8, <4>4
        <5>2. WaitingLine'[p] = << >> \o Append(heap[gen][p], c)
          BY <3>6, <3>9, <4>1, <4>4
        <5>3. << >> \o heap[gen][p] = heap[gen][p]
          BY <1>2, ConcatParts
        <5>4. << >> \o Append(heap[gen][p], c) = Append(heap[gen][p], c)
          BY <1>4, ConcatParts
        <5>. QED BY <5>1, <5>2, <5>3, <5>4
      <4>. QED BY <4>3, <4>4
    <3>11. \A q \in Priority : q # p => WaitingLine'[q] = WaitingLine[q]
      <4> SUFFICES ASSUME NEW q \in Priority, q # p PROVE WaitingLine'[q] = WaitingLine[q]
        OBVIOUS
      <4>1. heap'[gen][q] = heap[gen][q] /\ heap'[g][q] = heap[g][q]
        BY <1>2, <1>5
      <4>2. CASE a = q /\ g # gen
        <5>1. WaitingLine[q] = heap[g][q] \o heap[gen][q]
          BY <3>5, <3>8, <4>2
        <5>2. WaitingLine'[q] = heap'[g][q] \o heap'[gen][q]
          BY <3>6, <3>9, <4>2
        <5>. QED BY <4>1, <5>1, <5>2
      <4>3. CASE ~(a = q /\ g # gen)
        <5>1. WaitingLine[q] = << >> \o heap[gen][q]
          BY <3>5, <3>8, <4>3
        <5>2. WaitingLine'[q] = << >> \o heap'[gen][q]
          BY <3>6, <3>9, <4>3
        <5>. QED BY <4>1, <5>1, <5>2
      <4>. QED BY <4>2, <4>3
    <3>. QED BY <1>3, <3>5, <3>6, <3>10, <3>11
  <2>. QED BY <2>1, <2>2
<1>7. /\ WaitingLine = [q \in Priority |-> WaitingLine[q]]
      /\ WaitingLine' = [q \in Priority |-> WaitingLine'[q]]
  BY DEF WaitingLine
<1>8. WaitingLine' = [WaitingLine EXCEPT ![p] = Append(WaitingLine[p], c)]
  BY <1>6, <1>7
<1>. QED BY <1>1, <1>3, <1>6, <1>8 DEF Channel!Submit

(* Clearing cuts each line after what the loop still shifts from.           *)
LEMMA ClearImplements ==
  ASSUME ViewInv, TypeOK', Clear
  PROVE  Channel!Drop
<1>1. /\ gen \in 0..MaxClear /\ gen' = gen + 1 /\ gen' \in 0..MaxClear
      /\ UNCHANGED <<heap, isProcessing, at, holds, cur, status>>
      /\ heap \in Heap
  BY DEF Clear, ViewInv, TypeOK, Heap
<1>2. \A p \in Priority : heap[gen'][p] = << >>
  BY <1>1 DEF ViewInv, FreshEmpty
<1>3. /\ OnLine' = OnLine
      /\ \A p \in Priority : \E s \in Seq(Command), t \in Seq(Command) :
           WaitingLine'[p] = s /\ WaitingLine[p] = s \o t
  <2>1. CASE \A m \in Loop : cur[m] = NoCommand
    <3>1. WaitingLine = heap[gen] /\ OnLine = NoCommand
      BY <2>1, ViewIdle DEF IdleView, ViewInv
    <3>2. WaitingLine' = heap'[gen'] /\ OnLine' = NoCommand
      BY <1>1, <2>1, ViewIdleNext DEF IdleView
    <3>3. ASSUME NEW p \in Priority
          PROVE  \E s \in Seq(Command), t \in Seq(Command) :
                   WaitingLine'[p] = s /\ WaitingLine[p] = s \o t
      <4>1. PICK t \in Seq(Command) : t = heap[gen][p]
        BY <1>1 DEF Heap
      <4>2. << >> \in Seq(Command) /\ << >> \o t = t
        BY ConcatParts
      <4>3. WaitingLine'[p] = << >> /\ WaitingLine[p] = t
        BY <1>1, <1>2, <3>1, <3>2, <4>1
      <4>. QED BY <4>2, <4>3
    <3>. QED BY <3>1, <3>2, <3>3
  <2>2. CASE \E m \in Loop : cur[m] # NoCommand
    <3>1. PICK l \in Loop : cur[l] # NoCommand
      BY <2>2
    <3>2. \A m \in Loop : cur[m] # NoCommand => m = l
      BY <3>1 DEF ViewInv, RunningPending, OneLoop
    <3>3. WaitingLine = BusyLine(l) /\ OnLine = cur[l]
      BY <3>1, <3>2, ViewBusy DEF BusyView
    <3>4. WaitingLine' = BusyLine(l)' /\ OnLine' = cur'[l]
      BY <1>1, <3>1, <3>2, ViewBusyNext DEF BusyView
    <3>5. PICK g \in 0..MaxClear, a \in Priority : g = holds[l] /\ a = at[l]
      BY <3>1 DEF ViewInv, TypeOK, RunningPending, Active
    <3>6. BusyLine(l) = [q \in Priority |->
             (IF a = q /\ g # gen THEN heap[g][q] ELSE << >>) \o heap[gen][q]]
      BY <3>5 DEF BusyLine
    <3>7. BusyLine(l)' = [q \in Priority |->
             (IF a = q /\ g # gen' THEN heap[g][q] ELSE << >>) \o heap[gen'][q]]
      BY <1>1, <3>5 DEF BusyLine
    <3>8. ASSUME NEW p \in Priority
          PROVE  \E s \in Seq(Command), t \in Seq(Command) :
                   WaitingLine'[p] = s /\ WaitingLine[p] = s \o t
      <4>1. PICK u \in Seq(Command), t \in Seq(Command) :
              u = heap[g][p] /\ t = heap[gen][p]
        BY <1>1 DEF Heap
      <4>2. << >> \in Seq(Command) /\ << >> \o t = t /\ << >> \o << >> = << >>
            /\ u \o << >> = u /\ << >> \o u = u
        BY ConcatParts
      <4>3. CASE a = p /\ g # gen'
        <5>1. WaitingLine'[p] = u
          BY <1>2, <3>4, <3>7, <4>1, <4>2, <4>3
        <5>2. CASE g = gen
          <6>1. WaitingLine[p] = u
            BY <3>3, <3>6, <4>1, <4>2, <5>2
          <6>. QED BY <4>2, <5>1, <6>1
        <5>3. CASE g # gen
          <6>1. WaitingLine[p] = u \o t
            BY <3>3, <3>6, <4>1, <4>3, <5>3
          <6>. QED BY <5>1, <6>1
        <5>. QED BY <5>2, <5>3
      <4>4. CASE ~(a = p /\ g # gen')
        <5>1. WaitingLine'[p] = << >>
          BY <1>2, <3>4, <3>7, <4>2, <4>4
        <5>2. CASE a = p /\ g # gen
          <6>1. g = gen'
            BY <4>4, <5>2
          <6>2. u = << >>
            BY <1>2, <4>1, <6>1
          <6>3. WaitingLine[p] = u \o t
            BY <3>3, <3>6, <4>1, <5>2
          <6>. QED BY <4>2, <5>1, <6>2, <6>3
        <5>3. CASE ~(a = p /\ g # gen)
          <6>1. WaitingLine[p] = << >> \o t
            BY <3>3, <3>6, <4>1, <5>3
          <6>. QED BY <4>2, <5>1, <6>1
        <5>. QED BY <5>2, <5>3
      <4>. QED BY <4>3, <4>4
    <3>. QED BY <1>1, <3>3, <3>4, <3>8
  <2>. QED BY <2>1, <2>2
<1>4. ASSUME NEW p \in Priority
      PROVE  /\ WaitingLine'[p] \in Seq(Command)
             /\ Len(WaitingLine'[p]) <= Len(WaitingLine[p])
             /\ \A i \in 1..Len(WaitingLine'[p]) : WaitingLine'[p][i] = WaitingLine[p][i]
  <2>1. PICK s \in Seq(Command), t \in Seq(Command) :
          WaitingLine'[p] = s /\ WaitingLine[p] = s \o t
    BY <1>3
  <2>2. /\ Len(s \o t) = Len(s) + Len(t)
        /\ \A i \in 1..Len(s) : (s \o t)[i] = s[i]
    BY ConcatParts
  <2>3. Len(s) \in Nat /\ Len(t) \in Nat
    BY LenProperties
  <2>. QED BY <2>1, <2>2, <2>3
<1>5. WaitingLine' \in [Priority -> Seq(Command)]
  <2>1. WaitingLine' = [p \in Priority |-> WaitingLine'[p]]
    BY DEF WaitingLine
  <2>. QED BY <1>4, <2>1
<1>. QED BY <1>1, <1>3, <1>4, <1>5 DEF Channel!Drop

(* Seen by its callers, the queue with its loops and its replaced arrays is *)
(* the channel: every step is one of the channel's, or is not seen at all.  *)
THEOREM QueueIsChannel == Safety => ImplementsChannel
<1>1. Init => Channel!ChannelInit
  <2> SUFFICES ASSUME Init PROVE Channel!ChannelInit
    OBVIOUS
  <2>1. \A m \in Loop : cur[m] = NoCommand
    BY DEF Init
  <2>2. WaitingLine = heap[gen] /\ OnLine = NoCommand
    BY <2>1, TypeInit, ViewIdle DEF IdleView
  <2>3. heap[gen] = [p \in Priority |-> << >>]
    BY QueueAssumption DEF Init
  <2>. QED BY <2>2, <2>3 DEF Channel!ChannelInit, Init
<1>2. ViewInv /\ TypeOK' /\ [Next]_vars
        => Channel!ChannelNext \/ UNCHANGED <<WaitingLine, OnLine, status>>
  <2> SUFFICES ASSUME ViewInv, TypeOK', [Next]_vars
               PROVE  Channel!ChannelNext \/ SameView
    BY DEF SameView
  <2>0. \A l \in Loop : ~Active(l) => cur[l] = NoCommand
    BY DEF ViewInv, RunningPending
  <2>1. ASSUME NEW c \in Command, Add(c) PROVE Channel!ChannelNext
    BY <2>1, AddImplements DEF Channel!ChannelNext
  <2>2. ASSUME NEW l \in Loop, StartLoop(l) PROVE Channel!ChannelNext \/ SameView
    <3>1. CASE isProcessing \/ ~HasCommands
      BY <2>2, <3>1, EndedSame DEF StartLoop
    <3>2. CASE ~isProcessing /\ HasCommands
      <4>1. Enter(l, "high") /\ gen' = gen /\ status' = status /\ "high" \in Priority
        BY <2>2, <3>2 DEF StartLoop, Priority
      <4>2. \A m \in Loop : cur[m] = NoCommand
        BY <2>0, <3>2 DEF ViewInv, OneLoop
      <4>. QED BY <4>1, <4>2, EnterImplements DEF Channel!ChannelNext
    <3>. QED BY <3>1, <3>2
  <2>3. ASSUME NEW l \in Loop, NEW outcome \in Outcome, Complete(l, outcome)
        PROVE  Channel!ChannelNext
    <3>1. Channel!Settle(outcome)
      BY <2>3, CompleteImplements
    <3>. QED BY <3>1 DEF Channel!ChannelNext, Outcome
  <2>4. ASSUME NEW l \in Loop, Active(l), cur[l] = NoCommand
        PROVE  \A m \in Loop : cur[m] = NoCommand
    BY <2>0, <2>4 DEF ViewInv, OneLoop
  <2>5. ASSUME NEW l \in Loop, NextPriority(l) PROVE Channel!ChannelNext \/ SameView
    <3>1. PICK p \in Priority : Enter(l, p)
      BY <2>5 DEF NextPriority, Priority
    <3>2. Active(l) /\ cur[l] = NoCommand /\ gen' = gen /\ status' = status
      BY <2>5 DEF NextPriority, Active, Priority
    <3>3. \A m \in Loop : cur[m] = NoCommand
      BY <2>4, <3>2
    <3>. QED BY <3>1, <3>2, <3>3, EnterImplements DEF Channel!ChannelNext
  <2>6. ASSUME NEW l \in Loop, EndPass(l) PROVE Channel!ChannelNext \/ SameView
    <3>1. Active(l) /\ cur[l] = NoCommand /\ gen' = gen /\ status' = status
      BY <2>6 DEF EndPass, Active, Priority
    <3>2. \A m \in Loop : cur[m] = NoCommand
      BY <2>4, <3>1
    <3>3. CASE HasCommands
      <4>1. Enter(l, "high") /\ "high" \in Priority
        BY <2>6, <3>3 DEF EndPass, Priority
      <4>. QED BY <3>1, <3>2, <4>1, EnterImplements DEF Channel!ChannelNext
    <3>4. CASE ~HasCommands
      <4>1. UNCHANGED <<heap, gen, cur, status>>
        BY <2>6, <3>4 DEF EndPass
      <4>. QED BY <3>2, <4>1, QuietImplements
    <3>. QED BY <3>3, <3>4
  <2>7. ASSUME Clear PROVE Channel!ChannelNext
    BY <2>7, ClearImplements DEF Channel!ChannelNext
  <2>8. ASSUME UNCHANGED vars PROVE SameView
    BY <2>8, StutterSame
  <2>. QED BY <2>1, <2>2, <2>3, <2>5, <2>6, <2>7, <2>8 DEF Next
<1>3. TypeOK /\ OneLoop /\ FreshEmpty /\ RunningPending => ViewInv
  BY DEF ViewInv
<1>4. Safety => []LoopInv
  BY LoopInvHolds
<1>5. LoopInv /\ OnePlace => ViewInv
  BY DEF LoopInv, OnePlace, ViewInv
<1>. QED
  BY <1>1, <1>2, <1>4, <1>5, Typing, CommandsInOnePlace, PTL
     DEF Safety, ImplementsChannel, Channel!ChannelSpec, Channel!channelVars
=============================================================================
