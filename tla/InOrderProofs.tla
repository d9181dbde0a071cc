--------------------------- MODULE InOrderProofs ---------------------------
(***************************************************************************)
(* Proofs about InOrder, for any number of threads and tickets.            *)
(***************************************************************************)
EXTENDS InOrder, SequenceTheorems, TLAPS

(* What every step keeps: whoever is not out holds a ticket drawn and not  *)
(* passed, no two hold one, and where each is fits the ticket served.      *)
Held ==
  /\ serving <= drawn
  /\ \A t \in Threads : pc[t] # "out" => serving <= ticket[t] /\ ticket[t] < drawn
  /\ \A t, u \in Threads : pc[t] # "out" /\ pc[u] # "out" /\ ticket[t] = ticket[u] => t = u
  /\ \A t \in Threads : pc[t] = "in" => ticket[t] = serving

IInv == TypeOK /\ Held /\ NoneSleepsThrough

LEMMA Start == Init => IInv
BY LastAssumption DEF Init, IInv, TypeOK, Held, NoneSleepsThrough

(* A ticket drawn is above every other, and is passed only by its holder.  *)
LEMMA Kept == IInv /\ [Next]_vars => IInv'
<1> SUFFICES ASSUME IInv, [Next]_vars PROVE IInv'
  OBVIOUS
<1> USE LastAssumption DEF IInv, TypeOK, Held, NoneSleepsThrough
<1>1. ASSUME NEW t \in Threads, Comes(t) PROVE IInv'
  BY <1>1 DEF Comes, Notified
<1>2. ASSUME NEW t \in Threads, Wakes(t) PROVE IInv'
  BY <1>2 DEF Wakes
<1>3. ASSUME NEW t \in Threads, Leaves(t) PROVE IInv'
  BY <1>3 DEF Leaves, Notified
<1>4. CASE UNCHANGED vars
  BY <1>4 DEF vars
<1> QED
  BY <1>1, <1>2, <1>3, <1>4 DEF Next, AllOut

(* The invariant holds in every state of the lock.                         *)
THEOREM TicketsHeld == Spec => []IInv
BY Start, Kept, PTL DEF Spec

(* However many threads come, one at a time is inside (_OneAtATime).       *)
THEOREM Exclusion == Spec => []OneAtATime
<1>1. IInv => OneAtATime
  BY DEF IInv, TypeOK, Held, OneAtATime
<1> QED
  BY <1>1, TicketsHeld, PTL

(* No thread sleeps while its own ticket is the one served (notify_all).   *)
THEOREM NoWakeUpLost == Spec => []NoneSleepsThrough
<1>1. IInv => NoneSleepsThrough
  BY DEF IInv
<1> QED
  BY <1>1, TicketsHeld, PTL

(* No ticket is lost: each from the one served on has someone who holds it.*)
NoneMissing ==
  \A n \in Nat : serving <= n /\ n < drawn =>
    \E t \in Threads : pc[t] # "out" /\ ticket[t] = n

LEMMA MissingKept == IInv /\ NoneMissing /\ [Next]_vars => NoneMissing'
<1> SUFFICES ASSUME IInv, NoneMissing, [Next]_vars,
                    NEW n \in Nat, serving' <= n, n < drawn'
             PROVE  \E t \in Threads : pc'[t] # "out" /\ ticket'[t] = n
  BY DEF NoneMissing
<1> USE DEF IInv, TypeOK, Held, NoneMissing
<1>1. ASSUME NEW t \in Threads, Comes(t) PROVE \E u \in Threads : pc'[u] # "out" /\ ticket'[u] = n
  <2>1. CASE n = drawn
    <3>1. pc'[t] # "out" /\ ticket'[t] = n
      BY <1>1, <2>1 DEF Comes, Notified
    <3> QED
      BY <3>1
  <2>2. CASE n # drawn
    <3>1. serving <= n /\ n < drawn
      BY <1>1, <2>2 DEF Comes
    <3>2. PICK u \in Threads : pc[u] # "out" /\ ticket[u] = n
      BY <3>1
    <3>3. u # t
      BY <1>1, <3>2 DEF Comes
    <3>4. pc'[u] # "out" /\ ticket'[u] = n
      BY <1>1, <3>2, <3>3 DEF Comes, Notified
    <3> QED
      BY <3>4
  <2> QED
    BY <2>1, <2>2
<1>2. ASSUME NEW t \in Threads, Wakes(t) PROVE \E u \in Threads : pc'[u] # "out" /\ ticket'[u] = n
  <2>1. PICK u \in Threads : pc[u] # "out" /\ ticket[u] = n
    BY <1>2 DEF Wakes
  <2>2. pc'[u] # "out" /\ ticket'[u] = n
    BY <1>2, <2>1 DEF Wakes
  <2> QED
    BY <2>2
<1>3. ASSUME NEW t \in Threads, Leaves(t) PROVE \E u \in Threads : pc'[u] # "out" /\ ticket'[u] = n
  <2>1. serving <= n /\ n < drawn /\ n # serving
    BY <1>3 DEF Leaves
  <2>2. PICK u \in Threads : pc[u] # "out" /\ ticket[u] = n
    BY <2>1
  <2>3. u # t
    BY <1>3, <2>1, <2>2 DEF Leaves
  <2>4. pc'[u] # "out" /\ ticket'[u] = n
    BY <1>3, <2>2, <2>3 DEF Leaves, Notified
  <2> QED
    BY <2>4
<1>4. CASE UNCHANGED vars
  BY <1>4 DEF vars
<1> QED
  BY <1>1, <1>2, <1>3, <1>4 DEF Next, AllOut

(* The queue of those who wait has one place for every ticket not passed,  *)
(* taken by the one thread that holds it.                                  *)
QueueOfHolders ==
  /\ Queue \in Seq(Threads)
  /\ Len(Queue) = drawn - serving
  /\ \A i \in 1..(drawn - serving), t \in Threads :
       Queue[i] = t <=> pc[t] # "out" /\ ticket[t] = serving + i - 1

LEMMA QueueHeld == IInv /\ NoneMissing => QueueOfHolders
<1> SUFFICES ASSUME IInv, NoneMissing PROVE QueueOfHolders
  OBVIOUS
<1> DEFINE Holds(t, i) == pc[t] # "out" /\ ticket[t] = serving + i - 1
<1>1. drawn - serving \in Nat
  BY DEF IInv, TypeOK, Held
<1>2. \A i \in 1..(drawn - serving) : \E t \in Threads : Holds(t, i)
  BY DEF IInv, TypeOK, Held, NoneMissing
<1>3. \A i \in 1..(drawn - serving) : Queue[i] = CHOOSE t \in Threads : Holds(t, i)
  BY DEF Queue
<1>4. \A i \in 1..(drawn - serving) : Queue[i] \in Threads /\ Holds(Queue[i], i)
  <2> SUFFICES ASSUME NEW i \in 1..(drawn - serving) PROVE Queue[i] \in Threads /\ Holds(Queue[i], i)
    OBVIOUS
  <2> HIDE DEF Holds
  <2> QED
    BY <1>2, <1>3, Zenon
<1>5. \A i \in 1..(drawn - serving), t \in Threads : Holds(t, i) => Queue[i] = t
  BY <1>4 DEF IInv, TypeOK, Held
<1>6. Queue \in Seq(Threads) /\ Len(Queue) = drawn - serving
  <2> DOMAIN Queue = 1..(drawn - serving) /\ Queue \in [1..(drawn - serving) -> Threads]
    BY <1>4 DEF Queue
  <2> QED
    BY <1>1
<1> QED
  BY <1>4, <1>5, <1>6 DEF QueueOfHolders

(* Whoever the condition wakes has not come or gone by it.                 *)
LEMMA WokenStay ==
  ASSUME TypeOK, NEW t \in Threads, NEW now \in [Threads -> {"out", "asleep", "awake", "in"}],
         \A u \in Threads : u # t => now[u] = pc[u]
  PROVE  /\ Notified(t, now) \in [Threads -> {"out", "asleep", "awake", "in"}]
         /\ Notified(t, now)[t] = now[t]
         /\ \A u \in Threads : u # t => (Notified(t, now)[u] = "out" <=> pc[u] = "out")
         /\ \A u \in Threads : u # t => (Notified(t, now)[u] = "in" <=> pc[u] = "in")
BY DEF TypeOK, Notified

(* Two queues of the same threads, place by place, are the same.           *)
LEMMA SameQueue ==
  ASSUME NEW p \in Seq(Threads), NEW q \in Seq(Threads), Len(p) = Len(q),
         \A i \in 1..Len(p) : p[i] = q[i]
  PROVE  p = q
BY SeqEqual

LEMMA ComesJoins ==
  ASSUME IInv, QueueOfHolders, QueueOfHolders', NEW t \in Threads, Comes(t)
  PROVE  InTurn!Joins(t) \/ InTurn!JoinsAndGoes(t)
<1> DEFINE Inside == {u \in Threads : pc[u] = "in"}
           now == [pc EXCEPT ![t] = IF serving = drawn THEN "in" ELSE "asleep"]
<1>1. /\ pc[t] = "out" /\ pc'[t] = IF serving = drawn THEN "in" ELSE "asleep"
      /\ \A u \in Threads : u # t => (pc'[u] = "out" <=> pc[u] = "out")
      /\ \A u \in Threads : u # t => (pc'[u] = "in" <=> pc[u] = "in")
  <2>1. now \in [Threads -> {"out", "asleep", "awake", "in"}] /\ \A u \in Threads : u # t => now[u] = pc[u]
    BY DEF IInv, TypeOK
  <2>2. now[t] = IF serving = drawn THEN "in" ELSE "asleep"
    BY DEF IInv, TypeOK
  <2>3. pc[t] = "out" /\ pc' = Notified(t, now)
    BY DEF Comes
  <2> HIDE DEF now
  <2> QED
    BY <2>1, <2>2, <2>3, WokenStay DEF IInv
<1>2. /\ serving \in Nat /\ drawn \in Nat /\ drawn' = drawn + 1 /\ serving' = serving
      /\ ticket'[t] = drawn /\ \A u \in Threads : u # t => ticket'[u] = ticket[u]
  BY DEF Comes, IInv, TypeOK
<1>3. Queue' = Append(Queue, t)
  <2>1. Append(Queue, t) \in Seq(Threads) /\ Len(Append(Queue, t)) = drawn - serving + 1
    BY AppendProperties DEF QueueOfHolders
  <2>2. Queue' \in Seq(Threads) /\ Len(Queue') = drawn - serving + 1
    BY <1>2 DEF QueueOfHolders
  <2>3. ASSUME NEW i \in 1..(drawn - serving + 1) PROVE Queue'[i] = Append(Queue, t)[i]
    <3>1. CASE i = drawn - serving + 1
      <4>1. Queue'[i] = t
        <5>1. i \in 1..(drawn' - serving') /\ ticket'[t] = serving' + i - 1
          BY <1>2, <3>1
        <5>2. pc'[t] # "out"
          BY <1>1
        <5> QED
          BY <5>1, <5>2 DEF QueueOfHolders
      <4>2. Append(Queue, t)[i] = t
        BY <3>1, AppendProperties DEF QueueOfHolders
      <4> QED
        BY <4>1, <4>2
    <3>2. CASE i # drawn - serving + 1
      <4>1. i \in 1..(drawn - serving)
        BY <1>2, <3>2
      <4>2. Append(Queue, t)[i] = Queue[i]
        BY <4>1, AppendProperties DEF QueueOfHolders
      <4>3. Queue[i] \in Threads
        BY <4>1 DEF QueueOfHolders
      <4>4. pc[Queue[i]] # "out" /\ ticket[Queue[i]] = serving + i - 1
        BY <4>1, <4>3 DEF QueueOfHolders
      <4>5. pc'[Queue[i]] # "out" /\ ticket'[Queue[i]] = serving' + i - 1
        BY <1>1, <1>2, <4>3, <4>4
      <4>6. Queue'[i] = Queue[i]
        BY <1>2, <4>3, <4>5 DEF QueueOfHolders
      <4> QED
        BY <4>2, <4>6
    <3> QED
      BY <3>1, <3>2
  <2> QED
    BY <2>1, <2>2, <2>3, SameQueue
<1>4. CASE serving = drawn
  <2>1. Queue = <<>>
    BY <1>2, <1>4, EmptySeq DEF QueueOfHolders
  <2>2. Queue' = <<t>>
    BY <1>3, <2>1
  <2>3. Inside' = {t}
    <3>1. \A u \in Threads : pc[u] # "in"
      BY <1>4 DEF IInv, TypeOK, Held
    <3> QED
      BY <1>1, <1>4, <3>1
  <2> QED
    BY <2>1, <2>2, <2>3 DEF InTurn!JoinsAndGoes
<1>5. CASE serving # drawn
  <2>1. Inside' = Inside
    BY <1>1, <1>5
  <2>2. t \notin InTurn!ToSet(Queue)
    <3>1. \A i \in 1..Len(Queue) : Queue[i] # t
      BY <1>1 DEF QueueOfHolders
    <3> QED
      BY <3>1 DEF InTurn!ToSet, QueueOfHolders
  <2> QED
    BY <1>3, <2>1, <2>2 DEF InTurn!Joins
<1> QED
  BY <1>4, <1>5

LEMMA WakesGoes ==
  ASSUME IInv, QueueOfHolders, QueueOfHolders', NEW t \in Threads, Wakes(t)
  PROVE  InTurn!Goes(t) \/ UNCHANGED InTurn!turns
<1> DEFINE Inside == {u \in Threads : pc[u] = "in"}
<1>1. /\ pc[t] = "awake" /\ pc'[t] = IF serving = ticket[t] THEN "in" ELSE "asleep"
      /\ \A u \in Threads : u # t => pc'[u] = pc[u]
      /\ serving' = serving /\ drawn' = drawn /\ ticket' = ticket
  BY DEF Wakes, IInv, TypeOK
<1>2. serving \in Nat /\ drawn \in Nat /\ drawn - serving \in Nat
  BY DEF IInv, TypeOK, Held
<1>3. Queue' = Queue
  <2>1. Queue' \in Seq(Threads) /\ Len(Queue') = Len(Queue) /\ Queue \in Seq(Threads)
    BY <1>1 DEF QueueOfHolders
  <2>2. ASSUME NEW i \in 1..Len(Queue) PROVE Queue'[i] = Queue[i]
    <3>1. i \in 1..(drawn - serving) /\ Queue[i] \in Threads
      BY DEF QueueOfHolders
    <3>2. pc[Queue[i]] # "out" /\ ticket[Queue[i]] = serving + i - 1
      BY <3>1 DEF QueueOfHolders
    <3>3. pc'[Queue[i]] # "out" /\ ticket'[Queue[i]] = serving' + i - 1
      BY <1>1, <3>1, <3>2
    <3> QED
      BY <1>1, <3>1, <3>3 DEF QueueOfHolders
  <2> QED
    BY <2>1, <2>2, SameQueue
<1>4. CASE serving = ticket[t]
  <2>1. Inside = {}
    BY <1>1, <1>4 DEF IInv, TypeOK, Held
  <2>2. Inside' = {t}
    BY <1>1, <1>4, <2>1
  <2>3. 1 \in 1..(drawn - serving)
    BY <1>1, <1>2, <1>4 DEF IInv, TypeOK, Held
  <2>4. Queue[1] = t
    <3>1. pc[t] # "out" /\ ticket[t] = serving + 1 - 1
      BY <1>1, <1>2, <1>4
    <3> QED
      BY <2>3, <3>1 DEF QueueOfHolders
  <2>5. Queue # <<>> /\ Head(Queue) = t
    BY <1>2, <2>3, <2>4 DEF QueueOfHolders
  <2> QED
    BY <1>3, <2>1, <2>2, <2>5 DEF InTurn!Goes
<1>5. CASE serving # ticket[t]
  <2>1. Inside' = Inside
    BY <1>1, <1>5
  <2> QED
    BY <1>3, <2>1 DEF InTurn!turns
<1> QED
  BY <1>4, <1>5

LEMMA LeavesPasses ==
  ASSUME IInv, QueueOfHolders, QueueOfHolders', NEW t \in Threads, Leaves(t)
  PROVE  InTurn!Leaves(t)
<1> DEFINE Inside == {u \in Threads : pc[u] = "in"}
           now == [pc EXCEPT ![t] = "out"]
<1>1. /\ pc[t] = "in" /\ pc'[t] = "out"
      /\ \A u \in Threads : u # t => (pc'[u] = "out" <=> pc[u] = "out")
      /\ \A u \in Threads : u # t => (pc'[u] = "in" <=> pc[u] = "in")
  <2>1. now \in [Threads -> {"out", "asleep", "awake", "in"}] /\ \A u \in Threads : u # t => now[u] = pc[u]
    BY DEF IInv, TypeOK
  <2>2. now[t] = "out"
    BY DEF IInv, TypeOK
  <2>3. pc[t] = "in" /\ pc' = Notified(t, now)
    BY DEF Leaves
  <2> HIDE DEF now
  <2> QED
    BY <2>1, <2>2, <2>3, WokenStay DEF IInv
<1>2. /\ serving \in Nat /\ drawn \in Nat /\ drawn' = drawn /\ serving' = serving + 1
      /\ ticket[t] = serving /\ serving < drawn /\ ticket' = ticket
  BY DEF Leaves, IInv, TypeOK, Held
<1>3. Queue # <<>>
  BY <1>2 DEF QueueOfHolders
<1>4. Queue' = Tail(Queue)
  <2>1. /\ Tail(Queue) \in Seq(Threads) /\ Len(Tail(Queue)) = drawn - serving - 1
        /\ \A i \in 1..(drawn - serving - 1) : Tail(Queue)[i] = Queue[i + 1]
    BY <1>2, <1>3, HeadTailProperties DEF QueueOfHolders
  <2>2. Queue' \in Seq(Threads) /\ Len(Queue') = drawn - serving - 1
    BY <1>2 DEF QueueOfHolders
  <2>3. ASSUME NEW i \in 1..(drawn - serving - 1) PROVE Queue'[i] = Tail(Queue)[i]
    <3>1. i + 1 \in 1..(drawn - serving)
      BY <1>2
    <3>2. Queue[i + 1] \in Threads
      BY <3>1 DEF QueueOfHolders
    <3>3. pc[Queue[i + 1]] # "out" /\ ticket[Queue[i + 1]] = serving + i
      <4>1. pc[Queue[i + 1]] # "out" /\ ticket[Queue[i + 1]] = serving + (i + 1) - 1
        BY <3>1, <3>2 DEF QueueOfHolders
      <4> QED
        BY <1>2, <4>1
    <3>4. Queue[i + 1] # t
      BY <1>2, <3>3
    <3>5. pc'[Queue[i + 1]] # "out" /\ ticket'[Queue[i + 1]] = serving' + i - 1
      BY <1>1, <1>2, <3>2, <3>3, <3>4
    <3>6. i \in 1..(drawn' - serving')
      BY <1>2
    <3> QED
      BY <2>1, <3>2, <3>5, <3>6 DEF QueueOfHolders
  <2> QED
    BY <2>1, <2>2, <2>3, SameQueue
<1>5. Inside = {t}
  BY <1>1 DEF IInv, TypeOK, Held
<1>6. Inside' = {}
  BY <1>1, <1>5
<1> QED
  BY <1>4, <1>5, <1>6 DEF InTurn!Leaves

LEMMA StepTakesTurns ==
  ASSUME IInv, QueueOfHolders, QueueOfHolders', [Next]_vars
  PROVE  [InTurn!TurnsNext]_InTurn!turns
<1>1. ASSUME NEW t \in Threads, Comes(t) \/ Wakes(t) \/ Leaves(t) PROVE [InTurn!TurnsNext]_InTurn!turns
  BY <1>1, ComesJoins, WakesGoes, LeavesPasses DEF InTurn!TurnsNext
<1>2. CASE UNCHANGED vars
  BY <1>2 DEF vars, InTurn!turns, Queue
<1> QED
  BY <1>1, <1>2 DEF Next, AllOut

(* The lock of tickets implements a queue: every step of a thread is a     *)
(* join at its end, a first one going in, or whoever is inside leaving, or *)
(* moves nobody in it; nobody overtakes (InOrder's docstring).             *)
THEOREM TakenInOrder == Spec => InTurn!TurnsTaken
<1>1. Init => NoneMissing
  BY DEF Init, NoneMissing
<1>2. Spec => []NoneMissing
  BY <1>1, TicketsHeld, MissingKept, PTL DEF Spec
<1>3. Init => InTurn!TurnsInit
  <2> SUFFICES ASSUME Init PROVE Queue = <<>> /\ {t \in Threads : pc[t] = "in"} = {}
    BY DEF InTurn!TurnsInit
  <2> QED
    BY DEF Init, Queue
<1>4. Spec => []QueueOfHolders
  BY <1>2, TicketsHeld, QueueHeld, PTL
<1>5. IInv /\ QueueOfHolders /\ QueueOfHolders' /\ [Next]_vars => [InTurn!TurnsNext]_InTurn!turns
  BY StepTakesTurns
<1> QED
  BY <1>3, <1>4, <1>5, TicketsHeld, PTL DEF Spec, InTurn!TurnsTaken
=============================================================================
