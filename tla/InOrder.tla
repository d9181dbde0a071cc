------------------------------ MODULE InOrder ------------------------------
(***************************************************************************)
(* The lock a server's changes are taken under (kb.server.InOrder): each   *)
(* thread that comes draws a ticket and waits on a condition variable until*)
(* its ticket is the one being served.  The condition's own mutex makes    *)
(* one step of each block under it, up to where wait_for lets it go.       *)
(***************************************************************************)
EXTENDS Naturals, FiniteSets

CONSTANTS
  Threads,  (* The workers that come to the lock, each again and again.    *)
  Last      (* The number of tickets drawn altogether.                     *)

ASSUME LastAssumption == Last \in Nat

VARIABLES
  drawn,    (* The number of tickets drawn, the next one to draw.          *)
  serving,  (* The ticket being served.                                    *)
  ticket,   (* The ticket each thread drew last.                           *)
  pc        (* Where each thread is.                                       *)

vars == <<drawn, serving, ticket, pc>>

(* The counters count, and each thread is somewhere in the lock.           *)
TypeOK ==
  /\ drawn \in Nat
  /\ serving \in Nat
  /\ ticket \in [Threads -> Nat]
  /\ pc \in [Threads -> {"out", "asleep", "awake", "in"}]

Init ==
  /\ drawn = 0
  /\ serving = 0
  /\ ticket = [t \in Threads |-> 0]
  /\ pc = [t \in Threads |-> "out"]

(* Mutated: notify, which wakes any one of those asleep.                   *)
NotifiedOne(but, now) ==
  LET asleep == {t \in Threads \ {but} : pc[t] = "asleep"} IN
  IF asleep = {} THEN now ELSE [now EXCEPT ![CHOOSE t \in asleep : TRUE] = "awake"]

(* notify_all: everyone asleep on the condition, but the one named, wakes. *)
Notified(but, now) ==
  [t \in Threads |-> IF t # but /\ pc[t] = "asleep" THEN "awake" ELSE now[t]]

(* __enter__: a ticket drawn, everyone told, then in, or asleep.           *)
Comes(t) ==
  /\ pc[t] = "out"
  /\ drawn < Last
  /\ ticket' = [ticket EXCEPT ![t] = drawn]
  /\ drawn' = drawn + 1
  /\ pc' = Notified(t, [pc EXCEPT ![t] = IF serving = drawn THEN "in" ELSE "asleep"])
  /\ UNCHANGED serving

(* Mutated: whoever wakes goes in, whichever ticket is being served.       *)
WakesIn(t) ==
  /\ pc[t] = "awake"
  /\ pc' = [pc EXCEPT ![t] = "in"]
  /\ UNCHANGED <<drawn, serving, ticket>>

(* wait_for: whoever wakes looks again, and goes in or back to sleep.      *)
Wakes(t) ==
  /\ pc[t] = "awake"
  /\ pc' = [pc EXCEPT ![t] = IF serving = ticket[t] THEN "in" ELSE "asleep"]
  /\ UNCHANGED <<drawn, serving, ticket>>

(* __exit__: the next ticket served, and everyone told.                    *)
Leaves(t) ==
  /\ pc[t] = "in"
  /\ serving' = serving + 1
  /\ pc' = Notified(t, [pc EXCEPT ![t] = "out"])
  /\ UNCHANGED <<drawn, ticket>>

(* Everyone has come and gone.                                             *)
AllOut == drawn = Last /\ (\A t \in Threads : pc[t] = "out") /\ UNCHANGED vars

Next == (\E t \in Threads : Comes(t) \/ Wakes(t) \/ Leaves(t)) \/ AllOut

Spec == Init /\ [][Next]_vars

(* A thread woken runs, and one inside comes out: a change lands, is       *)
(* refused or gives up its wait for the database, and never sets a         *)
(* deadline of its own.  Nobody need come.                                 *)
FairSpec == Spec /\ \A t \in Threads : WF_vars(Wakes(t)) /\ WF_vars(Leaves(t))

-----------------------------------------------------------------------------

(* One thread at a time is inside (_OneAtATime: changes one at a time).    *)
OneAtATime == \A t, u \in Threads : pc[t] = "in" /\ pc[u] = "in" => t = u

(* Nobody sleeps through its own turn: the wake-up for a ticket is never   *)
(* lost between its drawing and its wait (InOrder.__exit__, notify_all).   *)
NoneSleepsThrough == \A t \in Threads : pc[t] = "asleep" => ticket[t] # serving

(* Those who wait, in the order of their tickets, as a queue.              *)
Queue == [i \in 1..(drawn - serving) |->
  CHOOSE t \in Threads : pc[t] # "out" /\ ticket[t] = serving + i - 1]

InTurn == INSTANCE Turns WITH queue <- Queue, inside <- {t \in Threads : pc[t] = "in"}

(* The tickets are a queue, first come, first in, and whoever comes to it  *)
(* goes in (InOrder's docstring, "in the order they came to it").          *)
FirstComeFirstIn == InTurn!TurnsSpec
=============================================================================
