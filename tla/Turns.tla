------------------------------- MODULE Turns -------------------------------
(***************************************************************************)
(* What a server promises those who change its store (kb.server.InOrder):  *)
(* a queue.  Whoever comes joins its end, only the first in it may be       *)
(* inside, and it leaves from inside.                                      *)
(***************************************************************************)
EXTENDS Sequences, SequencesExt

CONSTANT Threads

VARIABLES
  queue,  (* Those waiting, in the order they came, whoever is inside first.*)
  inside  (* Those inside.                                                 *)

turns == <<queue, inside>>

TurnsInit == queue = <<>> /\ inside = {}

Joins(t) ==
  /\ t \notin ToSet(queue)
  /\ queue' = Append(queue, t)
  /\ UNCHANGED inside

Goes(t) ==
  /\ queue # <<>> /\ Head(queue) = t
  /\ inside = {}
  /\ inside' = {t}
  /\ UNCHANGED queue

(* One that comes to an empty queue goes in at once.                       *)
JoinsAndGoes(t) ==
  /\ queue = <<>>
  /\ queue' = <<t>>
  /\ inside' = {t}

Leaves(t) ==
  /\ inside = {t}
  /\ inside' = {}
  /\ queue' = Tail(queue)

TurnsNext == \E t \in Threads : Joins(t) \/ Goes(t) \/ JoinsAndGoes(t) \/ Leaves(t)

(* Nobody overtakes.                                                       *)
TurnsTaken == TurnsInit /\ [][TurnsNext]_turns

(* Whoever waits goes in, as long as whoever is inside leaves.             *)
TurnsSpec == TurnsTaken /\ \A t \in Threads : WF_turns(Goes(t))
=============================================================================
