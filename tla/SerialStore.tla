---------------------------- MODULE SerialStore ----------------------------
(***************************************************************************)
(* What the write path promises: every set lands as if it were asked alone *)
(* - its operations applied one after another to the store as it stands,   *)
(* all of them in one step - and a set is refused only when it could not   *)
(* be applied to the store as it stands.  A call may also fail, having     *)
(* written nothing: its process killed, the store busy.                    *)
(***************************************************************************)
EXTENDS Naturals, Sequences

CONSTANTS Calls, Nobody, Iris, Types, TypeOf, Sets, Before

VARIABLES
  held,  (* What each IRI holds: its revision, 0 for nothing, and content. *)
  state  (* How each call stands, and the set it asks for.                 *)

serialVars == <<held, state>>

None == [revision |-> 0, content |-> {}]

SerialInit ==
  /\ held = [x \in Iris |-> IF \E i \in DOMAIN Before : Before[i] = x
                             THEN [revision |-> 1, content |-> {Nobody}] ELSE None]
  /\ state = [c \in Calls |-> [at |-> "idle", set |-> <<>>]]

(* One operation of a call's set over what the ones before it left.        *)
Allowed(now, operation) ==
  LET stands == now[operation.id] IN
  /\ (stands = None) = (operation.op = "create")
  /\ operation.expected \in {0, stands.revision}
  /\ operation.op # "delete" /\ operation.id \notin Types => now[TypeOf[operation.id]] # None

Leaves(c, now, operation) ==
  LET stands == now[operation.id] IN
  CASE operation.op = "delete" -> None
    [] operation.op = "append" -> [revision |-> stands.revision + 1, content |-> stands.content \cup {c}]
    [] OTHER -> [revision |-> stands.revision + 1, content |-> {c}]

(* The store and whether all was allowed so far, as one more operation of  *)
(* a call's set leaves them.                                               *)
Upon(so, c, operation) ==
  IF so.fits /\ Allowed(so.now, operation)
  THEN [so EXCEPT !.now[operation.id] = Leaves(c, so.now, operation)]
  ELSE [so EXCEPT !.fits = FALSE]

Typed(now) == \A x \in Iris \ Types : now[x] # None => now[TypeOf[x]] # None

(* The store as a call's set leaves it, and whether each operation of it   *)
(* was allowed and every artifact it leaves has its type.                  *)
Applied(c) ==
  LET after[n \in 0..Len(state[c].set)] ==
        IF n = 0 THEN [now |-> held, fits |-> TRUE] ELSE Upon(after[n - 1], c, state[c].set[n])
      end == after[Len(state[c].set)]
  IN [end EXCEPT !.fits = @ /\ Typed(end.now)]

Asked(c) ==
  /\ state[c].at = "idle"
  /\ \E set \in Sets : state' = [state EXCEPT ![c] = [at |-> "asked", set |-> set]]
  /\ UNCHANGED held

Applies(c) ==
  /\ state[c].at = "asked"
  /\ Applied(c).fits
  /\ held' = Applied(c).now
  /\ state' = [state EXCEPT ![c].at = "landed"]

Declines(c) ==
  /\ state[c].at = "asked"
  /\ ~Applied(c).fits
  /\ state' = [state EXCEPT ![c].at = "refused"]
  /\ UNCHANGED held

Fails(c) ==
  /\ state[c].at = "asked"
  /\ state' = [state EXCEPT ![c].at = "failed"]
  /\ UNCHANGED held

SerialNext == \E c \in Calls : Asked(c) \/ Applies(c) \/ Declines(c) \/ Fails(c)

SerialSpec == SerialInit /\ [][SerialNext]_serialVars
=============================================================================
