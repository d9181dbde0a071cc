----------------------------- MODULE MCLanding -----------------------------
(***************************************************************************)
(* Small instances of Landing: one type, Decision, and IRIs below it.  A    *)
(* set is of one kind of operation, as the batch requests make it.         *)
(***************************************************************************)
EXTENDS LandingSerial, TLC

CONSTANTS Decision, First, Second

Op(op, id) == [op |-> op, id |-> id, expected |-> 0]
Over(op, id, revision) == [op |-> op, id |-> id, expected |-> revision]

OneType == {Decision}
TwoIris == {Decision, First}
ThreeIris == {Decision, First, Second}
TypeOfBoth == [each \in {First, Second} |-> Decision]
TypeOfFirst == [each \in {First} |-> Decision]
TypeThenFirst == <<Decision, First>>
TypeAlone == <<Decision>>
OneMoment == {1}
TwoMoments == {1, 2}

(* No IRI is created that was ever held: what is removed stays removed.    *)
FreshSets == {
  <<Op("create", Second)>>, <<Op("write", First)>>, <<Op("write", Decision)>>,
  <<Op("append", First), Op("append", First)>>, <<Op("append", Second)>>,
  <<Op("delete", First)>>, <<Op("delete", Decision)>>, <<Op("delete", First), Op("delete", Decision)>>}

(* IRIs removed are created again, some changes saying the revision read.  *)
ReusingSets == {
  <<Op("create", First)>>, <<Over("write", First, 1)>>,
  <<Over("append", First, 1), Over("append", First, 2)>>, <<Op("append", First)>>,
  <<Over("delete", First, 2)>>, <<Op("delete", First)>>}

(* A type removed and defined again, alone and with what stands under it.  *)
RetypingSets == {
  <<Op("create", First)>>, <<Op("delete", Decision)>>, <<Op("create", Decision)>>,
  <<Op("create", Decision), Op("create", First)>>, <<Op("delete", First), Op("delete", Decision)>>}

RemakingSets == ReusingSets \cup RetypingSets

(* A replace that says the revision it read, and an add that says none.    *)
ExpectingSets == {<<Over("write", First, 1)>>, <<Op("append", First)>>}

(* A replace of an artifact another call removes.                          *)
RemovingSets == {<<Op("write", First)>>, <<Op("delete", First)>>}

Symmetric == Permutations(Calls)
=============================================================================
