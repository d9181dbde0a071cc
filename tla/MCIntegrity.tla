---------------------------- MODULE MCIntegrity ----------------------------
(***************************************************************************)
(* Small instances of Integrity: types Top and, below it, Nearer, an IRI    *)
(* Below that either may own, and a type Linking whose one artifact Holder *)
(* links to it.  Nearer's IRI may hold a type or an artifact of Top's.     *)
(***************************************************************************)
EXTENDS Integrity, TLC

CONSTANTS Top, Nearer, Below, Linking, Shape, Holder, FTop, FNearer, P, W

AllIris == {TypeOfTypes, Top, Nearer, Below, Linking, Shape, Holder}
Sits ==
  [x \in AllIris |-> CASE x = Below -> <<Nearer, Top>> [] x = Nearer -> <<Top>>
                        [] x = Holder -> <<Linking>> [] OTHER -> <<>>]
Reaches == (FTop :> {Top}) @@ (FNearer :> {Nearer})

Op(op, id, kind, links, parts, reads) ==
  [op |-> op, id |-> id, kind |-> kind, version |-> IF kind = NoIri THEN 0 ELSE 1,
   links |-> links, parts |-> parts, reads |-> reads, number |-> 0,
   revision |-> IF op = "import" THEN 1 ELSE 0]
Create(id, kind, links, parts) == Op("create", id, kind, links, parts, {})
Define(id) == Op("create", id, TypeOfTypes, <<>>, {}, {})
DefineReading(id, reads) == Op("create", id, TypeOfTypes, <<>>, {}, reads)
Write(id, links, parts) == Op("write", id, NoIri, links, parts, {})
Rewrite(id, reads) == Op("write", id, NoIri, <<>>, {}, reads)
Moves(id, version) == [Write(id, <<>>, {}) EXCEPT !.version = version]
Delete(id) == Op("delete", id, NoIri, <<>>, {}, {})
Import(id, kind, links, parts) == Op("import", id, kind, links, parts, {})

To(target, part) == [field |-> FTop, target |-> target, part |-> part]
ToNearer(target) == [field |-> FNearer, target |-> target, part |-> W]

Is(kind, versions) ==
  [revision |-> 1, kind |-> kind, version |-> 1, links |-> <<>>, parts |-> {},
   versions |-> versions]
Start ==
  [x \in AllIris |-> CASE x \in {TypeOfTypes, Top, Linking} -> Is(TypeOfTypes, <<[NotKept EXCEPT !.revision = 1]>>)
                        [] OTHER -> Nothing]

Unlinked == [Start EXCEPT ![Linking] = Nothing]

(* Holder links below Top to what comes, and is replaced without its part, *)
(* and to what comes and goes, an artifact or a nearer type.  Nothing that *)
(* is replaced is removed and created again: a change of it would land     *)
(* over what it never read, which is Landing's to show.                    *)
LinkingSets == {
  <<Create(Holder, Linking, <<To(Below, P)>>, {})>>,
  <<Import(Holder, Linking, <<To(Below, P)>>, {})>>,
  <<Write(Holder, <<To(Below, P)>>, {})>>, <<Write(Holder, <<To(Below, P), To(Below, P)>>, {})>>,
  <<Write(Holder, <<To(Nearer, W)>>, {})>>,
  <<Create(Below, Top, <<>>, {P})>>, <<Create(Below, Top, <<>>, {})>>,
  <<Write(Below, <<>>, {})>>,
  <<Define(Nearer)>>, <<Delete(Nearer)>>, <<Create(Nearer, Top, <<>>, {})>>,
  <<Create(Below, Nearer, <<>>, {})>>, <<Define(Nearer), Create(Below, Nearer, <<>>, {})>>,
  <<Define(Shape)>>, <<DefineReading(Linking, {<<Shape, 1>>})>>, <<Rewrite(Linking, {})>>,
  <<Delete(Shape)>>, <<Delete(Shape), Delete(Nearer)>>, <<Moves(Holder, 2)>>,
  <<Write(Below, <<>>, {}), Write(Holder, <<To(Below, P)>>, {})>>}

(* Artifacts belong where they sit if what is replaced is not removed; the *)
(* types read are held if those that read them are drafted under the lock  *)
(* and nothing else is made in their place; the check finds nothing if     *)
(* besides nothing else is made where links may land, and what is removed  *)
(* is told by its revision.                                                *)
ASSUME LinkingAssumption ==
  /\ ReplacedStays(LinkingSets) /\ ReadStays(LinkingSets) /\ ReadAsTypes(LinkingSets)
  /\ LinkedAsTypes(LinkingSets) /\ RemovedCounted(LinkingSets)

(* An artifact replaced, removed meanwhile and a type defined in its place *)
(* at the revision it was read at.                                         *)
RemadeSets == {
  <<Create(Nearer, Top, <<>>, {})>>, <<Write(Nearer, <<>>, {})>>, <<Delete(Nearer)>>,
  <<Define(Nearer)>>, <<Create(Below, Nearer, <<>>, {})>>}

(* A link that may land under Nearer, drafted while Nearer holds a type.   *)
NearerSets == {
  <<Create(Holder, Linking, <<ToNearer(Below)>>, {})>>,
  <<Define(Nearer)>>, <<Delete(Nearer)>>, <<Create(Nearer, Top, <<>>, {})>>}

(* A version of a type made to read another, which is removed meanwhile.   *)
ReadingSets == {
  <<Rewrite(Linking, {<<Shape, 1>>})>>, <<Define(Shape)>>, <<Delete(Shape)>>}

Symmetric == Permutations(Calls)
=============================================================================
