---------------------------- MODULE MCImporting ----------------------------
(***************************************************************************)
(* Small instances of Importing: a store with types Top and Linking, and   *)
(* directories that bring versions of Nearer below Top and of Linking, an  *)
(* artifact Below either may own and Holder, which links to it, each fit   *)
(* or at fault, with or without the others.                                *)
(***************************************************************************)
EXTENDS Importing, TLC

CONSTANTS Top, Nearer, Below, Linking, Holder, FTop, FNearer, A, W

AllIris == {TypeOfTypes, Top, Nearer, Below, Linking, Holder}
ByName == <<TypeOfTypes, Linking, Holder, Top, Nearer, Below>>
Sits ==
  [x \in AllIris |-> CASE x = Below -> <<Nearer, Top>> [] x = Nearer -> <<Top>>
                        [] x = Holder -> <<Linking>> [] OTHER -> <<>>]
Reaches == (FTop :> {Top}) @@ (FNearer :> {Nearer})
AllNames == {<<A>>, <<A, 2>>, <<A, 3>>, <<1>>}

AllPlaces == {<<n>> : n \in AllNames} \cup (AllNames \X AllNames)

To(target, part) == [field |-> FTop, target |-> target, part |-> part]
ToNearer(target) == [field |-> FNearer, target |-> target, part |-> W]
Titled(title) == [title |-> title, name |-> Unnamed, items |-> <<>>]
Called(name) == [title |-> <<A>>, name |-> name, items |-> <<>>]
With(item, items) == [item EXCEPT !.items = items]

FileOf(id, kind) ==
  [id |-> id, number |-> 0, reads_as |-> TRUE, fit |-> TRUE, revision |-> 1, kind |-> kind,
   version |-> 1, links |-> <<>>, items |-> <<>>, reads |-> {}]
VersionOf(id, number, reads) ==
  [FileOf(id, TypeOfTypes) EXCEPT !.number = number, !.revision = number, !.reads = reads]

(* Each name's choices of a file, or of none.                              *)
NoFile == {}
FirstNearer == {NoFile, {VersionOf(Nearer, 1, {})}, {[VersionOf(Nearer, 1, {}) EXCEPT !.fit = FALSE]},
                {[VersionOf(Nearer, 1, {}) EXCEPT !.reads_as = FALSE]}}
NextNearer == {NoFile, {VersionOf(Nearer, 2, {<<Linking, 2>>})}}
NextLinking == {NoFile, {VersionOf(Linking, 2, {})}, {VersionOf(Linking, 2, {<<Nearer, 1>>})},
                {VersionOf(Linking, 2, {<<Nearer, 2>>})},
                {[VersionOf(Linking, 2, {}) EXCEPT !.revision = 1]}}
BelowTop ==
  [FileOf(Below, Top) EXCEPT
     !.items = <<Titled(<<A>>), With(Titled(<<A>>), <<Titled(<<A>>), Called(<<A>>)>>), Titled(<<A>>)>>]
BelowNearer ==
  [FileOf(Below, Nearer) EXCEPT !.items = <<Titled(<<A>>), Titled(Untitled), Called(<<A>>)>>]
BelowNext == [BelowNearer EXCEPT !.version = 2]
BelowTwice ==
  [FileOf(Below, Top) EXCEPT !.items = <<With(Titled(<<A>>), <<Called(<<A>>), Called(<<A>>)>>)>>]
HolderToPart == [FileOf(Holder, Linking) EXCEPT !.links = <<To(Below, <<<<A, 2>>, <<A, 2>>>>)>>]
HolderToNearer == [FileOf(Holder, Linking) EXCEPT !.links = <<ToNearer(Below)>>]
HolderNext == [FileOf(Holder, Linking) EXCEPT !.version = 2, !.revision = 2]
Stray == [FileOf(NoIri, Top) EXCEPT !.reads_as = FALSE]
OwnChanged == [FileOf(TypeOfTypes, TypeOfTypes) EXCEPT !.number = 1, !.fit = FALSE]

TheRest == {
  {BelowTwice, HolderToPart}, {BelowTop, HolderToPart},
  {BelowNearer, HolderToNearer}, {BelowNext, HolderToNearer}, {HolderToNearer},
  {BelowTop, HolderNext, Stray},
  {HolderToPart, OwnChanged}}

AllDirectories ==
  {first \cup next \cup linking \cup rest :
     first \in FirstNearer, next \in NextNearer, linking \in NextLinking, rest \in TheRest}

(* What an artifact held with an item inside A is handed back with: A and  *)
(* two beside it, the item inside kept or another in its place; that item  *)
(* moved into another; an item under a name it was not given; and none.    *)
AllHandedBack ==
  {<<Titled(<<A>>), With(Called(<<A>>), <<Titled(<<A>>), Called(<<A>>)>>), Titled(<<A>>)>>,
   <<With(Called(<<A>>), <<Titled(Untitled)>>)>>,
   <<Called(<<A>>), With(Titled(<<A>>), <<Called(<<A>>)>>)>>,
   <<Called(<<A>>), Called(<<A, 3>>)>>, <<>>}

Op(op, id, kind, links, parts, reads) ==
  [op |-> op, id |-> id, kind |-> kind, version |-> IF kind = NoIri THEN 0 ELSE 1,
   links |-> links, parts |-> parts, reads |-> reads, number |-> 0, revision |-> 0]

AllSets == {
  <<Op("create", Below, Top, <<>>, {<<<<A>>>>, <<<<A>>, <<A>>>>}, {})>>,
  <<Op("create", Holder, Linking, <<To(Below, W)>>, {}, {})>>,
  <<Op("write", Linking, NoIri, <<>>, {}, {})>>,
  <<Op("create", Nearer, TypeOfTypes, <<>>, {}, {})>>,
  <<Op("create", Nearer, Top, <<>>, {}, {})>>}

(* An artifact written whole with an item whose title leaves nothing: the  *)
(* item is given the name that leaves, which is not plain.                 *)
PlacesAndNothing == AllPlaces \cup {<<NotPlain>>}
NothingSets == {<<Op("create", Below, Top, <<>>, {<<NotPlain>>}, {})>>}

Is(kind, versions) ==
  [revision |-> 1, kind |-> kind, version |-> 1, links |-> <<>>, parts |-> {},
   versions |-> versions]
First == <<[NotKept EXCEPT !.revision = 1]>>
Started == [x \in AllIris |-> IF x = TypeOfTypes THEN Is(TypeOfTypes, First) ELSE Nothing]
Start == [x \in AllIris |-> IF x \in {Top, Linking} THEN Is(TypeOfTypes, First) ELSE Started[x]]
=============================================================================
