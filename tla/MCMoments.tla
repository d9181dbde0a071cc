----------------------------- MODULE MCMoments -----------------------------
(***************************************************************************)
(* Small instances of Moments: three artifacts of type Linking that link   *)
(* to each other in loops, one of them from inside a part, and to Below,   *)
(* which is not held at first; and one, Apart, nothing links to.  The words*)
(* are two that fold alike, one of which a match does not take for the     *)
(* other when it is searched for, and one unlike both.                     *)
(***************************************************************************)
EXTENDS Moments, TLC

CONSTANTS Top, Linking, One, Two, Three, Apart, Below, F, G, P, W, Free, Taken, Near, Low, High, Other

AllIris == {TypeOfTypes, Top, Linking, One, Two, Three, Apart, Below}
ByName == <<TypeOfTypes, Linking, One, Two, Three, Apart, Top, Below>>
Sits ==
  [x \in AllIris |-> CASE x = Below -> <<Top>>
                      [] x \in {One, Two, Three, Apart} -> <<Linking>>
                      [] OTHER -> <<>>]
Reaches == (F :> {Linking, Top}) @@ (G :> {Linking})
Holders == (F :> W) @@ (G :> P)
NearOnes == Near :> {<<One, Linking>>, <<Three, Linking>>, <<Below, Top>>, <<Linking, TypeOfTypes>>}

Folds == (Low :> Low) @@ (High :> Low) @@ (Other :> Other)
Matched == {<<Low, Low>>, <<High, High>>, <<Low, High>>, <<Other, Other>>}
Section(words) == [what |-> "section", words |-> words]
Field(words) == [what |-> "field", words |-> words]
AllWordings ==
  [x \in AllIris |->
     CASE x = One -> <<<<Section(<<Low>>), Section(<<High, Other, Low>>), Field(<<Other>>)>>>>
       [] x = Three -> <<<<Section(<<Other>>), Field(<<Low>>)>>, <<Field(<<High>>)>>>>
       [] x \in {Apart, Below} -> <<<<Section(<<High>>), Field(<<Low, Low>>)>>>>
       [] x = Linking -> <<<<Field(<<Low, High>>)>>, <<Section(<<Other>>)>>>>
       [] OTHER -> <<<<>>>>]

By(field, target, part) == [field |-> field, target |-> target, part |-> part]

Op(op, id, kind, links) ==
  [op |-> op, id |-> id, kind |-> kind, version |-> IF kind = NoIri THEN 0 ELSE 1,
   links |-> links, parts |-> {}, reads |-> {}, number |-> 0, revision |-> 0]

AllSets == {
  <<Op("create", Below, Top, <<>>)>>,
  <<Op("delete", Apart, NoIri, <<>>)>>,
  <<Op("write", Three, NoIri, <<By(F, One, W), By(F, Below, W)>>), Op("write", Linking, NoIri, <<>>)>>}

Is(kind, links, parts, versions) ==
  [revision |-> 1, kind |-> kind, version |-> 1, links |-> links, parts |-> parts,
   versions |-> versions]
Start ==
  [x \in AllIris |->
     CASE x \in {TypeOfTypes, Top, Linking} -> Is(TypeOfTypes, <<>>, {}, <<[NotKept EXCEPT !.revision = 1]>>)
       [] x = One -> Is(Linking, <<By(F, Two, W), By(F, Below, W), By(G, Three, W)>>, {P}, <<>>)
       [] x = Two -> Is(Linking, <<By(F, One, W), By(F, Three, W), By(F, One, P)>>, {}, <<>>)
       [] x = Three -> Is(Linking, <<By(F, Two, W)>>, {}, <<>>)
       [] x = Apart -> Is(Linking, <<>>, {}, <<>>)
       [] OTHER -> Nothing]

All == [kind |-> NoIri, path |-> NoPath]
SomeSelections == {[kind |-> NoIri, path |-> Near], [kind |-> TypeOfTypes, path |-> Near]}
AllSelections == {All, [kind |-> NoIri, path |-> Near], [kind |-> Linking, path |-> NoPath]}
AllNamings == {<<Below, Linking>>}
AllWalks ==
  [start : {One, Two}, part : {W, P}, inward : BOOLEAN, via : {NoField, F},
   select : AllSelections, depth : 0..3]

AllSearches ==
  [words : {{Low}, {High}, {Low, Other}, {}}, kind : {NoIri, Linking},
   within : {{"section"}, {"field"}, {"section", "field"}}]

Symmetric == Permutations(Calls)
=============================================================================
