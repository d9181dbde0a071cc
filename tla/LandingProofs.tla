--------------------------- MODULE LandingProofs ---------------------------
(***************************************************************************)
(* What TLAPS proves of Landing, for any calls, IRIs, sets and clocks: what *)
(* the ids and the history are, what each call is answered, the types of   *)
(* what is held, and what a set lands over, against what its call read,    *)
(* under the write lock and where no IRI is created twice; and that it     *)
(* implements SerialStore.                                                 *)
(***************************************************************************)
EXTENDS LandingSerial, TLAPS, FiniteSetTheorems, FunctionTheorems, SequenceTheorems, WellFoundedInduction

-----------------------------------------------------------------------------
(* Arithmetic and cardinality the ids rest on.                             *)

(* A set of numbers none of which is above a bound has a highest one: what *)
(* journal._last_seq's max over the ids of a moment gives.                 *)
LEMMA HighestExists ==
  ASSUME NEW T \in SUBSET Nat, T # {}, NEW b \in Nat, \A n \in T : n <= b
  PROVE  \E n \in T : \A m \in T : m <= n
<1> DEFINE Below == {b - n : n \in T}
<1>1. Below \subseteq Nat /\ Below # {}
  <2>1. \A n \in T : b - n \in Nat /\ n \in Nat
    OBVIOUS
  <2>2. Below \subseteq Nat
    BY <2>1
  <2>3. PICK n \in T : TRUE
    OBVIOUS
  <2>4. b - n \in Below
    OBVIOUS
  <2> QED
    BY <2>2, <2>4
<1>2. PICK k \in Below : \A l \in Below : <<l, k>> \notin OpToRel(<, Nat)
  BY <1>1, WFMin, NatLessThanWellFounded, Zenon
<1>3. \A l \in Below : ~(l < k)
  BY <1>1, <1>2, Zenon DEF OpToRel
<1>4. PICK n \in T : k = b - n
  BY Zenon
<1>5. \A m \in T : b - m \in Below
  OBVIOUS
<1>6. \A m \in T : ~(b - m < b - n)
  BY <1>3, <1>4, <1>5
<1> QED
  BY <1>6

-----------------------------------------------------------------------------
(* Type correctness.  What TypeOK rests on: a call drafting an operation   *)
(* has one left to draft, what is landed has one moment and one id for     *)
(* each change, and the ids of one moment are bounded.                     *)

Acts == {"holds", "expected", "current", "type_holds", "type_read", "free"}

(* Where a call stands in its set.                                         *)
Placed ==
  \A c \in Calls :
    /\ IF pc[c] = "idle" THEN draft[c].changes = <<>> ELSE asked[c] \in Sets
    /\ pc[c] \in Acts => Len(draft[c].changes) < Len(asked[c])
    /\ pc[c] \in {"type_holds", "type_read"} => Acting(c).id \notin Types
    /\ pc[c] \in {"mint", "land"} => Len(draft[c].moments) = Len(draft[c].changes)
    /\ pc[c] = "land" => Len(stamps[c]) = Len(draft[c].changes)

(* The ids held at one moment, and those a call has minted, are bounded.   *)
IdsBounded ==
  /\ \A m \in Nat : \E b \in Nat : \A e \in entries : e.id[1] = m => e.id[2] <= b
  /\ \A c \in Calls : \A m \in Nat : \E b \in Nat :
       \A i \in DOMAIN stamps[c] : stamps[c][i][1] = m => stamps[c][i][2] <= b

TypeInv == TypeOK /\ Placed /\ IdsBounded

LEMMA BlankType == Blank \in Draft
  BY DEF Blank, Draft, Nothing, Artifact

(* What the draft reads is an artifact, or nothing, and stays so kept.     *)
LEMMA ReadType ==
  ASSUME TypeOK, NEW c \in Calls, NEW x \in Iris
  PROVE  Read(c, x) \in Artifact /\ Kept(c, x) \in [Iris -> Artifact]
<1>1. /\ draft[c] \in Draft /\ artifacts[x] \in Artifact
      /\ draft[c].left[x] \in Artifact /\ draft[c].types[x] \in Artifact
      /\ draft[c].types \in [Iris -> Artifact]
  BY DEF TypeOK, Draft
<1>2. Read(c, x) \in Artifact
  BY <1>1 DEF Read
<1> QED
  BY <1>1, <1>2 DEF Kept

LEMMA ActingType ==
  ASSUME TypeInv, NEW c \in Calls, pc[c] \in Acts
  PROVE  /\ Acting(c) \in Operation
         /\ Len(draft[c].changes) + 1 \in 1..Len(asked[c])
         /\ Len(draft[c].changes) \in Nat
<1>1. asked[c] \in Seq(Operation) /\ draft[c].changes \in Seq(Change)
  BY DEF TypeInv, TypeOK, Draft
<1>2. Len(draft[c].changes) < Len(asked[c])
  BY DEF TypeInv, Placed
<1> QED
  BY <1>1, <1>2 DEF Acting

(* A change drafted leaves a draft, one change longer.                     *)
LEMMA DraftedType ==
  ASSUME TypeOK, NEW c \in Calls, NEW kept \in [Iris -> Artifact], NEW change \in Change
  PROVE  /\ Drafted(c, kept, change) \in Draft
         /\ Len(Drafted(c, kept, change).changes) = Len(draft[c].changes) + 1
<1>1. draft[c] \in Draft
  BY DEF TypeOK
<1>2. /\ change.id \in Iris /\ change.revision \in Nat /\ change.content \in SUBSET Writers
      /\ draft[c].put \in SUBSET Iris /\ draft[c].removed \in SUBSET Iris
      /\ draft[c].left \in [Iris -> Artifact] /\ draft[c].changes \in Seq(Change)
  BY <1>1 DEF Change, Draft
<1> DEFINE left == [revision |-> change.revision, landed |-> 0, content |-> change.content]
<1>3. left \in Artifact /\ Nothing \in Artifact
  BY <1>2 DEF Artifact, Nothing
<1>4. [draft[c].left EXCEPT ![change.id] = left] \in [Iris -> Artifact]
  BY <1>2, <1>3
<1>5. Append(draft[c].changes, change) \in Seq(Change) /\ <<>> \in Seq(Nat)
  BY <1>2
<1> HIDE DEF left
<1>6. Drafted(c, kept, change) \in Draft
  BY <1>2, <1>3, <1>4, <1>5 DEF Drafted, Draft, left
<1> QED
  BY <1>2, <1>6 DEF Drafted

(* One operation acted leaves the call at its next operation, or done.     *)
LEMMA ActedType ==
  ASSUME TypeInv, NEW c \in Calls, pc[c] \in Acts,
         NEW kept \in [Iris -> Artifact], NEW read \in Nat, NEW revision \in Nat,
         NEW content \in SUBSET Writers, NEW seen \in Nat,
         Acted(c, kept, read, revision, content, seen)
  PROVE  TypeInv'
<1> DEFINE change == [op |-> Acting(c).op, id |-> Acting(c).id, expected |-> Acting(c).expected,
                      read |-> read, revision |-> revision, content |-> content, seen |-> seen]
           made == Drafted(c, kept, change)
           next == Len(draft[c].changes) + 2
           step == IF next > Len(asked[c]) THEN "check" ELSE FirstStep(asked[c][next])
<1>1. /\ Acting(c) \in Operation
      /\ Len(draft[c].changes) + 1 \in 1..Len(asked[c])
      /\ Len(draft[c].changes) \in Nat
  BY ActingType
<1>2. /\ draft' = [draft EXCEPT ![c] = made]
      /\ pc' = [pc EXCEPT ![c] = step]
      /\ UNCHANGED <<artifacts, entries, sets, lock, asked, stamps, outcome>>
  BY DEF Acted, GoesTo
<1>3. change \in Change
  BY <1>1 DEF Change, Operation
<1>4. asked[c] \in Seq(Operation) /\ asked[c] \in Sets
  BY DEF TypeInv, TypeOK, Placed, Acts
<1>5. made \in Draft /\ Len(made.changes) = Len(draft[c].changes) + 1
  BY <1>3, DraftedType DEF TypeInv
<1> HIDE DEF made
<1>6. /\ step \in Steps /\ (step \in Acts => next <= Len(asked[c])) /\ step \in Acts \cup {"check"}
      /\ step \in {"type_holds", "type_read"} => asked[c][next].id \notin Types
  BY <1>1, <1>4 DEF FirstStep, Steps, Drafting, Acts
<1>7. TypeOK'
  BY <1>2, <1>5, <1>6 DEF TypeInv, TypeOK
<1>8. Placed'
  <2> SUFFICES ASSUME NEW d \in Calls
               PROVE  /\ IF pc'[d] = "idle" THEN draft'[d].changes = <<>> ELSE asked'[d] \in Sets
                      /\ pc'[d] \in Acts => Len(draft'[d].changes) < Len(asked'[d])
                      /\ pc'[d] \in {"type_holds", "type_read"} => Acting(d)'.id \notin Types
                      /\ pc'[d] \in {"mint", "land"} =>
                           Len(draft'[d].moments) = Len(draft'[d].changes)
                      /\ pc'[d] = "land" => Len(stamps'[d]) = Len(draft'[d].changes)
    BY DEF Placed
  <2>1. CASE d = c
    <3>1. pc'[d] = step /\ draft'[d] = made /\ asked'[d] = asked[c]
      BY <1>2, <2>1 DEF TypeInv, TypeOK
    <3>2. Len(made.changes) + 1 = next
      BY <1>1, <1>5
    <3>3. pc'[d] \in {"type_holds", "type_read"} => Acting(d)'.id \notin Types
      BY <1>6, <3>1, <3>2 DEF Acting
    <3>4. step \notin {"mint", "land", "idle"}
      BY <1>6 DEF Acts
    <3>5. step \in Acts => Len(made.changes) < Len(asked[c])
      BY <1>1, <1>4, <1>5, <1>6
    <3> QED
      BY <1>4, <3>1, <3>3, <3>4, <3>5
  <2>2. CASE d # c
    BY <1>2, <2>2 DEF TypeInv, TypeOK, Placed, Acting
  <2> QED
    BY <2>1, <2>2
<1>9. IdsBounded'
  BY <1>2 DEF TypeInv, IdsBounded
<1> QED
  BY <1>7, <1>8, <1>9 DEF TypeInv

(* A call that ends, or goes to a step where nothing more is promised of   *)
(* it, keeps every call in its place.                                      *)
LEMMA EndsType ==
  ASSUME TypeInv, NEW c \in Calls, pc[c] # "idle", NEW answer \in Outcomes, Ends(c, answer)
  PROVE  TypeInv'
<1>1. /\ pc' = [pc EXCEPT ![c] = "done"] /\ outcome' = [outcome EXCEPT ![c] = answer]
      /\ lock' \in {lock, Nobody} /\ draft' = [draft EXCEPT ![c] = Blank]
      /\ stamps' = [stamps EXCEPT ![c] = <<>>]
      /\ UNCHANGED <<artifacts, entries, sets, asked>>
  BY DEF Ends
<1>2. TypeOK'
  BY <1>1, BlankType DEF TypeInv, TypeOK, Steps
<1>3. Placed'
  BY <1>1 DEF TypeInv, TypeOK, Placed, Acts, Acting
<1>4. IdsBounded'
  <2>1. \A d \in Calls : \A m \in Nat : \E b \in Nat :
          \A i \in DOMAIN stamps'[d] : stamps'[d][i][1] = m => stamps'[d][i][2] <= b
    <3> TAKE d \in Calls, m \in Nat
    <3>1. CASE d = c
      <4>1. stamps'[d] = <<>>
        BY <1>1, <3>1 DEF TypeInv, TypeOK
      <4> WITNESS 0 \in Nat
      <4> QED
        BY <4>1
    <3>2. CASE d # c
      BY <1>1, <3>2 DEF TypeInv, TypeOK, IdsBounded
    <3> QED
      BY <3>1, <3>2
  <2> QED
    BY <1>1, <2>1 DEF TypeInv, IdsBounded
<1> QED
  BY <1>2, <1>3, <1>4 DEF TypeInv

(* A call that goes on with the draft it has, or one of as many changes.   *)
LEMMA GoesToType ==
  ASSUME TypeInv, NEW c \in Calls, NEW step \in Steps \ {"idle"}, GoesTo(c, step),
         pc[c] # "idle",
         NEW now \in Draft, draft' = [draft EXCEPT ![c] = now],
         now.changes = draft[c].changes,
         step \in Acts => pc[c] \in Acts,
         step \in {"type_holds", "type_read"} => Acting(c).id \notin Types,
         step \in {"mint", "land"} => Len(now.moments) = Len(now.changes),
         step = "land" => Len(stamps[c]) = Len(now.changes)
  PROVE  TypeInv'
<1>1. pc' = [pc EXCEPT ![c] = step] /\ UNCHANGED <<artifacts, entries, sets, lock, asked, stamps, outcome>>
  BY DEF GoesTo
<1>2. TypeOK'
  BY <1>1 DEF TypeInv, TypeOK
<1>3. Placed'
  <2> SUFFICES ASSUME NEW d \in Calls
               PROVE  /\ IF pc'[d] = "idle" THEN draft'[d].changes = <<>> ELSE asked'[d] \in Sets
                      /\ pc'[d] \in Acts => Len(draft'[d].changes) < Len(asked'[d])
                      /\ pc'[d] \in {"type_holds", "type_read"} => Acting(d)'.id \notin Types
                      /\ pc'[d] \in {"mint", "land"} =>
                           Len(draft'[d].moments) = Len(draft'[d].changes)
                      /\ pc'[d] = "land" => Len(stamps'[d]) = Len(draft'[d].changes)
    BY DEF Placed
  <2>1. CASE d = c
    <3>1. pc'[d] = step /\ draft'[d] = now /\ asked'[d] = asked[c] /\ stamps'[d] = stamps[c]
      BY <1>1, <2>1 DEF TypeInv, TypeOK
    <3> QED
      BY <3>1 DEF TypeInv, Placed, Acting
  <2>2. CASE d # c
    BY <1>1, <2>2 DEF TypeInv, TypeOK, Placed, Acting
  <2> QED
    BY <2>1, <2>2
<1>4. IdsBounded'
  BY <1>1 DEF TypeInv, IdsBounded
<1> QED
  BY <1>2, <1>3, <1>4 DEF TypeInv

(* A call that goes on drafting the operation it is at.                    *)
LEMMA GoesOnType ==
  ASSUME TypeInv, NEW c \in Calls, pc[c] \in Acts, NEW step \in Acts, GoesTo(c, step),
         step \in {"type_holds", "type_read"} => Acting(c).id \notin Types,
         NEW now \in Draft, draft' = [draft EXCEPT ![c] = now],
         now.changes = draft[c].changes
  PROVE  TypeInv'
<1>1. step \in Steps \ {"idle"} /\ step \notin {"mint", "land"} /\ step # "land"
  BY DEF Acts, Steps, Drafting
<1>2. pc[c] # "idle"
  BY DEF Acts
<1> QED
  BY <1>1, <1>2, GoesToType

-----------------------------------------------------------------------------
(* Ids.                                                                    *)

(* The highest seq held at a moment is a number, and none held is above.   *)
LEMMA LastSeqType ==
  ASSUME TypeInv, NEW moment \in Nat
  PROVE  /\ LastSeq(moment) \in Nat
         /\ \A e \in entries : e.id[1] = moment => e.id[2] <= LastSeq(moment)
<1> DEFINE seqs == {e.id[2] : e \in {each \in entries : each.id[1] = moment}} \cup {0}
<1>1. \A e \in entries : e.id[2] \in Nat
  BY DEF TypeInv, TypeOK, Entry, EntryId
<1>2. seqs \in SUBSET Nat /\ seqs # {}
  BY <1>1
<1>3. PICK b \in Nat : \A e \in entries : e.id[1] = moment => e.id[2] <= b
  BY DEF TypeInv, IdsBounded
<1>4. \A n \in seqs : n <= b
  BY <1>3
<1>5. \E n \in seqs : \A m \in seqs : m <= n
  BY <1>2, <1>4, HighestExists
<1>6. LastSeq(moment) \in seqs /\ \A m \in seqs : m <= LastSeq(moment)
  BY <1>5, Zenon DEF LastSeq
<1> QED
  BY <1>2, <1>6

(* The ids minted are ids, one for each moment, bounded at each moment.    *)
LEMMA MintedType ==
  ASSUME TypeInv, NEW moments \in Seq(Nat)
  PROVE  /\ Minted(moments) \in Seq(EntryId)
         /\ Len(Minted(moments)) = Len(moments)
         /\ \A m \in Nat : \E b \in Nat : \A i \in DOMAIN Minted(moments) :
              Minted(moments)[i][1] = m => Minted(moments)[i][2] <= b
<1>1. /\ Len(moments) \in Nat /\ DOMAIN moments = 1..Len(moments)
      /\ \A i \in 1..Len(moments) : moments[i] \in Nat
  OBVIOUS
<1> DEFINE nth(i) == Cardinality({j \in 1..i : moments[j] = moments[i]})
<1>2. \A i \in 1..Len(moments) : nth(i) \in Nat /\ nth(i) <= Len(moments)
  <2> TAKE i \in 1..Len(moments)
  <2>1. IsFiniteSet(1..i) /\ Cardinality(1..i) = i
    BY <1>1, FS_Interval
  <2>2. /\ IsFiniteSet({j \in 1..i : moments[j] = moments[i]})
        /\ nth(i) <= Cardinality(1..i)
    BY <2>1, FS_Subset
  <2>3. nth(i) \in Nat
    BY <2>2, FS_CardinalityType
  <2> QED
    BY <1>1, <2>1, <2>2, <2>3
<1>3. \A i \in 1..Len(moments) : LastSeq(moments[i]) \in Nat
  BY <1>1, LastSeqType
<1> DEFINE id(i) == <<moments[i], LastSeq(moments[i]) + nth(i)>>
<1>4. Minted(moments) = [i \in 1..Len(moments) |-> id(i)]
  BY <1>1, Zenon DEF Minted
<1> HIDE DEF nth
<1>5. \A i \in 1..Len(moments) : id(i) \in EntryId
  BY <1>1, <1>2, <1>3 DEF EntryId
<1>6. ASSUME NEW m \in Nat
      PROVE  \E b \in Nat : \A i \in DOMAIN Minted(moments) :
               Minted(moments)[i][1] = m => Minted(moments)[i][2] <= b
  <2> DEFINE b == LastSeq(m) + Len(moments)
  <2>1. b \in Nat /\ LastSeq(m) \in Nat
    BY <1>1, LastSeqType
  <2>2. ASSUME NEW i \in 1..Len(moments), moments[i] = m
        PROVE  LastSeq(moments[i]) + nth(i) <= b
    BY <1>1, <1>2, <2>1, <2>2
  <2>3. /\ DOMAIN Minted(moments) = 1..Len(moments)
        /\ \A i \in 1..Len(moments) : /\ Minted(moments)[i][1] = moments[i]
                                      /\ Minted(moments)[i][2] = LastSeq(moments[i]) + nth(i)
    BY <1>4
  <2> HIDE DEF b, id
  <2> QED
    BY <2>1, <2>2, <2>3
<1> HIDE DEF id
<1> QED
  BY <1>1, <1>4, <1>5, <1>6

-----------------------------------------------------------------------------
(* The steps.                                                              *)

LEMMA InitType == Init => TypeInv
<1> SUFFICES ASSUME Init PROVE TypeInv
  OBVIOUS
<1>1. DOMAIN Before = 1..Len(Before) /\ Len(Before) \in Nat /\ \A i \in DOMAIN Before : Before[i] \in Iris
  BY BeforeAssumption
<1>2. TypeOK
  <2>1. artifacts \in [Iris -> Artifact]
    BY DEF Init, Artifact, Nothing, Writers
  <2>2. entries \subseteq Entry
    <3>1. \A i \in DOMAIN Before : <<0, i>> \in EntryId /\ i \in Nat /\ Before[i] \in Iris
      BY <1>1 DEF EntryId
    <3>2. ASSUME NEW e \in entries PROVE e \in Entry
      <4>1. PICK i \in DOMAIN Before :
              e = [id |-> <<0, i>>, set |-> 1, step |-> i, op |-> "create",
                   artifact |-> Before[i], revision |-> 1, by |-> Nobody]
        BY DEF Init
      <4> QED
        BY <3>1, <4>1 DEF Entry, Writers
    <3> QED
      BY <3>2
  <2>3. draft \in [Calls -> Draft]
    BY BlankType DEF Init
  <2>4. pc \in [Calls -> Steps] /\ outcome \in [Calls -> Outcomes]
    BY DEF Init, Steps, Outcomes
  <2>5. <<>> \in Seq(Operation) /\ <<>> \in Seq(EntryId)
    OBVIOUS
  <2>6. asked \in [Calls -> Seq(Operation)] /\ stamps \in [Calls -> Seq(EntryId)]
    BY <2>5 DEF Init
  <2>7. sets \in Nat /\ lock \in Calls \cup {Nobody}
    BY DEF Init
  <2> QED
    BY <2>1, <2>2, <2>3, <2>4, <2>6, <2>7 DEF TypeOK
<1>3. Placed
  BY DEF Init, Placed, Acts, Blank, Acting
<1>4. IdsBounded
  <2>1. ASSUME NEW m \in Nat
        PROVE  \E b \in Nat : \A e \in entries : e.id[1] = m => e.id[2] <= b
    <3> WITNESS Len(Before) \in Nat
    <3> QED
      BY <1>1 DEF Init
  <2>2. ASSUME NEW c \in Calls, NEW m \in Nat
        PROVE  \E b \in Nat : \A i \in DOMAIN stamps[c] : stamps[c][i][1] = m => stamps[c][i][2] <= b
    <3>1. stamps[c] = <<>>
      BY DEF Init
    <3> WITNESS 0 \in Nat
    <3> QED
      BY <3>1
  <2> QED
    BY <2>1, <2>2 DEF IdsBounded
<1> QED
  BY <1>2, <1>3, <1>4 DEF TypeInv

LEMMA AskType == ASSUME TypeInv, NEW c \in Calls, Ask(c) PROVE TypeInv'
<1>1. PICK set \in Sets : /\ asked' = [asked EXCEPT ![c] = set]
                          /\ pc' = [pc EXCEPT ![c] = FirstStep(set[1])]
  BY DEF Ask
<1>2. pc[c] = "idle" /\ UNCHANGED <<artifacts, entries, sets, lock, draft, stamps, outcome>>
  BY DEF Ask
<1>3. set \in Seq(Operation) /\ Len(set) \in Nat \ {0}
  BY SetsAssumption
<1>4. FirstStep(set[1]) \in Acts
  BY DEF FirstStep, Acts
<1>5. draft[c].changes = <<>>
  BY <1>2 DEF TypeInv, Placed
<1>6. TypeOK'
  BY <1>1, <1>2, <1>3, <1>4 DEF TypeInv, TypeOK, Acts, Steps, Drafting
<1>7. Placed'
  <2> SUFFICES ASSUME NEW d \in Calls
               PROVE  /\ IF pc'[d] = "idle" THEN draft'[d].changes = <<>> ELSE asked'[d] \in Sets
                      /\ pc'[d] \in Acts => Len(draft'[d].changes) < Len(asked'[d])
                      /\ pc'[d] \in {"type_holds", "type_read"} => Acting(d)'.id \notin Types
                      /\ pc'[d] \in {"mint", "land"} =>
                           Len(draft'[d].moments) = Len(draft'[d].changes)
                      /\ pc'[d] = "land" => Len(stamps'[d]) = Len(draft'[d].changes)
    BY DEF Placed
  <2>1. CASE d = c
    <3>1. pc'[d] = FirstStep(set[1]) /\ draft'[d] = draft[c] /\ asked'[d] = set
      BY <1>1, <1>2, <2>1 DEF TypeInv, TypeOK
    <3>2. Len(draft[c].changes) = 0
      BY <1>5
    <3>3. FirstStep(set[1]) \in {"type_holds", "type_read"} => set[1].id \notin Types
      BY DEF FirstStep
    <3> QED
      BY <1>3, <1>4, <3>1, <3>2, <3>3 DEF Acts, Acting
  <2>2. CASE d # c
    BY <1>1, <1>2, <2>2 DEF TypeInv, TypeOK, Placed, Acting
  <2> QED
    BY <2>1, <2>2
<1>8. IdsBounded'
  BY <1>2 DEF TypeInv, IdsBounded
<1> QED
  BY <1>6, <1>7, <1>8 DEF TypeInv

LEMMA FindsHeldType == ASSUME TypeInv, NEW c \in Calls, FindsHeld(c) PROVE TypeInv'
<1>1. pc[c] = "holds" /\ draft[c] \in Draft
  BY DEF FindsHeld, TypeInv, TypeOK
<1>2. CASE GoesTo(c, "expected") /\ UNCHANGED draft
  <2>1. draft' = [draft EXCEPT ![c] = draft[c]]
    BY <1>2 DEF TypeInv, TypeOK
  <2>2. pc[c] \in Acts /\ "expected" \in Acts /\ "expected" \notin {"type_holds", "type_read"}
    BY <1>1 DEF Acts
  <2> QED
    BY <1>1, <1>2, <2>1, <2>2, GoesOnType
<1>3. CASE Refused(c)
  BY <1>1, <1>3, EndsType DEF Refused, Outcomes
<1> QED
  BY <1>2, <1>3 DEF FindsHeld

LEMMA FindsTypeHeldType == ASSUME TypeInv, NEW c \in Calls, FindsTypeHeld(c) PROVE TypeInv'
<1>1. pc[c] = "type_holds" /\ draft[c] \in Draft
  BY DEF FindsTypeHeld, TypeInv, TypeOK
<1>2. CASE GoesTo(c, "type_read") /\ UNCHANGED draft
  <2>1. draft' = [draft EXCEPT ![c] = draft[c]]
    BY <1>2 DEF TypeInv, TypeOK
  <2>2. pc[c] \in Acts /\ "type_read" \in Acts /\ Acting(c).id \notin Types
    BY <1>1 DEF Acts, TypeInv, Placed
  <2> QED
    BY <1>1, <1>2, <2>1, <2>2, GoesOnType
<1>3. CASE Refused(c)
  BY <1>1, <1>3, EndsType DEF Refused, Outcomes
<1> QED
  BY <1>2, <1>3 DEF FindsTypeHeld

(* A draft holding what it read as well is a draft of as many changes.     *)
LEMMA ReadingType ==
  ASSUME TypeInv, NEW c \in Calls, NEW x \in Iris
  PROVE  /\ [draft[c] EXCEPT !.types = Kept(c, x)] \in Draft
         /\ [draft[c] EXCEPT !.types = Kept(c, x)].changes = draft[c].changes
         /\ [draft[c] EXCEPT !.current = Read(c, x)] \in Draft
         /\ [draft[c] EXCEPT !.current = Read(c, x)].changes = draft[c].changes
<1>1. draft[c] \in Draft
  BY DEF TypeInv, TypeOK
<1>2. Read(c, x) \in Artifact /\ Kept(c, x) \in [Iris -> Artifact]
  BY ReadType DEF TypeInv
<1> QED
  BY <1>1, <1>2 DEF Draft

LEMMA ComparesExpectedType == ASSUME TypeInv, NEW c \in Calls, ComparesExpected(c) PROVE TypeInv'
<1> DEFINE x == Acting(c).id
           now == [draft[c] EXCEPT !.types = Kept(c, x)]
<1>1. pc[c] = "expected" /\ x \in Iris
  BY ActingType DEF ComparesExpected, Acts, Operation
<1>2. CASE draft' = [draft EXCEPT ![c].types = Kept(c, x)] /\ GoesTo(c, "current")
  <2>1. draft' = [draft EXCEPT ![c] = now]
    BY <1>2 DEF TypeInv, TypeOK
  <2>2. now \in Draft /\ now.changes = draft[c].changes
    BY <1>1, ReadingType
  <2>3. pc[c] \in Acts /\ "current" \in Acts /\ "current" \notin {"type_holds", "type_read"}
    BY <1>1 DEF Acts
  <2> HIDE DEF now
  <2> QED
    BY <1>2, <2>1, <2>2, <2>3, GoesOnType
<1>3. CASE Escaped(c) \/ Refused(c)
  BY <1>1, <1>3, EndsType DEF Refused, Escaped, Outcomes
<1> QED
  BY <1>2, <1>3 DEF ComparesExpected

(* A replace, an add or a removal acted on an artifact read.               *)
LEMMA RevisesType ==
  ASSUME TypeInv, NEW c \in Calls, pc[c] \in Acts, NEW kept \in [Iris -> Artifact],
         NEW current \in Artifact, Revises(c, kept, current)
  PROVE  TypeInv'
<1> DEFINE written == IF Acting(c).op = "append" THEN current.content \cup {c}
                      ELSE IF Acting(c).op = "write" THEN {c} ELSE {}
<1>1. /\ current.revision \in Nat /\ current.revision + 1 \in Nat /\ current.landed \in Nat
      /\ written \in SUBSET Writers
  BY DEF Artifact, Writers
<1>2. Acted(c, kept, current.revision, current.revision + 1, written, current.landed)
  BY DEF Revises
<1> HIDE DEF written
<1> QED
  BY <1>1, <1>2, ActedType

LEMMA ReadsCurrentType == ASSUME TypeInv, NEW c \in Calls, ReadsCurrent(c) PROVE TypeInv'
<1> DEFINE x == Acting(c).id
           now == [draft[c] EXCEPT !.current = Read(c, x)]
<1>1. pc[c] = "current" /\ x \in Iris
  BY ActingType DEF ReadsCurrent, Acts, Operation
<1>2. Read(c, x) \in Artifact /\ Kept(c, x) \in [Iris -> Artifact]
  BY <1>1, ReadType DEF TypeInv
<1>3. CASE Escaped(c)
  BY <1>1, <1>3, EndsType DEF Escaped, Outcomes
<1>4. CASE Revises(c, Kept(c, x), Read(c, x))
  BY <1>1, <1>2, <1>4, RevisesType DEF Acts
<1>5. CASE /\ x \notin Types
           /\ draft' = [draft EXCEPT ![c].current = Read(c, x)]
           /\ GoesTo(c, "type_holds")
  <2>1. draft' = [draft EXCEPT ![c] = now]
    BY <1>5 DEF TypeInv, TypeOK
  <2>2. now \in Draft /\ now.changes = draft[c].changes
    BY <1>1, ReadingType
  <2>3. pc[c] \in Acts /\ "type_holds" \in Acts
    BY <1>1 DEF Acts
  <2>4. GoesTo(c, "type_holds") /\ Acting(c).id \notin Types
    BY <1>5
  <2> HIDE DEF now, x
  <2> QED
    BY <2>1, <2>2, <2>3, <2>4, GoesOnType
<1> QED
  BY <1>3, <1>4, <1>5 DEF ReadsCurrent

LEMMA ReadsTypeType == ASSUME TypeInv, NEW c \in Calls, ReadsType(c) PROVE TypeInv'
<1> DEFINE type == TypeOf[Acting(c).id]
           now == [draft[c] EXCEPT !.types = Kept(c, type)]
<1>1. pc[c] = "type_read" /\ pc[c] \in Acts /\ draft[c].current \in Artifact
  BY DEF ReadsType, TypeInv, TypeOK, Draft, Acts
<1>2. Acting(c).id \in Iris \ Types
  BY <1>1, ActingType DEF Operation, TypeInv, Placed
<1>3. type \in Iris
  BY <1>2, TypesAssumption
<1>4. Kept(c, type) \in [Iris -> Artifact]
  BY <1>3, ReadType DEF TypeInv
<1>5. CASE Escaped(c)
  BY <1>1, <1>5, EndsType DEF Escaped, Outcomes
<1>6. CASE Revises(c, Kept(c, type), draft[c].current)
  BY <1>1, <1>4, <1>6, RevisesType
<1>7. CASE draft' = [draft EXCEPT ![c].types = Kept(c, type)] /\ GoesTo(c, "free")
  <2>1. draft' = [draft EXCEPT ![c] = now]
    BY <1>7 DEF TypeInv, TypeOK
  <2>2. now \in Draft /\ now.changes = draft[c].changes
    BY <1>3, ReadingType
  <2>3. "free" \in Acts /\ "free" \notin {"type_holds", "type_read"}
    BY DEF Acts
  <2> HIDE DEF now
  <2> QED
    BY <1>1, <1>7, <2>1, <2>2, <2>3, GoesOnType
<1> QED
  BY <1>5, <1>6, <1>7 DEF ReadsType

LEMMA FindsFreeType == ASSUME TypeInv, NEW c \in Calls, FindsFree(c) PROVE TypeInv'
<1>1. pc[c] = "free" /\ pc[c] \in Acts
  BY DEF FindsFree, Acts
<1>2. draft[c].types \in [Iris -> Artifact] /\ {c} \in SUBSET Writers
  BY DEF TypeInv, TypeOK, Draft, Writers
<1>3. CASE Acted(c, draft[c].types, 0, 1, {c}, 0)
  BY <1>1, <1>2, <1>3, ActedType
<1>4. CASE Refused(c)
  BY <1>1, <1>4, EndsType DEF Refused, Outcomes
<1> QED
  BY <1>3, <1>4 DEF FindsFree

LEMMA ChecksType == ASSUME TypeInv, NEW c \in Calls, Checks(c) PROVE TypeInv'
<1> DEFINE step == IF Locked(c) /\ lock # c THEN "relock" ELSE "mint"
<1>1. pc[c] = "check" /\ draft[c] \in Draft
  BY DEF Checks, TypeInv, TypeOK
<1>2. CASE Refused(c)
  BY <1>1, <1>2, EndsType DEF Refused, Outcomes
<1>3. ASSUME NEW moments \in [DOMAIN Changes(c) -> Moments],
             draft' = [draft EXCEPT ![c].moments = moments], GoesTo(c, step)
      PROVE  TypeInv'
  <2> DEFINE now == [draft[c] EXCEPT !.moments = moments]
  <2>1. draft[c].changes \in Seq(Change) /\ DOMAIN Changes(c) = 1..Len(draft[c].changes)
    BY <1>1 DEF Draft, Changes
  <2>2. moments \in Seq(Nat) /\ Len(moments) = Len(draft[c].changes)
    <3>1. Len(draft[c].changes) \in Nat /\ moments \in [1..Len(draft[c].changes) -> Nat]
      <4>1. Len(draft[c].changes) \in Nat
        BY <2>1
      <4>2. moments \in [1..Len(draft[c].changes) -> Moments]
        BY <2>1, Zenon
      <4>3. \A D : moments \in [D -> Moments] => moments \in [D -> Nat]
        BY MomentsAssumption
      <4> QED
        BY <4>1, <4>2, <4>3, Zenon
    <3>2. moments \in Seq(Nat)
      BY <3>1, SeqDef, Zenon
    <3>3. Len(moments) \in Nat /\ 1..Len(moments) = 1..Len(draft[c].changes)
      BY <3>1, <3>2, LenProperties
    <3>4. Len(moments) = Len(draft[c].changes)
      <4> DEFINE m == Len(moments)
                 n == Len(draft[c].changes)
      <4>1. m \in Nat /\ n \in Nat /\ 1..m = 1..n
        BY <3>1, <3>3
      <4> HIDE DEF m, n
      <4>2. m = n
        BY <4>1
      <4> QED
        BY <4>2 DEF m, n
    <3> QED
      BY <3>2, <3>4
  <2>3. now \in Draft /\ now.changes = draft[c].changes /\ now.moments = moments
    BY <1>1, <2>2 DEF Draft
  <2>4. draft' = [draft EXCEPT ![c] = now]
    BY <1>3 DEF TypeInv, TypeOK
  <2>5. /\ step \in Steps \ {"idle"} /\ step \notin Acts /\ step # "land"
        /\ step \notin {"type_holds", "type_read"}
    BY DEF Steps, Acts
  <2>6. pc[c] # "idle" /\ Len(now.moments) = Len(now.changes)
    BY <1>1, <2>2, <2>3
  <2>7. GoesTo(c, step)
    BY <1>3
  <2> HIDE DEF now, step
  <2> QED
    BY <2>3, <2>4, <2>5, <2>6, <2>7, GoesToType
<1> QED
  BY <1>2, <1>3 DEF Checks

LEMMA MintsType == ASSUME TypeInv, NEW c \in Calls, Mints(c) PROVE TypeInv'
<1> DEFINE minted == Minted(draft[c].moments)
<1>1. /\ pc[c] = "mint" /\ stamps' = [stamps EXCEPT ![c] = minted]
      /\ pc' = [pc EXCEPT ![c] = "land"]
      /\ UNCHANGED <<artifacts, entries, sets, lock, asked, draft, outcome>>
  BY DEF Mints
<1>2. draft[c].moments \in Seq(Nat)
  BY DEF TypeInv, TypeOK, Draft
<1>3. /\ minted \in Seq(EntryId) /\ Len(minted) = Len(draft[c].moments)
      /\ \A m \in Nat : \E b \in Nat : \A i \in DOMAIN minted : minted[i][1] = m => minted[i][2] <= b
  BY <1>2, MintedType
<1> HIDE DEF minted
<1>4. TypeOK'
  BY <1>1, <1>3 DEF TypeInv, TypeOK, Steps
<1>5. /\ pc'[c] = "land" /\ stamps'[c] = minted
      /\ \A d \in Calls \ {c} : pc'[d] = pc[d] /\ stamps'[d] = stamps[d]
  BY <1>1 DEF TypeInv, TypeOK
<1>6. Placed'
  <2>1. Len(draft[c].moments) = Len(draft[c].changes) /\ asked[c] \in Sets
    BY <1>1 DEF TypeInv, Placed
  <2> QED
    BY <1>1, <1>3, <1>5, <2>1 DEF TypeInv, Placed, Acts, Acting
<1>7. IdsBounded'
  <2>1. \A m \in Nat : \E b \in Nat : \A e \in entries' : e.id[1] = m => e.id[2] <= b
    BY <1>1 DEF TypeInv, IdsBounded
  <2>2. ASSUME NEW d \in Calls, NEW m \in Nat
        PROVE  \E b \in Nat : \A i \in DOMAIN stamps'[d] : stamps'[d][i][1] = m => stamps'[d][i][2] <= b
    <3>1. CASE d = c
      BY <1>3, <1>5, <3>1
    <3>2. CASE d # c
      BY <1>5, <3>2 DEF TypeInv, IdsBounded
    <3> QED
      BY <3>1, <3>2
  <2> QED
    BY <2>1, <2>2 DEF IdsBounded
<1> QED
  BY <1>4, <1>6, <1>7 DEF TypeInv

(* What a set leaves is a table of artifacts.                              *)
LEMMA WrittenType == ASSUME TypeInv, NEW c \in Calls PROVE Written(c) \in [Iris -> Artifact]
<1>1. artifacts \in [Iris -> Artifact] /\ draft[c] \in Draft /\ sets + 1 \in Nat
  BY DEF TypeInv, TypeOK
<1>2. draft[c].left \in [Iris -> Artifact]
  BY <1>1 DEF Draft
<1>3. Nothing \in Artifact
  BY DEF Nothing, Artifact
<1>4. \A x \in Iris : [draft[c].left[x] EXCEPT !.landed = sets + 1] \in Artifact
  BY <1>1, <1>2 DEF Artifact
<1> QED
  BY <1>1, <1>3, <1>4 DEF Written

(* The entries a set adds are entries, bearing the ids minted for it.      *)
LEMMA NewEntriesType ==
  ASSUME TypeInv, NEW c \in Calls, pc[c] = "land"
  PROVE  /\ NewEntries(c) \subseteq Entry
         /\ \A e \in NewEntries(c) : \E i \in DOMAIN stamps[c] : e.id = stamps[c][i] /\ e.step = i
         /\ \A e, f \in NewEntries(c) : e.step = f.step => e = f
<1>1. /\ draft[c].changes \in Seq(Change) /\ stamps[c] \in Seq(EntryId)
      /\ Len(stamps[c]) = Len(draft[c].changes) /\ sets + 1 \in Nat /\ c \in Writers
  BY DEF TypeInv, TypeOK, Draft, Placed, Writers
<1>2. DOMAIN Changes(c) = DOMAIN stamps[c] /\ DOMAIN Changes(c) \subseteq Nat
  BY <1>1 DEF Changes
<1>3. \A i \in DOMAIN Changes(c) : Changes(c)[i] \in Change /\ stamps[c][i] \in EntryId
  BY <1>1, <1>2 DEF Changes
<1>4. ASSUME NEW e \in NewEntries(c)
      PROVE  e \in Entry /\ \E i \in DOMAIN stamps[c] : e.id = stamps[c][i] /\ e.step = i
  <2>1. PICK i \in DOMAIN Changes(c) :
          e = [id |-> stamps[c][i], set |-> sets + 1, step |-> i, op |-> Changes(c)[i].op,
               artifact |-> Changes(c)[i].id, revision |-> Changes(c)[i].revision, by |-> c]
    BY DEF NewEntries
  <2> QED
    BY <1>1, <1>2, <1>3, <2>1 DEF Entry, Change
<1>5. \A e, f \in NewEntries(c) : e.step = f.step => e = f
  BY DEF NewEntries
<1> QED
  BY <1>4, <1>5

LEMMA CommitsType ==
  ASSUME TypeInv, NEW c \in Calls, pc[c] = "land", Commits(c)
  PROVE  TypeInv'
<1>1. /\ artifacts' = Written(c) /\ entries' = entries \cup NewEntries(c) /\ sets' = sets + 1
      /\ pc' = [pc EXCEPT ![c] = "landed"] /\ lock' = Nobody
      /\ draft' = [draft EXCEPT ![c] = Blank] /\ stamps' = [stamps EXCEPT ![c] = <<>>]
      /\ UNCHANGED <<asked, outcome>>
  BY DEF Commits
<1>2. Written(c) \in [Iris -> Artifact] /\ NewEntries(c) \subseteq Entry
  BY WrittenType, NewEntriesType
<1>3. TypeOK'
  BY <1>1, <1>2, BlankType DEF TypeInv, TypeOK, Steps
<1>4. Placed'
  BY <1>1 DEF TypeInv, TypeOK, Placed, Acts, Acting
<1>5. ASSUME NEW m \in Nat
      PROVE  \E b \in Nat : \A e \in entries' : e.id[1] = m => e.id[2] <= b
  <2>1. PICK b \in Nat : \A e \in entries : e.id[1] = m => e.id[2] <= b
    BY DEF TypeInv, IdsBounded
  <2>2. PICK d \in Nat : \A i \in DOMAIN stamps[c] : stamps[c][i][1] = m => stamps[c][i][2] <= d
    BY DEF TypeInv, IdsBounded
  <2> DEFINE top == IF b <= d THEN d ELSE b
  <2>3. top \in Nat /\ b <= top /\ d <= top
    OBVIOUS
  <2>4. ASSUME NEW e \in entries', e.id[1] = m PROVE e.id[2] <= top
    <3>1. CASE e \in entries
      <4>1. e.id[2] <= b /\ e.id[2] \in Nat
        BY <2>1, <2>4, <3>1 DEF TypeInv, TypeOK, Entry, EntryId
      <4> QED
        BY <2>3, <4>1
    <3>2. CASE e \in NewEntries(c)
      <4>1. PICK i \in DOMAIN stamps[c] : e.id = stamps[c][i]
        BY <3>2, NewEntriesType
      <4>2. e.id[2] <= d /\ e.id[2] \in Nat
        BY <1>2, <2>2, <2>4, <3>2, <4>1 DEF Entry, EntryId
      <4> QED
        BY <2>3, <4>2
    <3> QED
      BY <1>1, <3>1, <3>2
  <2> HIDE DEF top
  <2> QED
    BY <2>3, <2>4
<1>6. ASSUME NEW d \in Calls, NEW m \in Nat
      PROVE  \E b \in Nat : \A i \in DOMAIN stamps'[d] : stamps'[d][i][1] = m => stamps'[d][i][2] <= b
  <2>1. CASE d = c
    <3>1. stamps'[d] = <<>>
      BY <1>1, <2>1 DEF TypeInv, TypeOK
    <3> WITNESS 0 \in Nat
    <3> QED
      BY <3>1
  <2>2. CASE d # c
    BY <1>1, <2>2 DEF TypeInv, TypeOK, IdsBounded
  <2> QED
    BY <2>1, <2>2
<1>7. IdsBounded'
  BY <1>5, <1>6 DEF IdsBounded
<1> QED
  BY <1>3, <1>4, <1>7 DEF TypeInv

LEMMA LandsType == ASSUME TypeInv, NEW c \in Calls, Lands(c) PROVE TypeInv'
<1>1. pc[c] = "land" /\ pc[c] # "idle" /\ draft[c] \in Draft
  BY DEF Lands, TypeInv, TypeOK
<1>2. CASE GoesTo(c, "relock") /\ UNCHANGED draft
  <2>1. draft' = [draft EXCEPT ![c] = draft[c]]
    BY <1>2 DEF TypeInv, TypeOK
  <2>2. /\ "relock" \in Steps \ {"idle"} /\ "relock" \notin Acts
        /\ "relock" \notin {"type_holds", "type_read"} /\ "relock" \notin {"mint", "land"}
        /\ "relock" # "land"
    BY DEF Steps, Acts
  <2> QED
    BY <1>1, <1>2, <2>1, <2>2, GoesToType
<1>3. CASE Escaped(c)
  BY <1>1, <1>3, EndsType DEF Escaped, Outcomes
<1>4. CASE Refused(c)
  BY <1>1, <1>4, EndsType DEF Refused, Outcomes
<1>5. CASE Commits(c)
  BY <1>1, <1>5, CommitsType
<1> QED
  BY <1>2, <1>3, <1>4, <1>5 DEF Lands

LEMMA RelocksType == ASSUME TypeInv, NEW c \in Calls, Relocks(c) PROVE TypeInv'
<1>1. /\ pc[c] = "relock" /\ lock' = c /\ draft' = [draft EXCEPT ![c] = Blank]
      /\ pc' = [pc EXCEPT ![c] = FirstStep(asked[c][1])]
      /\ UNCHANGED <<artifacts, entries, sets, asked, stamps, outcome>>
  BY DEF Relocks
<1>2. asked[c] \in Sets /\ asked[c] \in Seq(Operation) /\ Len(asked[c]) \in Nat \ {0}
  BY <1>1, SetsAssumption DEF TypeInv, Placed
<1>3. /\ FirstStep(asked[c][1]) \in Acts
      /\ FirstStep(asked[c][1]) \in {"type_holds", "type_read"} => asked[c][1].id \notin Types
  BY DEF FirstStep, Acts
<1>4. Blank.changes = <<>> /\ Len(Blank.changes) = 0
  BY DEF Blank
<1>5. TypeOK'
  BY <1>1, <1>3, BlankType DEF TypeInv, TypeOK, Acts, Steps, Drafting
<1>6. Placed'
  <2> SUFFICES ASSUME NEW d \in Calls
               PROVE  /\ IF pc'[d] = "idle" THEN draft'[d].changes = <<>> ELSE asked'[d] \in Sets
                      /\ pc'[d] \in Acts => Len(draft'[d].changes) < Len(asked'[d])
                      /\ pc'[d] \in {"type_holds", "type_read"} => Acting(d)'.id \notin Types
                      /\ pc'[d] \in {"mint", "land"} =>
                           Len(draft'[d].moments) = Len(draft'[d].changes)
                      /\ pc'[d] = "land" => Len(stamps'[d]) = Len(draft'[d].changes)
    BY DEF Placed
  <2>1. CASE d = c
    <3>1. pc'[d] = FirstStep(asked[c][1]) /\ draft'[d] = Blank /\ asked'[d] = asked[c]
      BY <1>1, <2>1 DEF TypeInv, TypeOK
    <3> QED
      BY <1>2, <1>3, <1>4, <3>1 DEF Acts, Acting
  <2>2. CASE d # c
    BY <1>1, <2>2 DEF TypeInv, TypeOK, Placed, Acting
  <2> QED
    BY <2>1, <2>2
<1>7. IdsBounded'
  BY <1>1 DEF TypeInv, IdsBounded
<1> QED
  BY <1>5, <1>6, <1>7 DEF TypeInv

(* No step of a call leaves what is typed.                                 *)
LEMMA TypeStep == TypeInv /\ [Next]_vars => TypeInv'
<1> SUFFICES ASSUME TypeInv, [Next]_vars PROVE TypeInv'
  OBVIOUS
<1>1. ASSUME NEW c \in Calls, Step(c) PROVE TypeInv'
  <2>1. CASE Answers(c)
    BY <2>1, EndsType DEF Answers, Outcomes
  <2> QED
    BY <1>1, <2>1, FindsHeldType, ComparesExpectedType, ReadsCurrentType, FindsTypeHeldType,
       ReadsTypeType, FindsFreeType, ChecksType, MintsType, LandsType, RelocksType DEF Step
<1>2. ASSUME NEW c \in Calls, GivesUp(c) PROVE TypeInv'
  BY <1>2, EndsType DEF GivesUp, Outcomes
<1>3. ASSUME NEW c \in Calls, Crashes(c) PROVE TypeInv'
  BY <1>3, EndsType DEF Crashes, Outcomes
<1>4. CASE UNCHANGED vars
  BY <1>4 DEF vars, TypeInv, TypeOK, Placed, IdsBounded, Acting
<1> QED
  BY <1>1, <1>2, <1>3, <1>4, AskType DEF Next, AllAnswered

(* Every state of the write path is typed: the entry ids and positions the *)
(* landing transaction relies on exist whatever the calls, sets and clocks *)
(* (write.land).                                                           *)
THEOREM TypeCorrect == Spec => []TypeOK
<1>1. TypeInv => TypeOK
  BY DEF TypeInv
<1> QED
  BY <1>1, InitType, TypeStep, PTL DEF Spec

-----------------------------------------------------------------------------
(* Ids held once.  TypeInv is enough of a strengthening: the landing       *)
(* transaction looks for each id it adds among all that are held.          *)

LEMMA CommitsIds ==
  ASSUME TypeInv, IdsHeldOnce, NEW c \in Calls, pc[c] = "land", ~IdHeld(c), Commits(c)
  PROVE  IdsHeldOnce'
<1>1. entries' = entries \cup NewEntries(c)
  BY DEF Commits
<1>2. /\ \A e \in NewEntries(c) : \E i \in DOMAIN stamps[c] : e.id = stamps[c][i] /\ e.step = i
      /\ \A e, f \in NewEntries(c) : e.step = f.step => e = f
  BY NewEntriesType
<1>3. \A e \in entries : \A f \in NewEntries(c) : e.id # f.id
  BY <1>2 DEF IdHeld
<1>4. \A e, f \in NewEntries(c) : e.id = f.id => e = f
  BY <1>2 DEF IdHeld
<1> QED
  BY <1>1, <1>3, <1>4 DEF IdsHeldOnce

(* Entries are added by a landing alone, and by one that found no conflict.*)
LEMMA EntriesStep ==
  ASSUME TypeInv, [Next]_vars, entries' # entries
  PROVE  \E c \in Calls : pc[c] = "land" /\ ~Conflicts(c) /\ Commits(c)
<1>1. ASSUME NEW c \in Calls, NEW answer, Ends(c, answer) PROVE FALSE
  BY <1>1 DEF Ends
<1>2. ASSUME NEW c \in Calls, NEW step, GoesTo(c, step) PROVE FALSE
  BY <1>2 DEF GoesTo
<1>3. ASSUME NEW c \in Calls, NEW kept, NEW read, NEW revision, NEW content, NEW seen,
             Acted(c, kept, read, revision, content, seen)
      PROVE  FALSE
  BY <1>2, <1>3 DEF Acted
<1>4. ASSUME NEW c \in Calls, NEW kept, NEW current, Revises(c, kept, current) PROVE FALSE
  BY <1>3, <1>4 DEF Revises
<1>5. PICK c \in Calls : Ask(c) \/ Step(c) \/ GivesUp(c) \/ Crashes(c)
  BY DEF Next, AllAnswered, vars
<1>6. Lands(c)
  <2>1. ~(Ask(c) \/ Mints(c) \/ Relocks(c))
    BY DEF Ask, Mints, Relocks
  <2>2. ~(GivesUp(c) \/ Crashes(c) \/ Answers(c))
    BY <1>1 DEF GivesUp, Crashes, Answers
  <2>3. ~(FindsHeld(c) \/ FindsTypeHeld(c) \/ ComparesExpected(c))
    BY <1>1, <1>2 DEF FindsHeld, FindsTypeHeld, ComparesExpected, Refused, Escaped
  <2>4. ~(ReadsCurrent(c) \/ ReadsType(c))
    BY <1>1, <1>2, <1>4 DEF ReadsCurrent, ReadsType, Escaped
  <2>5. ~(FindsFree(c) \/ Checks(c))
    BY <1>1, <1>2, <1>3 DEF FindsFree, Checks, Refused
  <2> QED
    BY <1>5, <2>1, <2>2, <2>3, <2>4, <2>5 DEF Step
<1> QED
  BY <1>1, <1>2, <1>6 DEF Lands, Refused, Escaped

(* No two entries of the history carry one id, for any clock: however ids  *)
(* collide when they are minted, the landing transaction holds each once   *)
(* (journal.minted, sqlite_checks._unheld).                                *)
THEOREM IdsUnique == Spec => []IdsHeldOnce
<1>1. Init => IdsHeldOnce
  BY DEF Init, IdsHeldOnce
<1>2. TypeInv /\ IdsHeldOnce /\ [Next]_vars => IdsHeldOnce'
  <2> SUFFICES ASSUME TypeInv, IdsHeldOnce, [Next]_vars PROVE IdsHeldOnce'
    OBVIOUS
  <2>1. CASE entries' = entries
    BY <2>1 DEF IdsHeldOnce
  <2>2. CASE entries' # entries
    BY <2>2, EntriesStep, CommitsIds DEF Conflicts
  <2> QED
    BY <2>1, <2>2
<1> QED
  BY <1>1, <1>2, InitType, TypeStep, PTL DEF Spec


-----------------------------------------------------------------------------
(* The store moves by a landing alone, and by one the checks let through.  *)
LEMMA StoreStep ==
  ASSUME TypeInv, [Next]_vars, store' # store
  PROVE  \E c \in Calls : pc[c] = "land" /\ lock \in {Nobody, c} /\ ~Conflicts(c)
                          /\ ~Unsound(c) /\ Commits(c)
<1>1. ASSUME NEW c \in Calls, NEW answer, Ends(c, answer) PROVE FALSE
  BY <1>1 DEF Ends, store
<1>2. ASSUME NEW c \in Calls, NEW step, GoesTo(c, step) PROVE FALSE
  BY <1>2 DEF GoesTo, store
<1>3. ASSUME NEW c \in Calls, NEW kept, NEW read, NEW revision, NEW content, NEW seen,
             Acted(c, kept, read, revision, content, seen)
      PROVE  FALSE
  BY <1>2, <1>3 DEF Acted
<1>4. ASSUME NEW c \in Calls, NEW kept, NEW current, Revises(c, kept, current) PROVE FALSE
  BY <1>3, <1>4 DEF Revises
<1>5. PICK c \in Calls : Ask(c) \/ Step(c) \/ GivesUp(c) \/ Crashes(c)
  BY DEF Next, AllAnswered, vars, store
<1>6. Lands(c)
  <2>1. ~(Ask(c) \/ Mints(c) \/ Relocks(c))
    BY DEF Ask, Mints, Relocks, store
  <2>2. ~(GivesUp(c) \/ Crashes(c) \/ Answers(c))
    BY <1>1 DEF GivesUp, Crashes, Answers
  <2>3. ~(FindsHeld(c) \/ FindsTypeHeld(c) \/ ComparesExpected(c))
    BY <1>1, <1>2 DEF FindsHeld, FindsTypeHeld, ComparesExpected, Refused, Escaped
  <2>4. ~(ReadsCurrent(c) \/ ReadsType(c))
    BY <1>1, <1>2, <1>4 DEF ReadsCurrent, ReadsType, Escaped
  <2>5. ~(FindsFree(c) \/ Checks(c))
    BY <1>1, <1>2, <1>3 DEF FindsFree, Checks, Refused
  <2> QED
    BY <1>5, <2>1, <2>2, <2>3, <2>4, <2>5 DEF Step
<1> QED
  BY <1>1, <1>2, <1>6 DEF Lands, Refused, Escaped

-----------------------------------------------------------------------------
(* Types held.  The draft of a landing is judged by the landing itself, so *)
(* no more is needed of it than its shape.                                 *)

LEMMA LandingTypes ==
  ASSUME TypeInv, TypesHeld, NEW c \in Calls, ~Unsound(c), Commits(c)
  PROVE  TypesHeld'
<1>1. artifacts' = Written(c)
  BY DEF Commits
<1> SUFFICES ASSUME NEW x \in Iris \ Types, Written(c)[x] # Nothing
             PROVE  Written(c)[TypeOf[x]] # Nothing
  BY <1>1 DEF TypesHeld
<1>2. x \notin draft[c].removed
  BY DEF Written
<1>3. CASE x \in draft[c].put
  BY <1>2, <1>3 DEF Left, Unsound
<1>4. CASE x \notin draft[c].put
  <2>1. artifacts[x] # Nothing
    BY <1>2, <1>4 DEF Written
  <2>2. artifacts[TypeOf[x]] # Nothing
    BY <2>1 DEF TypesHeld
  <2> QED
    BY <1>2, <1>4, <2>2 DEF Unsound
<1> QED
  BY <1>3, <1>4

(* No artifact is ever held whose type is not, for any sets and callers: a *)
(* type removed while creates through it are on their way, or defined and  *)
(* removed again, leaves none behind (write.land, sqlite_checks._integral).*)
THEOREM TypesKept == Spec => []TypesHeld
<1>1. Init => TypesHeld
  <2> SUFFICES ASSUME Init, NEW x \in Iris \ Types, artifacts[x] # Nothing
               PROVE  artifacts[TypeOf[x]] # Nothing
    BY DEF TypesHeld
  <2>1. PICK i \in DOMAIN Before : Before[i] = x
    BY DEF Init
  <2>2. DOMAIN Before = 1..Len(Before) /\ Len(Before) \in Nat
    BY BeforeAssumption
  <2>3. PICK j \in 1..(i - 1) : Before[j] = TypeOf[x]
    BY <2>1, BeforeAssumption
  <2>4. j \in DOMAIN Before /\ TypeOf[x] \in Iris
    BY <2>2, <2>3, TypesAssumption
  <2>5. artifacts[TypeOf[x]].revision = 1 /\ Nothing.revision = 0
    BY <2>3, <2>4 DEF Init, Nothing
  <2> QED
    BY <2>5
<1>2. TypeInv /\ TypesHeld /\ [Next]_vars => TypesHeld'
  <2> SUFFICES ASSUME TypeInv, TypesHeld, [Next]_vars PROVE TypesHeld'
    OBVIOUS
  <2>1. CASE store' = store
    BY <2>1 DEF TypesHeld, store
  <2>2. CASE store' # store
    BY <2>2, StoreStep, LandingTypes
  <2> QED
    BY <2>1, <2>2
<1> QED
  BY <1>1, <1>2, InitType, TypeStep, PTL DEF Spec

-----------------------------------------------------------------------------
(* What a draft is, beyond its shape: the changes of the operations asked, *)
(* each one revision on from what it read; what it puts and removes is     *)
(* what the last change to each IRI left; and nothing it read stands at    *)
(* revision 0.                                                             *)

Follows(drafted, operations) ==
  /\ Len(drafted.changes) <= Len(operations)
  /\ \A i \in DOMAIN drafted.changes :
       /\ drafted.changes[i].op = operations[i].op
       /\ drafted.changes[i].id = operations[i].id
       /\ drafted.changes[i].expected = operations[i].expected

Raises(change) == change.revision = change.read + 1 /\ (change.op = "create" <=> change.read = 0)

(* The j-th change of a draft is the last it makes to its IRI.             *)
LastTo(drafted, j) ==
  \A k \in DOMAIN drafted.changes : drafted.changes[k].id = drafted.changes[j].id => k <= j

Tells(drafted) ==
  /\ \A j \in DOMAIN drafted.changes : LastTo(drafted, j) =>
       LET x == drafted.changes[j].id IN
       IF drafted.changes[j].op = "delete" THEN x \in drafted.removed
       ELSE /\ x \in drafted.put \ drafted.removed
            /\ drafted.left[x].revision = drafted.changes[j].revision
  /\ \A x \in drafted.put \cup drafted.removed : \E j \in DOMAIN drafted.changes : drafted.changes[j].id = x

Stands(artifact) == artifact = Nothing \/ artifact.revision # 0

Sees(drafted) ==
  /\ \A x \in Iris : Stands(drafted.types[x])
  /\ \A x \in drafted.put : drafted.left[x].revision # 0

Faithful(c) ==
  /\ pc[c] = "idle" => draft[c] = Blank
  /\ Follows(draft[c], asked[c])
  /\ \A i \in DOMAIN Changes(c) : Raises(Changes(c)[i])
  /\ Tells(draft[c]) /\ Sees(draft[c])
  /\ pc[c] \in {"check", "mint", "land"} => Len(Changes(c)) = Len(asked[c])
  /\ pc[c] \in {"holds", "expected", "current"} => Acting(c).op # "create"
  /\ pc[c] = "free" => Acting(c).op = "create"
  /\ pc[c] \in {"type_holds", "type_read"} /\ Acting(c).op # "create" => draft[c].current.revision # 0

DraftInv == /\ \A c \in Calls : Faithful(c)
            /\ \A x \in Iris : Stands(artifacts[x])

LEMMA FaithfulSame ==
  ASSUME NEW d \in Calls, Faithful(d), draft'[d] = draft[d], asked'[d] = asked[d], pc'[d] = pc[d]
  PROVE  Faithful(d)'
  BY DEF Faithful, Changes, Acting

(* A draft of nothing is faithful to whatever is asked next.               *)
LEMMA FaithfulBlank ==
  ASSUME NEW d \in Calls, draft'[d] = Blank, asked'[d] \in Seq(Operation),
         \/ pc'[d] \in {"landed", "done"}
         \/ Len(asked'[d]) # 0 /\ pc'[d] = FirstStep(asked'[d][1])
  PROVE  Faithful(d)'
<1>1. /\ Blank.changes = <<>> /\ Len(Blank.changes) = 0 /\ DOMAIN Blank.changes = {}
      /\ Blank.put = {} /\ Blank.removed = {} /\ \A x \in Iris : Blank.types[x] = Nothing
  BY DEF Blank
<1>2. Follows(Blank, asked'[d]) /\ Tells(Blank) /\ Sees(Blank)
  BY <1>1 DEF Follows, Tells, Sees, Stands
<1>3. Acting(d)' = asked'[d][1] /\ Changes(d)' = <<>>
  BY <1>1 DEF Acting, Changes
<1> QED
  BY <1>1, <1>2, <1>3 DEF Faithful, FirstStep

(* What stands where nothing is absent or at revision 0 is read so, and    *)
(* kept so.                                                                *)
LEMMA ReadStands ==
  ASSUME TypeInv, DraftInv, NEW c \in Calls, NEW x \in Iris
  PROVE  /\ Read(c, x) # Nothing => Read(c, x).revision # 0
         /\ \A y \in Iris : Stands(Kept(c, x)[y])
<1>1. /\ Sees(draft[c]) /\ Stands(artifacts[x])
      /\ draft[c].types \in [Iris -> Artifact]
  BY DEF DraftInv, Faithful, TypeInv, TypeOK, Draft
<1>2. Read(c, x) # Nothing => Read(c, x).revision # 0
  BY <1>1 DEF Read, Sees, Stands
<1>3. \A y \in Iris : Stands(Kept(c, x)[y])
  BY <1>1, <1>2 DEF Kept, Sees, Stands
<1> QED
  BY <1>2, <1>3

(* A step of one call leaves the others as they were.                      *)
Alone(c) == /\ \A d \in Calls \ {c} : draft'[d] = draft[d] /\ pc'[d] = pc[d] /\ asked'[d] = asked[d]
            /\ asked'[c] = asked[c] /\ artifacts' = artifacts

LEMMA GoesAlone ==
  ASSUME TypeInv, NEW c \in Calls, NEW step, GoesTo(c, step), NEW now, draft' = [draft EXCEPT ![c] = now]
  PROVE  Alone(c) /\ pc'[c] = step /\ draft'[c] = now
  BY DEF GoesTo, Alone, TypeInv, TypeOK

(* A call that goes on with the changes it has drafted.                    *)
LEMMA FaithfulReads ==
  ASSUME TypeInv, DraftInv, NEW c \in Calls, Alone(c), pc'[c] # "idle",
         draft'[c].put = draft[c].put, draft'[c].removed = draft[c].removed,
         draft'[c].left = draft[c].left, draft'[c].changes = draft[c].changes,
         \A x \in Iris : Stands(draft'[c].types[x]),
         pc'[c] \in {"check", "mint", "land"} => Len(Changes(c)) = Len(asked[c]),
         pc'[c] \in {"holds", "expected", "current"} => Acting(c).op # "create",
         pc'[c] = "free" => Acting(c).op = "create",
         pc'[c] \in {"type_holds", "type_read"} /\ Acting(c).op # "create"
           => draft'[c].current.revision # 0
  PROVE  DraftInv'
<1>1. asked'[c] = asked[c] /\ artifacts' = artifacts /\ Faithful(c)
  BY DEF Alone, DraftInv
<1>2. Acting(c)' = Acting(c) /\ Changes(c)' = Changes(c)
  BY <1>1 DEF Acting, Changes
<1>3. Follows(draft'[c], asked[c]) /\ Tells(draft'[c]) /\ Sees(draft'[c])
  BY <1>1 DEF Faithful, Follows, Tells, LastTo, Sees
<1>4. Faithful(c)'
  BY <1>1, <1>2, <1>3 DEF Faithful
<1>5. \A d \in Calls \ {c} : Faithful(d)'
  BY FaithfulSame DEF DraftInv, Alone
<1> QED
  BY <1>1, <1>4, <1>5 DEF DraftInv

LEMMA FaithfulEnds ==
  ASSUME TypeInv, DraftInv, NEW c \in Calls, NEW answer, Ends(c, answer)
  PROVE  DraftInv'
<1>1. /\ pc' = [pc EXCEPT ![c] = "done"] /\ draft' = [draft EXCEPT ![c] = Blank]
      /\ asked' = asked /\ artifacts' = artifacts
  BY DEF Ends
<1>2. Faithful(c)'
  BY <1>1, FaithfulBlank DEF TypeInv, TypeOK
<1>3. \A d \in Calls \ {c} : Faithful(d)'
  BY <1>1, FaithfulSame DEF DraftInv, TypeInv, TypeOK
<1> QED
  BY <1>1, <1>2, <1>3 DEF DraftInv

(* A change of an operation, raising what it read, keeps a draft telling   *)
(* of its changes.                                                         *)
LEMMA DraftedTells ==
  ASSUME TypeOK, NEW c \in Calls, NEW kept, NEW change \in Change,
         Tells(draft[c]), Sees(draft[c]), \A x \in Iris : Stands(kept[x]), Raises(change)
  PROVE  Tells(Drafted(c, kept, change)) /\ Sees(Drafted(c, kept, change))
<1> DEFINE old == draft[c]
           made == Drafted(c, kept, change)
           n == Len(draft[c].changes)
           left == [revision |-> change.revision, landed |-> 0, content |-> change.content]
<1>1. /\ old.changes \in Seq(Change) /\ n \in Nat /\ DOMAIN old.changes = 1..n
      /\ old.left \in [Iris -> Artifact] /\ change.id \in Iris /\ change.read \in Nat
      /\ \A i \in 1..n : old.changes[i] \in Change /\ old.changes[i].id \in Iris
      /\ old.put \subseteq Iris /\ old.removed \subseteq Iris
  <2>1. old \in Draft /\ change.id \in Iris /\ change.read \in Nat
    BY DEF TypeOK, Change
  <2>2. /\ old.changes \in Seq(Change) /\ old.left \in [Iris -> Artifact]
        /\ old.put \subseteq Iris /\ old.removed \subseteq Iris
    BY <2>1 DEF Draft
  <2>3. n \in Nat /\ DOMAIN old.changes = 1..n /\ \A i \in 1..n : old.changes[i] \in Change
    BY <2>2
  <2> QED
    BY <2>1, <2>2, <2>3 DEF Change
<1>2. /\ DOMAIN made.changes = 1..(n + 1) /\ made.changes[n + 1] = change
      /\ \A i \in 1..n : made.changes[i] = old.changes[i]
  BY <1>1 DEF Drafted
<1>3. /\ made.put = (IF change.op = "delete" THEN old.put ELSE old.put \cup {change.id})
      /\ made.removed = (IF change.op = "delete" THEN old.removed \cup {change.id}
                         ELSE old.removed \ {change.id})
      /\ made.left = (IF change.op = "delete" THEN old.left ELSE [old.left EXCEPT ![change.id] = left])
      /\ made.types = kept
  BY DEF Drafted
<1>4. \A x \in Iris : x # change.id => made.left[x] = old.left[x]
  BY <1>1, <1>3
<1>5. change.op # "delete" => made.left[change.id].revision = change.revision
  BY <1>1, <1>3
<1>6. Sees(made)
  <2>1. change.revision # 0
    BY <1>1 DEF Raises
  <2> QED
    BY <1>1, <1>3, <1>4, <1>5, <2>1 DEF Sees
<1> HIDE DEF made, left
<1>7. ASSUME NEW j \in DOMAIN made.changes, LastTo(made, j)
      PROVE  LET x == made.changes[j].id IN
             IF made.changes[j].op = "delete" THEN x \in made.removed
             ELSE x \in made.put \ made.removed /\ made.left[x].revision = made.changes[j].revision
  <2>1. CASE j = n + 1
    BY <1>2, <1>3, <1>5, <2>1
  <2>2. CASE j # n + 1
    <3>1. j \in 1..n /\ made.changes[j] = old.changes[j] /\ old.changes[j].id \in Iris
      BY <1>1, <1>2, <2>2
    <3>2. old.changes[j].id # change.id
      BY <1>1, <1>2, <1>7, <3>1 DEF LastTo
    <3>3. LastTo(old, j)
      BY <1>1, <1>2, <1>7, <3>1 DEF LastTo
    <3> QED
      BY <1>1, <1>3, <1>4, <3>1, <3>2, <3>3 DEF Tells
  <2> QED
    BY <2>1, <2>2
<1>8. ASSUME NEW x \in made.put \cup made.removed
      PROVE  \E j \in DOMAIN made.changes : made.changes[j].id = x
  <2>1. CASE x = change.id
    BY <1>1, <1>2, <2>1
  <2>2. CASE x # change.id
    <3>1. x \in old.put \cup old.removed
      BY <1>3, <2>2
    <3>2. PICK j \in DOMAIN old.changes : old.changes[j].id = x
      BY <3>1 DEF Tells
    <3> QED
      BY <1>1, <1>2, <3>2
  <2> QED
    BY <2>1, <2>2
<1>9. Tells(made)
  BY <1>7, <1>8 DEF Tells
<1> QED
  BY <1>6, <1>9 DEF made

LEMMA FaithfulActed ==
  ASSUME TypeInv, DraftInv, NEW c \in Calls, pc[c] \in Acts,
         NEW kept \in [Iris -> Artifact], \A x \in Iris : Stands(kept[x]),
         NEW read \in Nat, NEW revision, revision = read + 1,
         Acting(c).op = "create" <=> read = 0,
         NEW content \in SUBSET Writers, NEW seen \in Nat,
         Acted(c, kept, read, revision, content, seen)
  PROVE  DraftInv'
<1> DEFINE change == [op |-> Acting(c).op, id |-> Acting(c).id, expected |-> Acting(c).expected,
                      read |-> read, revision |-> revision, content |-> content, seen |-> seen]
           made == Drafted(c, kept, change)
           n == Len(draft[c].changes)
           step == IF n + 2 > Len(asked[c]) THEN "check" ELSE FirstStep(asked[c][n + 2])
<1>1. /\ Acting(c) \in Operation /\ n + 1 \in 1..Len(asked[c]) /\ n \in Nat
      /\ Acting(c) = asked[c][n + 1]
  BY ActingType DEF Acting
<1>2. /\ draft' = [draft EXCEPT ![c] = made] /\ pc' = [pc EXCEPT ![c] = step]
      /\ asked' = asked /\ artifacts' = artifacts
  BY DEF Acted, GoesTo
<1>3. change \in Change /\ Raises(change)
  BY <1>1 DEF Change, Operation, Raises
<1>4. /\ asked[c] \in Seq(Operation) /\ Len(asked[c]) \in Nat /\ draft[c].changes \in Seq(Change)
      /\ DOMAIN draft[c].changes = 1..n
  BY DEF TypeInv, TypeOK, Draft
<1>5. Faithful(c)
  BY DEF DraftInv
<1>6. Tells(made) /\ Sees(made)
  BY <1>3, <1>5, DraftedTells DEF Faithful, TypeInv
<1>7. /\ made.changes = Append(draft[c].changes, change) /\ Len(made.changes) = n + 1
      /\ DOMAIN made.changes = 1..(n + 1) /\ made.changes[n + 1] = change
      /\ \A i \in 1..n : made.changes[i] = draft[c].changes[i]
  BY <1>3, <1>4 DEF Drafted
<1>8. /\ change.op = asked[c][n + 1].op /\ change.id = asked[c][n + 1].id
      /\ change.expected = asked[c][n + 1].expected
  BY <1>1
<1> HIDE DEF made, change
<1>9. Follows(made, asked[c]) /\ \A i \in DOMAIN made.changes : Raises(made.changes[i])
  <2>1. Follows(draft[c], asked[c]) /\ \A i \in 1..n : Raises(draft[c].changes[i])
    BY <1>4, <1>5 DEF Faithful, Changes
  <2>2. Len(made.changes) <= Len(asked[c])
    BY <1>1, <1>4, <1>7
  <2>3. ASSUME NEW i \in 1..(n + 1)
        PROVE  /\ made.changes[i].op = asked[c][i].op /\ made.changes[i].id = asked[c][i].id
               /\ made.changes[i].expected = asked[c][i].expected /\ Raises(made.changes[i])
    <3>1. CASE i = n + 1
      BY <1>3, <1>7, <1>8, <3>1
    <3>2. CASE i \in 1..n
      BY <1>4, <1>7, <2>1, <3>2 DEF Follows
    <3>3. i \in 1..n \/ i = n + 1
      BY <1>1
    <3> QED
      BY <3>1, <3>2, <3>3
  <2> QED
    BY <1>7, <2>2, <2>3 DEF Follows
<1>10. /\ draft'[c] = made /\ pc'[c] = step /\ asked'[c] = asked[c] /\ Changes(c)' = made.changes
       /\ Acting(c)' = asked[c][n + 2]
  <2>1. draft'[c] = made /\ pc'[c] = step /\ asked'[c] = asked[c]
    BY <1>2 DEF TypeInv, TypeOK
  <2>2. n + 1 + 1 = n + 2
    BY <1>1
  <2> QED
    BY <1>7, <2>1, <2>2 DEF Changes, Acting
<1>11. /\ step # "idle" /\ step \notin {"mint", "land", "expected", "current", "type_read"}
       /\ step = "check" => n + 1 = Len(asked[c])
       /\ step = "holds" => asked[c][n + 2].op # "create"
       /\ step \in {"free", "type_holds"} => asked[c][n + 2].op = "create"
  BY <1>1, <1>4 DEF FirstStep
<1> HIDE DEF step
<1>12. Faithful(c)'
  BY <1>6, <1>7, <1>9, <1>10, <1>11 DEF Faithful
<1>13. \A d \in Calls \ {c} : Faithful(d)'
  BY <1>2, FaithfulSame DEF DraftInv, TypeInv, TypeOK
<1> QED
  BY <1>2, <1>12, <1>13 DEF DraftInv

LEMMA FaithfulRevises ==
  ASSUME TypeInv, DraftInv, NEW c \in Calls, pc[c] \in Acts,
         NEW kept \in [Iris -> Artifact], \A x \in Iris : Stands(kept[x]),
         NEW current \in Artifact, current.revision # 0, Acting(c).op # "create",
         Revises(c, kept, current)
  PROVE  DraftInv'
<1> DEFINE written == IF Acting(c).op = "append" THEN current.content \cup {c}
                      ELSE IF Acting(c).op = "write" THEN {c} ELSE {}
<1>1. current.revision \in Nat /\ current.landed \in Nat /\ written \in SUBSET Writers
  BY DEF Artifact, Writers
<1>2. Acted(c, kept, current.revision, current.revision + 1, written, current.landed)
  BY DEF Revises
<1> HIDE DEF written
<1> QED
  BY <1>1, <1>2, FaithfulActed

LEMMA FaithfulReading ==
  ASSUME TypeInv, DraftInv, NEW c \in Calls,
         FindsHeld(c) \/ ComparesExpected(c) \/ ReadsCurrent(c)
  PROVE  DraftInv'
<1> DEFINE x == Acting(c).id
<1>1. pc[c] \in Acts /\ pc[c] \in {"holds", "expected", "current"}
  BY DEF FindsHeld, ComparesExpected, ReadsCurrent, Acts
<1>2. /\ draft[c] \in Draft /\ Faithful(c) /\ Acting(c).op # "create" /\ x \in Iris
  BY <1>1, ActingType DEF TypeInv, TypeOK, DraftInv, Faithful, Operation
<1>3. /\ Read(c, x) \in Artifact /\ Kept(c, x) \in [Iris -> Artifact]
      /\ Read(c, x) # Nothing => Read(c, x).revision # 0
      /\ \A y \in Iris : Stands(Kept(c, x)[y]) /\ Stands(draft[c].types[y])
  BY <1>2, ReadType, ReadStands DEF TypeInv, Faithful, Sees
<1>4. CASE Refused(c) \/ Escaped(c)
  BY <1>4, FaithfulEnds DEF Refused, Escaped
<1>5. CASE GoesTo(c, "expected") /\ UNCHANGED draft
  <2>1. draft' = [draft EXCEPT ![c] = draft[c]]
    BY <1>5 DEF TypeInv, TypeOK
  <2>2. Alone(c) /\ pc'[c] = "expected" /\ draft'[c] = draft[c]
    BY <1>5, <2>1, GoesAlone
  <2> QED
    BY <1>2, <1>3, <2>2, FaithfulReads
<1>6. CASE draft' = [draft EXCEPT ![c].types = Kept(c, x)] /\ GoesTo(c, "current")
  <2> DEFINE now == [draft[c] EXCEPT !.types = Kept(c, x)]
  <2>1. draft' = [draft EXCEPT ![c] = now]
    BY <1>6 DEF TypeInv, TypeOK
  <2>2. /\ now.put = draft[c].put /\ now.removed = draft[c].removed /\ now.left = draft[c].left
        /\ now.changes = draft[c].changes /\ now.types = Kept(c, x)
    BY <1>2 DEF Draft
  <2> HIDE DEF now
  <2>3. Alone(c) /\ pc'[c] = "current" /\ draft'[c] = now
    BY <1>6, <2>1, GoesAlone
  <2> QED
    BY <1>2, <1>3, <2>2, <2>3, FaithfulReads
<1>7. CASE Found(c, x) /\ Revises(c, Kept(c, x), Read(c, x))
  <2>1. Read(c, x).revision # 0
    BY <1>3, <1>7 DEF Found
  <2> QED
    BY <1>1, <1>2, <1>3, <1>7, <2>1, FaithfulRevises
<1>8. CASE /\ Found(c, x) /\ draft' = [draft EXCEPT ![c].current = Read(c, x)]
           /\ GoesTo(c, "type_holds")
  <2> DEFINE now == [draft[c] EXCEPT !.current = Read(c, x)]
  <2>1. draft' = [draft EXCEPT ![c] = now]
    BY <1>8 DEF TypeInv, TypeOK
  <2>2. /\ now.put = draft[c].put /\ now.removed = draft[c].removed /\ now.left = draft[c].left
        /\ now.changes = draft[c].changes /\ now.types = draft[c].types
        /\ now.current = Read(c, x)
    BY <1>2 DEF Draft
  <2>3. Read(c, x).revision # 0
    BY <1>3, <1>8 DEF Found
  <2> HIDE DEF now
  <2>4. Alone(c) /\ pc'[c] = "type_holds" /\ draft'[c] = now
    BY <1>8, <2>1, GoesAlone
  <2> QED
    BY <1>2, <1>3, <2>2, <2>3, <2>4, FaithfulReads
<1> QED
  BY <1>4, <1>5, <1>6, <1>7, <1>8 DEF FindsHeld, ComparesExpected, ReadsCurrent

LEMMA FaithfulTyping ==
  ASSUME TypeInv, DraftInv, NEW c \in Calls,
         FindsTypeHeld(c) \/ ReadsType(c) \/ FindsFree(c)
  PROVE  DraftInv'
<1> DEFINE type == TypeOf[Acting(c).id]
<1>1. pc[c] \in Acts /\ pc[c] \in {"type_holds", "type_read", "free"}
  BY DEF FindsTypeHeld, ReadsType, FindsFree, Acts
<1>2. /\ draft[c] \in Draft /\ Faithful(c) /\ draft[c].current \in Artifact
      /\ draft[c].types \in [Iris -> Artifact]
      /\ \A y \in Iris : Stands(draft[c].types[y])
  BY DEF TypeInv, TypeOK, DraftInv, Faithful, Sees, Draft
<1>3. CASE Refused(c) \/ Escaped(c)
  BY <1>3, FaithfulEnds DEF Refused, Escaped
<1>4. CASE pc[c] = "type_holds" /\ GoesTo(c, "type_read") /\ UNCHANGED draft
  <2>1. draft' = [draft EXCEPT ![c] = draft[c]]
    BY <1>4 DEF TypeInv, TypeOK
  <2>2. Acting(c).op # "create" => draft[c].current.revision # 0
    BY <1>2, <1>4 DEF Faithful
  <2>3. Alone(c) /\ pc'[c] = "type_read" /\ draft'[c] = draft[c]
    BY <1>4, <2>1, GoesAlone
  <2> QED
    BY <1>2, <2>2, <2>3, FaithfulReads
<1>5. CASE ReadsType(c)
  <2>1. pc[c] = "type_read"
    BY <1>5 DEF ReadsType
  <2>2. type \in Iris
    BY <1>1, <2>1, ActingType, TypesAssumption DEF Operation, TypeInv, Placed
  <2>3. Kept(c, type) \in [Iris -> Artifact] /\ \A y \in Iris : Stands(Kept(c, type)[y])
    BY <2>2, ReadType, ReadStands DEF TypeInv
  <2>4. CASE Acting(c).op = "create" /\ draft' = [draft EXCEPT ![c].types = Kept(c, type)]
             /\ GoesTo(c, "free")
    <3> DEFINE now == [draft[c] EXCEPT !.types = Kept(c, type)]
    <3>1. draft' = [draft EXCEPT ![c] = now]
      BY <2>4 DEF TypeInv, TypeOK
    <3>2. /\ now.put = draft[c].put /\ now.removed = draft[c].removed /\ now.left = draft[c].left
          /\ now.changes = draft[c].changes /\ now.types = Kept(c, type)
      BY <1>2 DEF Draft
    <3> HIDE DEF now
    <3>3. Alone(c) /\ pc'[c] = "free" /\ draft'[c] = now
      BY <2>4, <3>1, GoesAlone
    <3> QED
      BY <2>3, <2>4, <3>2, <3>3, FaithfulReads
  <2>5. CASE Acting(c).op # "create" /\ Revises(c, Kept(c, type), draft[c].current)
    BY <1>1, <1>2, <2>1, <2>3, <2>5, FaithfulRevises DEF Faithful
  <2> QED
    BY <1>3, <1>5, <2>4, <2>5 DEF ReadsType
<1>6. CASE pc[c] = "free" /\ Acted(c, draft[c].types, 0, 1, {c}, 0)
  <2>1. Acting(c).op = "create" /\ {c} \in SUBSET Writers
    BY <1>2, <1>6 DEF Faithful, Writers
  <2> QED
    BY <1>1, <1>2, <1>6, <2>1, FaithfulActed
<1> QED
  BY <1>3, <1>4, <1>5, <1>6 DEF FindsTypeHeld, FindsFree

LEMMA FaithfulChecks == ASSUME TypeInv, DraftInv, NEW c \in Calls, Checks(c) PROVE DraftInv'
<1>1. pc[c] = "check" /\ draft[c] \in Draft /\ Faithful(c) /\ Len(Changes(c)) = Len(asked[c])
  BY DEF Checks, TypeInv, TypeOK, DraftInv, Faithful
<1>2. CASE Refused(c)
  BY <1>2, FaithfulEnds DEF Refused
<1>3. ASSUME NEW moments, draft' = [draft EXCEPT ![c].moments = moments],
             NEW step \in {"relock", "mint"}, GoesTo(c, step)
      PROVE  DraftInv'
  <2> DEFINE now == [draft[c] EXCEPT !.moments = moments]
  <2>1. draft' = [draft EXCEPT ![c] = now]
    BY <1>3 DEF TypeInv, TypeOK
  <2>2. /\ now.put = draft[c].put /\ now.removed = draft[c].removed /\ now.left = draft[c].left
        /\ now.changes = draft[c].changes /\ now.types = draft[c].types
    BY <1>1 DEF Draft
  <2> HIDE DEF now
  <2>3. Alone(c) /\ pc'[c] = step /\ draft'[c] = now
    BY <1>3, <2>1, GoesAlone
  <2>4. \A x \in Iris : Stands(draft[c].types[x])
    BY <1>1 DEF Faithful, Sees
  <2> QED
    BY <1>1, <2>2, <2>3, <2>4, FaithfulReads
<1> QED
  BY <1>2, <1>3 DEF Checks

LEMMA FaithfulLands ==
  ASSUME TypeInv, DraftInv, NEW c \in Calls, Mints(c) \/ Lands(c)
  PROVE  DraftInv'
<1>1. Faithful(c) /\ pc[c] \in {"mint", "land"}
  BY DEF Mints, Lands, DraftInv
<1>2. CASE Refused(c) \/ Escaped(c)
  BY <1>2, FaithfulEnds DEF Refused, Escaped
<1>3. CASE draft' = draft /\ artifacts' = artifacts /\ asked' = asked
           /\ \E step \in {"land", "relock"} : pc' = [pc EXCEPT ![c] = step]
  <2>1. Alone(c) /\ pc'[c] \in {"land", "relock"} /\ draft'[c] = draft[c]
    BY <1>3 DEF Alone, TypeInv, TypeOK
  <2> QED
    BY <1>1, <2>1, FaithfulReads DEF Faithful, Sees
<1>4. CASE Commits(c)
  <2>1. /\ artifacts' = Written(c) /\ pc' = [pc EXCEPT ![c] = "landed"]
        /\ draft' = [draft EXCEPT ![c] = Blank] /\ asked' = asked
    BY <1>4 DEF Commits
  <2>2. Faithful(c)'
    BY <2>1, FaithfulBlank DEF TypeInv, TypeOK
  <2>3. \A d \in Calls \ {c} : Faithful(d)'
    BY <2>1, FaithfulSame DEF DraftInv, TypeInv, TypeOK
  <2>4. ASSUME NEW x \in Iris PROVE Stands(Written(c)[x])
    <3>1. CASE x \in draft[c].put \ draft[c].removed
      <4>1. draft[c].left[x] \in Artifact /\ draft[c].left[x].revision # 0
        BY <1>1, <3>1 DEF Faithful, Sees, TypeInv, TypeOK, Draft
      <4>2. [draft[c].left[x] EXCEPT !.landed = sets + 1].revision = draft[c].left[x].revision
        BY <4>1 DEF Artifact
      <4>3. Written(c)[x] = [draft[c].left[x] EXCEPT !.landed = sets + 1]
        BY <3>1, Zenon DEF Written
      <4> QED
        BY <4>1, <4>2, <4>3 DEF Stands
    <3>2. CASE x \notin draft[c].put \ draft[c].removed
      BY <3>2 DEF Written, DraftInv, Stands
    <3> QED
      BY <3>1, <3>2
  <2> QED
    BY <2>1, <2>2, <2>3, <2>4 DEF DraftInv
<1> QED
  BY <1>2, <1>3, <1>4 DEF Mints, Lands, GoesTo

LEMMA FaithfulAsks == ASSUME TypeInv, DraftInv, NEW c \in Calls, Ask(c) \/ Relocks(c) PROVE DraftInv'
<1>1. PICK set \in Sets : /\ asked' = [asked EXCEPT ![c] = set]
                          /\ pc' = [pc EXCEPT ![c] = FirstStep(set[1])]
                          /\ artifacts' = artifacts /\ draft' = [draft EXCEPT ![c] = Blank]
  <2>1. CASE Ask(c)
    <3>1. draft[c] = Blank
      BY <2>1 DEF Ask, DraftInv, Faithful
    <3>2. draft' = [draft EXCEPT ![c] = Blank]
      BY <2>1, <3>1 DEF Ask, TypeInv, TypeOK
    <3> QED
      BY <2>1, <3>2 DEF Ask
  <2>2. CASE Relocks(c)
    <3>1. asked[c] \in Sets /\ asked = [asked EXCEPT ![c] = asked[c]]
      BY <2>2 DEF Relocks, TypeInv, TypeOK, Placed
    <3>2. /\ asked' = [asked EXCEPT ![c] = asked[c]]
          /\ pc' = [pc EXCEPT ![c] = FirstStep(asked[c][1])]
          /\ artifacts' = artifacts /\ draft' = [draft EXCEPT ![c] = Blank]
      BY <2>2, <3>1 DEF Relocks
    <3> QED
      BY <3>1, <3>2
  <2> QED
    BY <2>1, <2>2
<1>2. set \in Seq(Operation) /\ Len(set) # 0
  BY SetsAssumption
<1>3. asked'[c] = set /\ pc'[c] = FirstStep(set[1]) /\ draft'[c] = Blank
  BY <1>1 DEF TypeInv, TypeOK
<1>4. Faithful(c)'
  BY <1>2, <1>3, FaithfulBlank
<1>5. \A d \in Calls \ {c} : Faithful(d)'
  BY <1>1, FaithfulSame DEF DraftInv, TypeInv, TypeOK
<1> QED
  BY <1>1, <1>4, <1>5 DEF DraftInv

LEMMA DraftInit == Init => DraftInv
<1> SUFFICES ASSUME Init PROVE DraftInv
  OBVIOUS
<1>1. /\ Blank.changes = <<>> /\ Len(Blank.changes) = 0 /\ DOMAIN Blank.changes = {}
      /\ Blank.put = {} /\ Blank.removed = {} /\ \A x \in Iris : Blank.types[x] = Nothing
  BY DEF Blank
<1>2. Follows(Blank, <<>>) /\ Tells(Blank) /\ Sees(Blank)
  BY <1>1 DEF Follows, Tells, Sees, Stands
<1>3. \A c \in Calls : draft[c] = Blank /\ asked[c] = <<>> /\ pc[c] = "idle"
  BY DEF Init
<1>4. \A c \in Calls : Faithful(c)
  BY <1>1, <1>2, <1>3 DEF Faithful, Changes
<1>5. \A x \in Iris : Stands(artifacts[x])
  BY DEF Init, Stands
<1> QED
  BY <1>4, <1>5 DEF DraftInv

LEMMA DraftStep == TypeInv /\ DraftInv /\ [Next]_vars => DraftInv'
<1> SUFFICES ASSUME TypeInv, DraftInv, [Next]_vars PROVE DraftInv'
  OBVIOUS
<1>1. ASSUME NEW c \in Calls, Step(c) PROVE DraftInv'
  BY <1>1, FaithfulReading, FaithfulTyping, FaithfulChecks, FaithfulLands, FaithfulAsks,
     FaithfulEnds DEF Step, Answers
<1>2. ASSUME NEW c \in Calls, GivesUp(c) \/ Crashes(c) PROVE DraftInv'
  BY <1>2, FaithfulEnds DEF GivesUp, Crashes
<1>3. CASE UNCHANGED vars
  BY <1>3, FaithfulSame DEF vars, DraftInv
<1> QED
  BY <1>1, <1>2, <1>3, FaithfulAsks DEF Next, AllAnswered

-----------------------------------------------------------------------------
(* The history unbroken.  Its entries are numbered by set and by step, so  *)
(* each artifact's have an order and a last one; a landing compares what   *)
(* its first change to an artifact read with where the last one left it.   *)

Numbered ==
  /\ \A e \in entries : e.set <= sets
  /\ \A e, f \in entries : e.set = f.set /\ e.step = f.step => e = f

(* The last of some entries is the one all the others precede.             *)
LEMMA LastIs ==
  ASSUME NEW told \in SUBSET Entry, NEW e \in told, \A f \in told : f = e \/ Precedes(f, e)
  PROVE  LastOf(told) = e
<1> DEFINE last == LastOf(told)
<1>1. last \in told /\ \A f \in told : f = last \/ Precedes(f, last)
  BY Zenon DEF LastOf
<1>2. e = last \/ (Precedes(e, last) /\ Precedes(last, e))
  BY <1>1
<1>3. \A f \in told : f.set \in Nat /\ f.step \in Nat
  BY DEF Entry
<1> HIDE DEF last
<1>4. ~(Precedes(e, last) /\ Precedes(last, e))
  BY <1>1, <1>3 DEF Precedes
<1> QED
  BY <1>2, <1>4 DEF last

(* The entry of a call's i-th change.                                      *)
EntryOf(c, i) ==
  [id |-> stamps[c][i], set |-> sets + 1, step |-> i, op |-> Changes(c)[i].op,
   artifact |-> Changes(c)[i].id, revision |-> Changes(c)[i].revision, by |-> c]

(* What a landing adds to the history, all of it after what was there.     *)
LEMMA LandingEntries ==
  ASSUME TypeInv, Numbered, NEW c \in Calls, pc[c] = "land", Commits(c)
  PROVE  /\ entries' = entries \cup {EntryOf(c, i) : i \in DOMAIN Changes(c)}
         /\ sets' = sets + 1 /\ sets \in Nat
         /\ entries \subseteq Entry /\ \A i \in DOMAIN Changes(c) : EntryOf(c, i) \in Entry
         /\ \A e \in entries : \A i \in DOMAIN Changes(c) :
              Precedes(e, EntryOf(c, i)) /\ ~Precedes(EntryOf(c, i), e) /\ EntryOf(c, i) # e
         /\ \A i, j \in DOMAIN Changes(c) : Precedes(EntryOf(c, i), EntryOf(c, j)) <=> i < j
<1>1. /\ entries' = entries \cup NewEntries(c) /\ sets' = sets + 1 /\ sets \in Nat
      /\ entries \subseteq Entry /\ NewEntries(c) \subseteq Entry
  BY NewEntriesType DEF Commits, TypeInv, TypeOK
<1>2. NewEntries(c) = {EntryOf(c, i) : i \in DOMAIN Changes(c)}
  BY Zenon DEF NewEntries, EntryOf
<1>3. \A i \in DOMAIN Changes(c) : EntryOf(c, i).set = sets + 1 /\ EntryOf(c, i).step = i
  BY DEF EntryOf
<1>4. \A e \in entries : e.set \in Nat /\ e.set <= sets
  BY <1>1 DEF Numbered, Entry
<1>5. \A e \in entries : \A i \in DOMAIN Changes(c) :
        Precedes(e, EntryOf(c, i)) /\ ~Precedes(EntryOf(c, i), e) /\ EntryOf(c, i) # e
  BY <1>1, <1>3, <1>4 DEF Precedes
<1>6. \A i, j \in DOMAIN Changes(c) : Precedes(EntryOf(c, i), EntryOf(c, j)) <=> i < j
  BY <1>1, <1>3 DEF Precedes
<1> QED
  BY <1>1, <1>2, <1>5, <1>6

LEMMA LandingNumbered ==
  ASSUME TypeInv, Numbered, NEW c \in Calls, pc[c] = "land", Commits(c)
  PROVE  Numbered'
<1>1. /\ entries' = entries \cup {EntryOf(c, i) : i \in DOMAIN Changes(c)}
      /\ sets' = sets + 1 /\ sets \in Nat /\ entries \subseteq Entry
  BY LandingEntries
<1>2. \A i \in DOMAIN Changes(c) : EntryOf(c, i).set = sets + 1 /\ EntryOf(c, i).step = i
  BY DEF EntryOf
<1>3. \A e \in entries : e.set \in Nat /\ e.set <= sets
  BY <1>1 DEF Numbered, Entry
<1> QED
  BY <1>1, <1>2, <1>3 DEF Numbered

(* Where a landing leaves an artifact: where its last change to it did, or *)
(* where it stood.                                                         *)
LEMMA WrittenLast ==
  ASSUME TypeInv, DraftInv, NEW c \in Calls, NEW x \in Iris
  PROVE  /\ (\A j \in DOMAIN Changes(c) : Changes(c)[j].id # x) => Written(c)[x] = artifacts[x]
         /\ \A j \in DOMAIN Changes(c) : Changes(c)[j].id = x /\ LastTo(draft[c], j)
              => Written(c)[x].revision = LeftAt(Changes(c)[j])
<1>1. Tells(draft[c]) /\ draft[c] \in Draft
  BY DEF DraftInv, Faithful, TypeInv, TypeOK
<1>2. ASSUME \A j \in DOMAIN Changes(c) : Changes(c)[j].id # x
      PROVE  Written(c)[x] = artifacts[x]
  BY <1>1, <1>2 DEF Written, Tells, Changes
<1>3. ASSUME NEW j \in DOMAIN Changes(c), Changes(c)[j].id = x, LastTo(draft[c], j)
      PROVE  Written(c)[x].revision = LeftAt(Changes(c)[j])
  <2>1. CASE Changes(c)[j].op = "delete"
    <3>1. x \in draft[c].removed
      BY <1>1, <1>3, <2>1 DEF Tells, Changes
    <3> QED
      BY <2>1, <3>1 DEF Written, LeftAt, Nothing
  <2>2. CASE Changes(c)[j].op # "delete"
    <3>1. /\ x \in draft[c].put \ draft[c].removed
          /\ draft[c].left[x].revision = Changes(c)[j].revision
      BY <1>1, <1>3, <2>2 DEF Tells, Changes
    <3>2. draft[c].left[x] \in Artifact
      BY <1>1 DEF Draft
    <3>3. [draft[c].left[x] EXCEPT !.landed = sets + 1].revision = draft[c].left[x].revision
      BY <3>2 DEF Artifact
    <3>4. Written(c)[x] = [draft[c].left[x] EXCEPT !.landed = sets + 1]
      BY <3>1, Zenon DEF Written
    <3> QED
      BY <2>2, <3>1, <3>3, <3>4 DEF LeftAt
  <2> QED
    BY <2>1, <2>2
<1> QED
  BY <1>2, <1>3

(* A landing that compared what it read leaves the history unbroken.       *)
LEMMA LandingUnbroken ==
  ASSUME TypeInv, DraftInv, Numbered, HistoryUnbroken, NEW c \in Calls, pc[c] = "land",
         ~Moved(c), Commits(c)
  PROVE  HistoryUnbroken'
<1> DEFINE N == DOMAIN Changes(c)
           new(i) == EntryOf(c, i)
<1>1. /\ entries' = entries \cup {new(i) : i \in N} /\ entries \subseteq Entry
      /\ \A i \in N : new(i) \in Entry
      /\ \A e \in entries : \A i \in N : Precedes(e, new(i)) /\ ~Precedes(new(i), e)
      /\ \A i, j \in N : Precedes(new(i), new(j)) <=> i < j
  BY LandingEntries
<1>2. /\ N \subseteq Nat /\ \E b \in Nat : \A i \in N : i <= b
      /\ \A i \in N : i \in Nat \ {0} /\ \A j \in 1..(i - 1) : j \in N
      /\ \A i \in N : Changes(c)[i] \in Change
  <2>1. draft[c].changes \in Seq(Change)
    BY DEF TypeInv, TypeOK, Draft
  <2>2. Len(Changes(c)) \in Nat /\ N = 1..Len(Changes(c)) /\ \A i \in N : Changes(c)[i] \in Change
    BY <2>1 DEF Changes
  <2> HIDE DEF N
  <2> DEFINE n == Len(Changes(c))
  <2>3. n \in Nat /\ N = 1..n
    BY <2>2
  <2> HIDE DEF n
  <2>4. \A i \in N : i <= n
    BY <2>3
  <2>5. \A i \in N : i \in Nat \ {0} /\ \A j \in 1..(i - 1) : j \in N
    BY <2>3
  <2> QED
    BY <2>2, <2>3, <2>4, <2>5
<1>3. \A i \in N : /\ new(i).artifact = Changes(c)[i].id /\ new(i).op = Changes(c)[i].op
                   /\ new(i).revision = Changes(c)[i].revision
                   /\ LeftAt(new(i)) = LeftAt(Changes(c)[i])
                   /\ Raises(Changes(c)[i]) /\ FindsAt(c, i, Changes(c)[i].read)
  BY DEF EntryOf, LeftAt, DraftInv, Faithful, Moved
<1>4. artifacts' = Written(c)
  BY DEF Commits
<1> HIDE DEF new, N
<1>5. ASSUME NEW e \in entries'
      PROVE  LET earlier == {f \in Told(e.artifact)' : Precedes(f, e)}
                 stood == IF earlier = {} THEN 0 ELSE LeftAt(LastOf(earlier))
             IN e.revision = stood + 1 /\ (e.op = "create" <=> stood = 0)
  <2> DEFINE earlier == {f \in Told(e.artifact)' : Precedes(f, e)}
  <2>1. CASE e \in entries
    <3>1. earlier = {f \in Told(e.artifact) : Precedes(f, e)}
      BY <1>1, <2>1 DEF Told
    <3> QED
      BY <2>1, <3>1 DEF HistoryUnbroken
  <2>2. ASSUME NEW i \in N, e = new(i), Earlier(c, i) = {}
        PROVE  LET stood == IF earlier = {} THEN 0 ELSE LeftAt(LastOf(earlier))
               IN e.revision = stood + 1 /\ (e.op = "create" <=> stood = 0)
    <3> DEFINE x == Changes(c)[i].id
    <3>1. x \in Iris /\ e.artifact = x
      BY <1>2, <1>3, <2>2 DEF Change
    <3>2. \A j \in N : j < i => new(j).artifact # x
      BY <1>2, <1>3, <2>2 DEF Earlier
    <3>3. earlier = Told(x)
      BY <1>1, <2>2, <3>1, <3>2 DEF Told
    <3>4. artifacts[x].revision = Changes(c)[i].read
      BY <1>3, <2>2 DEF FindsAt
    <3> HIDE DEF earlier
    <3> QED
      BY <1>3, <2>2, <3>1, <3>3, <3>4 DEF HistoryUnbroken, Raises
  <2>3. ASSUME NEW i \in N, e = new(i), Earlier(c, i) # {}
        PROVE  LET stood == IF earlier = {} THEN 0 ELSE LeftAt(LastOf(earlier))
               IN e.revision = stood + 1 /\ (e.op = "create" <=> stood = 0)
    <3>1. Earlier(c, i) \in SUBSET Nat /\ i \in Nat /\ \A k \in Earlier(c, i) : k <= i
      BY <1>2 DEF Earlier
    <3>2. PICK j \in Earlier(c, i) : \A k \in Earlier(c, i) : k <= j
      BY <2>3, <3>1, HighestExists
    <3>3. j \in N /\ j \in Nat /\ j < i /\ Changes(c)[j].id = Changes(c)[i].id
      BY <1>2, <3>1, <3>2 DEF Earlier
    <3>4. new(j) \in earlier
      BY <1>1, <1>3, <2>3, <3>3 DEF Told
    <3>5. ASSUME NEW f \in earlier PROVE f = new(j) \/ Precedes(f, new(j))
      <4>1. CASE f \in entries
        BY <1>1, <3>3, <4>1
      <4>2. ASSUME NEW k \in N, f = new(k) PROVE f = new(j) \/ Precedes(f, new(j))
        <5>1. k < i /\ Changes(c)[k].id = Changes(c)[i].id /\ k \in Nat
          BY <1>1, <1>2, <1>3, <2>3, <3>5, <4>2 DEF Told
        <5>2. k \in Earlier(c, i)
          BY <1>2, <3>1, <4>2, <5>1 DEF Earlier
        <5>3. k <= j
          BY <3>2, <5>2
        <5> QED
          BY <1>1, <3>3, <4>2, <5>1, <5>3
      <4> QED
        BY <1>1, <3>5, <4>1, <4>2 DEF Told
    <3>6. earlier \subseteq Entry
      BY <1>1 DEF Told
    <3> HIDE DEF earlier
    <3>7. LastOf(earlier) = new(j)
      BY <3>4, <3>5, <3>6, LastIs
    <3>8. LeftAt(Changes(c)[j]) = Changes(c)[i].read
      BY <1>3, <3>2 DEF FindsAt
    <3> QED
      BY <1>3, <2>3, <3>3, <3>4, <3>7, <3>8 DEF Raises
  <2> QED
    BY <1>1, <2>1, <2>2, <2>3
<1>6. ASSUME NEW x \in Iris
      PROVE  Written(c)[x].revision = IF Told(x)' = {} THEN 0 ELSE LeftAt(LastOf(Told(x)'))
  <2> DEFINE On == {i \in N : Changes(c)[i].id = x}
  <2>1. CASE On = {}
    <3>1. Told(x)' = Told(x)
      BY <1>1, <1>3, <2>1 DEF Told
    <3>2. Written(c)[x] = artifacts[x]
      BY <2>1, WrittenLast DEF N
    <3> QED
      BY <3>1, <3>2 DEF HistoryUnbroken
  <2>2. CASE On # {}
    <3>1. On \in SUBSET Nat
      BY <1>2
    <3>2. PICK j \in On : \A k \in On : k <= j
      BY <1>2, <2>2, <3>1, HighestExists
    <3>3. j \in N /\ Changes(c)[j].id = x /\ new(j) \in Told(x)'
      BY <1>1, <1>3, <3>2 DEF Told
    <3>4. ASSUME NEW f \in Told(x)' PROVE f = new(j) \/ Precedes(f, new(j))
      <4>1. CASE f \in entries
        BY <1>1, <3>3, <4>1
      <4>2. ASSUME NEW k \in N, f = new(k) PROVE f = new(j) \/ Precedes(f, new(j))
        <5>1. k \in On
          BY <1>3, <3>4, <4>2 DEF Told
        <5>2. k <= j /\ k \in Nat /\ j \in Nat
          BY <1>2, <3>2, <5>1
        <5> QED
          BY <1>1, <3>3, <4>2, <5>2
      <4> QED
        BY <1>1, <3>4, <4>1, <4>2 DEF Told
    <3>5. Told(x)' \subseteq Entry
      BY <1>1 DEF Told
    <3>6. LastOf(Told(x)') = new(j)
      BY <3>3, <3>4, <3>5, LastIs
    <3>7. LastTo(draft[c], j)
      BY <3>2, <3>3 DEF LastTo, N, Changes
    <3>8. Written(c)[x].revision = LeftAt(Changes(c)[j])
      BY <3>3, <3>7, WrittenLast DEF N
    <3> QED
      BY <1>3, <3>3, <3>6, <3>8
  <2> QED
    BY <2>1, <2>2
<1> QED
  BY <1>4, <1>5, <1>6 DEF HistoryUnbroken, Told

HistoryInv == TypeInv /\ DraftInv /\ Numbered /\ HistoryUnbroken

LEMMA HistoryInit == Init => HistoryInv
<1> SUFFICES ASSUME Init PROVE HistoryInv
  OBVIOUS
<1>1. TypeInv /\ DraftInv
  BY InitType, DraftInit
<1> DEFINE first(i) == [id |-> <<0, i>>, set |-> 1, step |-> i, op |-> "create",
                        artifact |-> Before[i], revision |-> 1, by |-> Nobody]
<1>2. entries = {first(i) : i \in DOMAIN Before} /\ sets = 1
  BY DEF Init
<1>3. \A i \in DOMAIN Before : i \in Nat
  BY BeforeAssumption
<1>4. Numbered
  BY <1>2, <1>3 DEF Numbered
<1>5. ASSUME NEW x \in Iris, NEW i \in DOMAIN Before, Before[i] = x
      PROVE  Told(x) = {first(i)}
  BY <1>2, <1>5, BeforeAssumption DEF Told
<1>6. ASSUME NEW e \in entries
      PROVE  {f \in Told(e.artifact) : Precedes(f, e)} = {} /\ e.revision = 1 /\ e.op = "create"
  <2>1. PICK i \in DOMAIN Before : e = first(i)
    BY <1>2
  <2>2. e.artifact = Before[i] /\ Before[i] \in Iris
    BY <2>1, BeforeAssumption
  <2>3. Told(e.artifact) = {e}
    BY <1>5, <2>1, <2>2
  <2>4. e.set = 1 /\ e.step = i
    BY <2>1
  <2> QED
    BY <1>3, <2>1, <2>3, <2>4 DEF Precedes
<1>7. ASSUME NEW x \in Iris
      PROVE  artifacts[x].revision = IF Told(x) = {} THEN 0 ELSE LeftAt(LastOf(Told(x)))
  <2>1. CASE \E i \in DOMAIN Before : Before[i] = x
    <3>1. PICK i \in DOMAIN Before : Before[i] = x
      BY <2>1
    <3>2. Told(x) = {first(i)} /\ Told(x) \subseteq Entry
      BY <1>1, <1>5, <3>1 DEF Told, TypeInv, TypeOK
    <3>3. LastOf(Told(x)) = first(i)
      BY <3>2, LastIs
    <3>4. artifacts[x].revision = 1
      BY <2>1 DEF Init
    <3> QED
      BY <3>2, <3>3, <3>4 DEF LeftAt
  <2>2. CASE ~\E i \in DOMAIN Before : Before[i] = x
    <3>1. Told(x) = {}
      BY <1>2, <2>2 DEF Told
    <3> QED
      BY <2>2, <3>1 DEF Init, Nothing
  <2> QED
    BY <2>1, <2>2
<1> HIDE DEF first
<1>8. HistoryUnbroken
  BY <1>6, <1>7 DEF HistoryUnbroken
<1> QED
  BY <1>1, <1>4, <1>8 DEF HistoryInv

LEMMA HistoryStep == HistoryInv /\ [Next]_vars => HistoryInv'
<1> SUFFICES ASSUME HistoryInv, [Next]_vars PROVE HistoryInv'
  OBVIOUS
<1>1. TypeInv' /\ DraftInv'
  BY TypeStep, DraftStep DEF HistoryInv
<1>2. CASE store' = store
  <2>1. artifacts' = artifacts /\ entries' = entries /\ sets' = sets
    BY <1>2 DEF store
  <2>2. Numbered' /\ HistoryUnbroken'
    BY <2>1 DEF HistoryInv, Numbered, HistoryUnbroken, Told
  <2> QED
    BY <1>1, <2>2 DEF HistoryInv
<1>3. CASE store' # store
  <2>1. PICK c \in Calls : pc[c] = "land" /\ ~Conflicts(c) /\ Commits(c)
    BY <1>3, StoreStep DEF HistoryInv
  <2> QED
    BY <1>1, <2>1, LandingNumbered, LandingUnbroken DEF HistoryInv, Conflicts
<1> QED
  BY <1>2, <1>3

(* Each entry of an artifact's history takes up where the one before it    *)
(* left off, and the store stands where the last one did, however drafts,  *)
(* landings and crashes of any callers interleave: no set lands over a     *)
(* revision it had not read (sqlite_checks._compared).                     *)
THEOREM HistoryKept == Spec => []HistoryUnbroken
<1>1. HistoryInv => HistoryUnbroken
  BY DEF HistoryInv
<1> QED
  BY <1>1, HistoryInit, HistoryStep, PTL DEF Spec

-----------------------------------------------------------------------------
(* Answered as landed.  A call has made nothing until it lands, then all   *)
(* it asked, and is answered once.                                         *)

(* A step of the write path, as what a call is answered sees it.           *)
GoesOn(c) ==
  /\ pc[c] \notin {"landed", "done"} /\ pc'[c] \notin {"landed", "done"}
  /\ entries' = entries /\ outcome' = outcome
  /\ \A d \in Calls \ {c} : pc'[d] = pc[d] /\ asked'[d] = asked[d]
  /\ Ask(c) \/ (pc[c] # "idle" /\ pc'[c] # "idle" /\ artifacts' = artifacts /\ asked' = asked)

LEMMA CallStep ==
  ASSUME TypeInv, Next
  PROVE  \/ UNCHANGED vars
         \/ \E c \in Calls :
              \/ GoesOn(c)
              \/ /\ pc[c] \notin {"idle", "landed", "done"}
                 /\ \E answer \in {"refused", "escaped", "busy"} : Ends(c, answer)
                 /\ Step(c) \/ GivesUp(c)
              \/ pc[c] = "landed" /\ Ends(c, "landed")
              \/ pc[c] \notin {"idle", "done"} /\ Ends(c, "lost")
              \/ pc[c] = "land" /\ ~Conflicts(c) /\ Commits(c)
<1> SUFFICES ASSUME ~UNCHANGED vars
             PROVE  \E c \in Calls :
                      \/ GoesOn(c)
                      \/ /\ pc[c] \notin {"idle", "landed", "done"}
                         /\ \E answer \in {"refused", "escaped", "busy"} : Ends(c, answer)
                         /\ Step(c) \/ GivesUp(c)
                      \/ pc[c] = "landed" /\ Ends(c, "landed")
                      \/ pc[c] \notin {"idle", "done"} /\ Ends(c, "lost")
                      \/ pc[c] = "land" /\ ~Conflicts(c) /\ Commits(c)
  OBVIOUS
<1>1. PICK c \in Calls : Ask(c) \/ Step(c) \/ GivesUp(c) \/ Crashes(c)
  BY DEF Next, AllAnswered
<1>2. \A operation : FirstStep(operation) \notin {"idle", "landed", "done"}
  BY DEF FirstStep
<1>3. ASSUME NEW step, step \notin {"idle", "landed", "done"}, pc[c] \notin {"idle", "landed", "done"},
             GoesTo(c, step)
      PROVE  GoesOn(c)
  BY <1>3 DEF GoesTo, GoesOn, TypeInv, TypeOK
<1>4. ASSUME NEW kept, NEW read, NEW revision, NEW content, NEW seen,
             Acted(c, kept, read, revision, content, seen), pc[c] \notin {"idle", "landed", "done"}
      PROVE  GoesOn(c)
  BY <1>2, <1>3, <1>4 DEF Acted
<1>5. ASSUME NEW kept, NEW current, Revises(c, kept, current), pc[c] \notin {"idle", "landed", "done"}
      PROVE  GoesOn(c)
  BY <1>4, <1>5 DEF Revises
<1>6. CASE Ask(c) \/ Mints(c) \/ Relocks(c)
  <2>1. /\ pc[c] \notin {"landed", "done"} /\ entries' = entries /\ outcome' = outcome
        /\ \E step : step \notin {"idle", "landed", "done"} /\ pc' = [pc EXCEPT ![c] = step]
        /\ asked' = asked \/ \E set : asked' = [asked EXCEPT ![c] = set]
        /\ Ask(c) \/ (pc[c] # "idle" /\ artifacts' = artifacts /\ asked' = asked)
    BY <1>2, <1>6 DEF Ask, Mints, Relocks
  <2>2. GoesOn(c)
    BY <2>1 DEF GoesOn, TypeInv, TypeOK
  <2> QED
    BY <2>2
<1>7. CASE GivesUp(c) \/ Crashes(c) \/ Answers(c)
  BY <1>7 DEF GivesUp, Crashes, Answers
<1>8. CASE FindsHeld(c) \/ ComparesExpected(c) \/ FindsTypeHeld(c)
  <2>1. Step(c)
    BY <1>8 DEF Step
  <2> QED
    BY <1>3, <1>8, <2>1 DEF FindsHeld, ComparesExpected, FindsTypeHeld, Refused, Escaped
<1>9. CASE ReadsCurrent(c)
  <2>1. Step(c)
    BY <1>9 DEF Step
  <2> QED
    BY <1>3, <1>5, <1>9, <2>1 DEF ReadsCurrent, Escaped
<1>10. CASE ReadsType(c)
  <2>1. Step(c)
    BY <1>10 DEF Step
  <2> QED
    BY <1>3, <1>5, <1>10, <2>1 DEF ReadsType, Escaped
<1>11. CASE FindsFree(c)
  <2>1. Step(c)
    BY <1>11 DEF Step
  <2> QED
    BY <1>4, <1>11, <2>1 DEF FindsFree, Refused
<1>12. CASE Checks(c)
  <2>1. Step(c)
    BY <1>12 DEF Step
  <2> QED
    BY <1>3, <1>12, <2>1 DEF Checks, Refused
<1>13. CASE Lands(c)
  <2>1. Step(c)
    BY <1>13 DEF Step
  <2> QED
    BY <1>3, <1>13, <2>1 DEF Lands, Refused, Escaped
<1> QED
  BY <1>1, <1>6, <1>7, <1>8, <1>9, <1>10, <1>11, <1>12, <1>13 DEF Step

Made(c) == {e \in entries : e.by = c}

Whole(c) ==
  /\ Cardinality(Made(c)) = Len(asked[c])
  /\ \A e \in Made(c) : e.artifact = asked[c][e.step].id /\ e.op = asked[c][e.step].op
  /\ \A e, f \in Made(c) : e.set = f.set

Answered(c) ==
  /\ pc[c] \notin {"landed", "done"} => outcome[c] = "none" /\ Made(c) = {}
  /\ pc[c] = "landed" => outcome[c] = "none" /\ Whole(c)
  /\ pc[c] = "done" => CASE outcome[c] = "landed" -> Whole(c)
                         [] outcome[c] = "lost" -> Made(c) = {} \/ Whole(c)
                         [] OTHER -> Made(c) = {}

LEMMA AnsweredSame ==
  ASSUME NEW d \in Calls, Answered(d), asked'[d] = asked[d], pc'[d] = pc[d], outcome'[d] = outcome[d],
         Made(d)' = Made(d)
  PROVE  Answered(d)'
  BY DEF Answered, Whole

(* A set that lands is landed whole.                                       *)
LEMMA LandingWhole ==
  ASSUME HistoryInv, NEW c \in Calls, Answered(c), pc[c] = "land", Commits(c)
  PROVE  Answered(c)' /\ \A d \in Calls \ {c} : Made(d)' = Made(d)
<1> DEFINE N == DOMAIN Changes(c)
           new(i) == EntryOf(c, i)
<1>1. /\ entries' = entries \cup {new(i) : i \in N}
      /\ \A i, j \in N : Precedes(new(i), new(j)) <=> i < j
  BY LandingEntries DEF HistoryInv
<1>2. \A i \in N : /\ new(i).by = c /\ new(i).step = i /\ new(i).set = sets + 1
                   /\ new(i).artifact = Changes(c)[i].id /\ new(i).op = Changes(c)[i].op
  BY DEF EntryOf
<1>3. Made(c) = {} /\ outcome[c] = "none"
  BY DEF Answered
<1>4. /\ Faithful(c) /\ Len(Changes(c)) = Len(asked[c]) /\ N = 1..Len(Changes(c))
      /\ Len(Changes(c)) \in Nat
  BY DEF HistoryInv, TypeInv, TypeOK, Draft, DraftInv, Faithful, Changes
<1>5. /\ pc' = [pc EXCEPT ![c] = "landed"] /\ asked' = asked /\ outcome' = outcome
  BY DEF Commits
<1> HIDE DEF new, N
<1>6. Made(c)' = {new(i) : i \in N}
  BY <1>1, <1>2, <1>3 DEF Made
<1>7. Cardinality(Made(c)') = Len(asked[c])
  <2> DEFINE T == {new(i) : i \in N}
             F == [i \in N |-> new(i)]
  <2>1. F \in [N -> T] /\ \A i, j \in N : F[i] = F[j] => i = j
    BY <1>2
  <2>2. \A t \in T : \E i \in N : F[i] = t
    OBVIOUS
  <2>3. F \in Bijection(N, T)
    BY <2>1, <2>2, Fun_IsBij
  <2>4. ExistsBijection(N, T)
    BY <2>3, Fun_ExistsBij
  <2> HIDE DEF T, F
  <2>5. Cardinality(T) = Len(asked[c])
    BY <1>4, <2>4, FS_CountingElements
  <2> QED
    BY <1>6, <2>5 DEF T
<1>8. \A e \in Made(c)' : e.artifact = asked[c][e.step].id /\ e.op = asked[c][e.step].op
  BY <1>2, <1>4, <1>6 DEF Faithful, Follows, Changes, N
<1>9. \A e, f \in Made(c)' : e.set = f.set
  BY <1>2, <1>6
<1>10. Whole(c)'
  BY <1>5, <1>7, <1>8, <1>9 DEF Whole
<1>11. Answered(c)'
  BY <1>3, <1>5, <1>10 DEF Answered, HistoryInv, TypeInv, TypeOK
<1>12. \A d \in Calls \ {c} : Made(d)' = Made(d)
  BY <1>1, <1>2 DEF Made
<1> QED
  BY <1>11, <1>12

AnswerInv == HistoryInv /\ \A c \in Calls : Answered(c)

LEMMA AnswerStep == AnswerInv /\ [Next]_vars => AnswerInv'
<1> SUFFICES ASSUME AnswerInv, [Next]_vars PROVE AnswerInv'
  OBVIOUS
<1>1. HistoryInv' /\ TypeInv
  BY HistoryStep DEF AnswerInv, HistoryInv
<1>2. CASE UNCHANGED vars
  BY <1>1, <1>2, AnsweredSame DEF vars, Made, AnswerInv
<1>3. ASSUME NEW c \in Calls, GoesOn(c) PROVE \A d \in Calls : Answered(d)'
  <2>1. \A d \in Calls \ {c} : Answered(d)'
    BY <1>3, AnsweredSame DEF GoesOn, Made, AnswerInv
  <2>2. Answered(c)'
    BY <1>3 DEF GoesOn, AnswerInv, Answered, Made
  <2> QED
    BY <2>1, <2>2
<1>4. ASSUME NEW c \in Calls, NEW answer, Ends(c, answer)
      PROVE  /\ \A d \in Calls \ {c} : Answered(d)'
             /\ pc'[c] = "done" /\ outcome'[c] = answer
             /\ Made(c)' = Made(c) /\ Whole(c)' = Whole(c)
  <2>1. /\ pc' = [pc EXCEPT ![c] = "done"] /\ outcome' = [outcome EXCEPT ![c] = answer]
        /\ entries' = entries /\ asked' = asked
    BY <1>4 DEF Ends
  <2>2. \A d \in Calls : Made(d)' = Made(d) /\ Whole(d)' = Whole(d)
    BY <2>1 DEF Made, Whole
  <2>3. \A d \in Calls \ {c} : Answered(d)'
    BY <1>1, <2>1, <2>2, AnsweredSame DEF AnswerInv, TypeInv, TypeOK
  <2> QED
    BY <1>1, <2>1, <2>2, <2>3 DEF TypeInv, TypeOK
<1>5. ASSUME NEW c \in Calls, pc[c] \notin {"idle", "landed", "done"},
             NEW answer \in {"refused", "escaped", "busy"}, Ends(c, answer)
      PROVE  \A d \in Calls : Answered(d)'
  BY <1>4, <1>5 DEF AnswerInv, Answered
<1>6. ASSUME NEW c \in Calls, NEW answer \in {"landed", "lost"}, Ends(c, answer),
             pc[c] \notin {"idle", "done"}, answer = "landed" => pc[c] = "landed"
      PROVE  \A d \in Calls : Answered(d)'
  BY <1>4, <1>6 DEF AnswerInv, Answered
<1>7. ASSUME NEW c \in Calls, pc[c] = "land", Commits(c) PROVE \A d \in Calls : Answered(d)'
  <2>1. Answered(c)' /\ \A d \in Calls \ {c} : Made(d)' = Made(d)
    BY <1>7, LandingWhole DEF AnswerInv
  <2>2. \A d \in Calls \ {c} : Answered(d)'
    BY <1>1, <1>7, <2>1, AnsweredSame DEF AnswerInv, Commits, TypeInv, TypeOK
  <2> QED
    BY <2>1, <2>2
<1> QED
  BY <1>1, <1>2, <1>3, <1>5, <1>6, <1>7, CallStep DEF AnswerInv

LEMMA AnswerInit == Init => AnswerInv
<1> SUFFICES ASSUME Init PROVE AnswerInv
  OBVIOUS
<1>1. \A e \in entries : e.by = Nobody
  BY DEF Init
<1>2. \A c \in Calls : c # Nobody /\ pc[c] = "idle" /\ outcome[c] = "none"
  BY CallsAssumption DEF Init
<1> QED
  BY <1>1, <1>2, HistoryInit DEF AnswerInv, Answered, Made

(* A set lands whole or not at all, once however often it was drafted, and *)
(* a call is told it landed only when it did, whatever it waits for, loses *)
(* or is killed at (sqlite_store.land, _saved).                            *)
THEOREM AnswersTrue == Spec => []AnsweredAsLanded
<1>1. AnswerInv => AnsweredAsLanded
  <2> SUFFICES ASSUME AnswerInv, NEW c \in Calls
               PROVE  /\ pc[c] = "landed" \/ outcome[c] = "landed" => Whole(c)
                      /\ outcome[c] = "lost" => Made(c) = {} \/ Whole(c)
                      /\ pc[c] # "landed" /\ outcome[c] \notin {"landed", "lost"} => Made(c) = {}
    BY DEF AnsweredAsLanded, Whole, Made
  <2> QED
    BY DEF AnswerInv, Answered
<1> QED
  BY <1>1, AnswerInit, AnswerStep, PTL DEF Spec


-----------------------------------------------------------------------------
(* Under the write lock.  Nothing lands but the set of the call that holds *)
(* it, so what its draft read is what stands, each of its changes finds    *)
(* what it read, and the ids it minted stay free.                          *)

(* An artifact as the draft leaves it stands at a revision.                *)
DraftFinds(c, x, revision) ==
  IF \A j \in DOMAIN Changes(c) : Changes(c)[j].id # x THEN artifacts[x].revision = revision
  ELSE \A j \in DOMAIN Changes(c) :
         Changes(c)[j].id = x /\ LastTo(draft[c], j) => LeftAt(Changes(c)[j]) = revision

Revising(c) ==
  \/ pc[c] \in {"expected", "current"}
  \/ pc[c] \in {"type_holds", "type_read"} /\ Acting(c).op # "create"

Sure(c) ==
  /\ pc[c] \in Drafting \cup {"mint", "land"}
  /\ \A x \in Iris : draft[c].types[x] # Nothing => draft[c].types[x] = artifacts[x]
  /\ \A i \in DOMAIN Changes(c) : /\ FindsAt(c, i, Changes(c)[i].read)
                                  /\ Changes(c)[i].expected \in {0, Changes(c)[i].read}
  /\ Revising(c) => Holds(c, Acting(c).id)
  /\ Revising(c) /\ pc[c] # "expected" =>
       Acting(c).expected \in {0, Read(c, Acting(c).id).revision}
  /\ Revising(c) /\ pc[c] \in {"type_holds", "type_read"} =>
       draft[c].current = Read(c, Acting(c).id)
  /\ pc[c] = "type_read" => Holds(c, TypeOf[Acting(c).id])
  /\ pc[c] = "land" => ~IdHeld(c)

LockInv == \A c \in Calls : lock = c => Sure(c)

(* A call that does not move is as sure as it was, where the store stands. *)
LEMMA SureSame ==
  ASSUME NEW c \in Calls, Sure(c), store' = store, draft'[c] = draft[c], pc'[c] = pc[c],
         asked'[c] = asked[c], stamps'[c] = stamps[c]
  PROVE  Sure(c)'
<1>1. artifacts' = artifacts /\ entries' = entries
  BY DEF store
<1>2. Acting(c)' = Acting(c) /\ Changes(c)' = Changes(c) /\ IdHeld(c)' = IdHeld(c)
  BY <1>1 DEF Acting, Changes, IdHeld
<1>3. \A x : Read(c, x)' = Read(c, x) /\ Holds(c, x)' = Holds(c, x)
  BY <1>1 DEF Read, Holds
<1>4. \A i, revision : FindsAt(c, i, revision)' = FindsAt(c, i, revision)
  BY <1>1 DEF FindsAt, Earlier, Changes
<1> QED
  BY <1>1, <1>2, <1>3, <1>4 DEF Sure, Revising

(* What a sure call reads is what its draft put, or what stands.           *)
LEMMA ReadSure ==
  ASSUME TypeInv, DraftInv, NEW c \in Calls, Sure(c), NEW x \in Iris
  PROVE  /\ Read(c, x) = IF x \in draft[c].put THEN draft[c].left[x] ELSE artifacts[x]
         /\ Holds(c, x) => Found(c, x)
         /\ \A y \in Iris : Kept(c, x)[y] # Nothing => Kept(c, x)[y] = artifacts[y]
<1>1. /\ draft[c].types \in [Iris -> Artifact] /\ Sees(draft[c])
      /\ \A y \in Iris : draft[c].types[y] # Nothing => draft[c].types[y] = artifacts[y]
  BY DEF TypeInv, TypeOK, Draft, DraftInv, Faithful, Sure
<1>2. Read(c, x) = IF x \in draft[c].put THEN draft[c].left[x] ELSE artifacts[x]
  BY <1>1 DEF Read
<1>3. Holds(c, x) => Found(c, x)
  BY <1>1, <1>2 DEF Holds, Found, Sees, Nothing
<1>4. \A y \in Iris : Kept(c, x)[y] # Nothing => Kept(c, x)[y] = artifacts[y]
  BY <1>1, <1>2 DEF Kept
<1> QED
  BY <1>2, <1>3, <1>4

(* What a sure call reads of what is held is where its draft left it, and  *)
(* where nothing is held its draft leaves nothing.                         *)
LEMMA DraftFound ==
  ASSUME TypeInv, DraftInv, NEW c \in Calls, Sure(c), NEW x \in Iris
  PROVE  /\ Holds(c, x) => DraftFinds(c, x, Read(c, x).revision)
         /\ ~Holds(c, x) => DraftFinds(c, x, 0)
<1>1. /\ Tells(draft[c]) /\ Sees(draft[c]) /\ Stands(artifacts[x])
      /\ draft[c].put \subseteq Iris /\ draft[c].removed \subseteq Iris
  BY DEF TypeInv, TypeOK, Draft, DraftInv, Faithful
<1>2. Read(c, x) = IF x \in draft[c].put THEN draft[c].left[x] ELSE artifacts[x]
  BY ReadSure
<1>3. CASE \A j \in DOMAIN Changes(c) : Changes(c)[j].id # x
  <2>1. x \notin draft[c].put \cup draft[c].removed
    BY <1>1, <1>3 DEF Tells, Changes
  <2>2. DraftFinds(c, x, artifacts[x].revision)
    BY <1>3 DEF DraftFinds
  <2>3. ~Holds(c, x) => artifacts[x].revision = 0
    BY <2>1 DEF Holds
  <2> QED
    BY <1>2, <2>1, <2>2, <2>3
<1>4. CASE ~\A j \in DOMAIN Changes(c) : Changes(c)[j].id # x
  <2>1. ASSUME NEW j \in DOMAIN Changes(c), Changes(c)[j].id = x, LastTo(draft[c], j)
        PROVE  /\ Holds(c, x) => LeftAt(Changes(c)[j]) = Read(c, x).revision
               /\ ~Holds(c, x) => LeftAt(Changes(c)[j]) = 0
    <3>1. CASE Changes(c)[j].op = "delete"
      <4>1. x \in draft[c].removed
        BY <1>1, <2>1, <3>1 DEF Tells, Changes
      <4> QED
        BY <3>1, <4>1 DEF Holds, LeftAt
    <3>2. CASE Changes(c)[j].op # "delete"
      <4>1. /\ x \in draft[c].put \ draft[c].removed
            /\ draft[c].left[x].revision = Changes(c)[j].revision
        BY <1>1, <2>1, <3>2 DEF Tells, Changes
      <4> QED
        BY <1>2, <3>2, <4>1 DEF Holds, LeftAt
    <3> QED
      BY <3>1, <3>2
  <2> QED
    BY <1>4, <2>1 DEF DraftFinds
<1> QED
  BY <1>3, <1>4

(* A change that acts on what its draft finds keeps its call sure.         *)
LEMMA SureActed ==
  ASSUME TypeInv, NEW c \in Calls, Sure(c), pc[c] \in Acts,
         NEW kept \in [Iris -> Artifact],
         \A y \in Iris : kept[y] # Nothing => kept[y] = artifacts[y],
         NEW read \in Nat, NEW revision \in Nat, NEW content \in SUBSET Writers, NEW seen \in Nat,
         DraftFinds(c, Acting(c).id, read), Acting(c).expected \in {0, read},
         Acted(c, kept, read, revision, content, seen)
  PROVE  Sure(c)'
<1> DEFINE change == [op |-> Acting(c).op, id |-> Acting(c).id, expected |-> Acting(c).expected,
                      read |-> read, revision |-> revision, content |-> content, seen |-> seen]
           made == Drafted(c, kept, change)
           n == Len(draft[c].changes)
           x == Acting(c).id
           step == IF n + 2 > Len(asked[c]) THEN "check" ELSE FirstStep(asked[c][n + 2])
<1>1. /\ Acting(c) \in Operation /\ n \in Nat /\ n + 1 \in 1..Len(asked[c])
      /\ draft[c].changes \in Seq(Change)
  BY ActingType DEF TypeInv, TypeOK, Draft
<1>2. /\ draft' = [draft EXCEPT ![c] = made] /\ pc' = [pc EXCEPT ![c] = step]
      /\ UNCHANGED <<artifacts, asked, entries, stamps>>
  BY DEF Acted, GoesTo
<1>3. change \in Change /\ change.id = x /\ change.read = read /\ change.expected = Acting(c).expected
  BY <1>1 DEF Change, Operation
<1>4. /\ made.changes = Append(draft[c].changes, change) /\ made.types = kept
      /\ DOMAIN made.changes = 1..(n + 1) /\ made.changes[n + 1] = change
      /\ \A i \in 1..n : made.changes[i] = draft[c].changes[i]
      /\ DOMAIN draft[c].changes = 1..n
  BY <1>1, <1>3 DEF Drafted
<1> HIDE DEF made, change
<1>5. draft'[c] = made /\ pc'[c] = step /\ Changes(c)' = made.changes /\ Acting(c)' = asked[c][n + 2]
  <2>1. draft'[c] = made /\ pc'[c] = step
    BY <1>2 DEF TypeInv, TypeOK
  <2>2. Len(made.changes) + 1 = n + 2
    BY <1>1, <1>3, <1>4
  <2> QED
    BY <1>2, <2>1, <2>2 DEF Changes, Acting
<1>6. ASSUME NEW i \in 1..n
      PROVE  /\ FindsAt(c, i, Changes(c)[i].read)'
             /\ Changes(c)'[i].expected \in {0, Changes(c)'[i].read}
  <2>1. i \in DOMAIN Changes(c) /\ Changes(c)'[i] = Changes(c)[i]
    BY <1>4, <1>5 DEF Changes
  <2>2. \A j \in 1..i : Changes(c)'[j] = Changes(c)[j]
    <3>1. 1..i \subseteq 1..n
      BY <1>1
    <3> QED
      BY <1>4, <1>5, <3>1 DEF Changes
  <2>3. Earlier(c, i)' = Earlier(c, i)
    BY <2>1, <2>2 DEF Earlier
  <2>4. \A j \in Earlier(c, i) : Changes(c)'[j] = Changes(c)[j]
    BY <2>2 DEF Earlier
  <2>5. FindsAt(c, i, Changes(c)[i].read) /\ Changes(c)[i].expected \in {0, Changes(c)[i].read}
    BY <2>1 DEF Sure
  <2> QED
    BY <1>2, <2>1, <2>3, <2>4, <2>5 DEF FindsAt
<1>7. ASSUME NEW i, i = n + 1
      PROVE  /\ FindsAt(c, i, Changes(c)[i].read)'
             /\ Changes(c)'[i].expected \in {0, Changes(c)'[i].read}
  <2>1. Changes(c)'[i] = change
    BY <1>4, <1>5, <1>7
  <2>2. Earlier(c, i)' = {j \in 1..n : draft[c].changes[j].id = x}
    <3>1. i - 1 = n
      BY <1>1, <1>7
    <3>2. Earlier(c, i)' = {j \in 1..(i - 1) : Changes(c)'[j].id = Changes(c)'[i].id}
      BY DEF Earlier
    <3>3. \A j \in 1..n : Changes(c)'[j] = draft[c].changes[j]
      BY <1>4, <1>5
    <3> QED
      BY <1>3, <2>1, <3>1, <3>2, <3>3
  <2>3. CASE \A j \in DOMAIN Changes(c) : Changes(c)[j].id # x
    <3>1. Earlier(c, i)' = {} /\ artifacts[x].revision = read
      BY <1>4, <2>2, <2>3 DEF Changes, DraftFinds
    <3> QED
      BY <1>2, <1>3, <2>1, <3>1 DEF FindsAt
  <2>4. CASE ~\A j \in DOMAIN Changes(c) : Changes(c)[j].id # x
    <3>1. Earlier(c, i)' # {}
      BY <1>4, <2>2, <2>4 DEF Changes
    <3>2. ASSUME NEW j \in Earlier(c, i)', \A k \in Earlier(c, i)' : k <= j
          PROVE  LeftAt(Changes(c)'[j]) = read
      <4>1. j \in DOMAIN Changes(c) /\ Changes(c)[j].id = x /\ Changes(c)'[j] = Changes(c)[j]
        BY <1>4, <1>5, <2>2 DEF Changes
      <4>2. \A k \in DOMAIN Changes(c) : Changes(c)[k].id = x => k <= j
        BY <1>4, <2>2, <3>2 DEF Changes
      <4>3. LastTo(draft[c], j)
        BY <4>1, <4>2 DEF LastTo, Changes
      <4> QED
        BY <2>4, <4>1, <4>3 DEF DraftFinds
    <3> QED
      BY <1>3, <2>1, <3>1, <3>2 DEF FindsAt
  <2> QED
    BY <1>3, <2>1, <2>3, <2>4
<1>8. step \in {"check", "holds", "free", "type_holds"}
      /\ (step = "type_holds" => asked[c][n + 2].op = "create")
  BY DEF FirstStep
<1> HIDE DEF step
<1>9. ~Revising(c)'
  BY <1>5, <1>8 DEF Revising
<1>10. \A i \in DOMAIN Changes(c)' : /\ FindsAt(c, i, Changes(c)[i].read)'
                                     /\ Changes(c)'[i].expected \in {0, Changes(c)'[i].read}
  <2>1. DOMAIN Changes(c)' = 1..(n + 1) /\ \A i \in 1..(n + 1) : i \in 1..n \/ i = n + 1
    BY <1>1, <1>4, <1>5
  <2> QED
    BY <1>6, <1>7, <2>1
<1>11. draft'[c].types = kept
  BY <1>4, <1>5
<1>12. step \in Drafting /\ step \notin {"type_read", "land"}
  BY <1>8 DEF Drafting
<1> QED
  BY <1>2, <1>5, <1>9, <1>10, <1>11, <1>12 DEF Sure

(* A sure call that goes on with the changes it has drafted.               *)
LEMMA SureReads ==
  ASSUME TypeInv, DraftInv, NEW c \in Calls, Sure(c), Alone(c), store' = store,
         draft'[c].put = draft[c].put, draft'[c].removed = draft[c].removed,
         draft'[c].left = draft[c].left, draft'[c].changes = draft[c].changes,
         \A y \in Iris : draft'[c].types[y] # Nothing => draft'[c].types[y] = artifacts[y],
         pc'[c] \in Drafting \cup {"mint"},
         Revising(c)' => /\ pc[c] \in Acts
                         /\ Holds(c, Acting(c).id)
                         /\ pc'[c] # "expected" =>
                              Acting(c).expected \in {0, Read(c, Acting(c).id).revision}
                         /\ pc'[c] \in {"type_holds", "type_read"} =>
                              draft'[c].current = Read(c, Acting(c).id),
         pc'[c] = "type_read" => Holds(c, TypeOf[Acting(c).id])
  PROVE  Sure(c)'
<1>1. asked'[c] = asked[c] /\ artifacts' = artifacts
  BY DEF Alone
<1>2. Acting(c)' = Acting(c) /\ Changes(c)' = Changes(c)
  BY <1>1 DEF Acting, Changes
<1>3. \A x : Holds(c, x)' = Holds(c, x)
  BY <1>1 DEF Holds
<1>4. \A i, revision : FindsAt(c, i, revision)' = FindsAt(c, i, revision)
  BY <1>1, <1>2 DEF FindsAt, Earlier
<1>5. \A x \in Iris : Read(c, x)' = Read(c, x)
  <2> TAKE x \in Iris
  <2>1. Read(c, x) = IF x \in draft[c].put THEN draft[c].left[x] ELSE artifacts[x]
    BY ReadSure
  <2>2. Read(c, x)' = IF x \in draft[c].put THEN draft[c].left[x] ELSE artifacts[x]
    BY <1>1 DEF Read
  <2> QED
    BY <2>1, <2>2
<1>6. Revising(c)' => Acting(c).id \in Iris
  BY ActingType DEF Operation
<1>7. \A i \in DOMAIN Changes(c)' : /\ FindsAt(c, i, Changes(c)[i].read)'
                                    /\ Changes(c)'[i].expected \in {0, Changes(c)'[i].read}
  BY <1>2, <1>4 DEF Sure
<1>8. Revising(c)' => Read(c, Acting(c).id)' = Read(c, Acting(c).id)
  BY <1>2, <1>5, <1>6
<1>9. "land" \notin Drafting \cup {"mint"}
  BY DEF Drafting
<1> QED
  BY <1>1, <1>2, <1>3, <1>7, <1>8, <1>9 DEF Sure

LEMMA SureReading ==
  ASSUME TypeInv, DraftInv, NEW c \in Calls, Sure(c),
         FindsHeld(c) \/ ComparesExpected(c) \/ ReadsCurrent(c), ~Ends(c, "refused")
  PROVE  Sure(c)'
<1> DEFINE x == Acting(c).id
<1>1. pc[c] \in Acts /\ pc[c] \in {"holds", "expected", "current"}
  BY DEF FindsHeld, ComparesExpected, ReadsCurrent, Acts
<1>2. /\ draft[c] \in Draft /\ Acting(c).op # "create" /\ x \in Iris
      /\ draft[c].types \in [Iris -> Artifact]
      /\ \A y \in Iris : draft[c].types[y] # Nothing => draft[c].types[y] = artifacts[y]
  BY <1>1, ActingType DEF TypeInv, TypeOK, DraftInv, Faithful, Operation, Draft, Sure
<1>3. /\ Read(c, x) \in Artifact /\ Kept(c, x) \in [Iris -> Artifact]
      /\ \A y \in Iris : Kept(c, x)[y] # Nothing => Kept(c, x)[y] = artifacts[y]
      /\ Holds(c, x) => DraftFinds(c, x, Read(c, x).revision)
      /\ Holds(c, x) => Found(c, x)
  BY <1>2, ReadType, ReadSure, DraftFound DEF TypeInv
<1>4. pc[c] \in {"expected", "current"} => Holds(c, x)
  BY DEF Sure, Revising
<1>5. CASE pc[c] \in {"expected", "current"} /\ ~Found(c, x)
  BY <1>3, <1>4, <1>5
<1>6. CASE Holds(c, x) /\ GoesTo(c, "expected") /\ UNCHANGED draft
  <2>1. draft' = [draft EXCEPT ![c] = draft[c]]
    BY <1>6 DEF TypeInv, TypeOK
  <2>2. Alone(c) /\ pc'[c] = "expected" /\ draft'[c] = draft[c] /\ store' = store
    BY <1>6, <2>1, GoesAlone DEF GoesTo, store
  <2> QED
    BY <1>1, <1>2, <1>6, <2>2, SureReads DEF Drafting
<1>7. CASE /\ pc[c] = "expected" /\ Acting(c).expected \in {0, Read(c, x).revision}
           /\ draft' = [draft EXCEPT ![c].types = Kept(c, x)] /\ GoesTo(c, "current")
  <2> DEFINE now == [draft[c] EXCEPT !.types = Kept(c, x)]
  <2>1. draft' = [draft EXCEPT ![c] = now]
    BY <1>7 DEF TypeInv, TypeOK
  <2>2. /\ now.put = draft[c].put /\ now.removed = draft[c].removed /\ now.left = draft[c].left
        /\ now.changes = draft[c].changes /\ now.types = Kept(c, x)
    BY <1>2 DEF Draft
  <2> HIDE DEF now
  <2>3. Alone(c) /\ pc'[c] = "current" /\ draft'[c] = now /\ store' = store
    BY <1>7, <2>1, GoesAlone DEF GoesTo, store
  <2> QED
    BY <1>1, <1>3, <1>4, <1>7, <2>2, <2>3, SureReads DEF Drafting
<1>8. CASE pc[c] = "current" /\ Revises(c, Kept(c, x), Read(c, x))
  <2> DEFINE current == Read(c, x)
             written == IF Acting(c).op = "append" THEN current.content \cup {c}
                        ELSE IF Acting(c).op = "write" THEN {c} ELSE {}
  <2>1. /\ current.revision \in Nat /\ current.revision + 1 \in Nat
        /\ current.landed \in Nat /\ written \in SUBSET Writers
    BY <1>3 DEF Artifact, Writers
  <2>2. Acted(c, Kept(c, x), current.revision, current.revision + 1, written, current.landed)
    BY <1>8 DEF Revises
  <2>3. DraftFinds(c, x, current.revision) /\ Acting(c).expected \in {0, current.revision}
    BY <1>3, <1>4, <1>8 DEF Sure, Revising
  <2> HIDE DEF written, current
  <2> QED
    BY <1>1, <1>3, <2>1, <2>2, <2>3, SureActed
<1>9. CASE /\ pc[c] = "current" /\ draft' = [draft EXCEPT ![c].current = Read(c, x)]
           /\ GoesTo(c, "type_holds")
  <2> DEFINE now == [draft[c] EXCEPT !.current = Read(c, x)]
  <2>1. draft' = [draft EXCEPT ![c] = now]
    BY <1>9 DEF TypeInv, TypeOK
  <2>2. /\ now.put = draft[c].put /\ now.removed = draft[c].removed /\ now.left = draft[c].left
        /\ now.changes = draft[c].changes /\ now.types = draft[c].types
        /\ now.current = Read(c, x)
    BY <1>2 DEF Draft
  <2> HIDE DEF now
  <2>3. Alone(c) /\ pc'[c] = "type_holds" /\ draft'[c] = now /\ store' = store
    BY <1>9, <2>1, GoesAlone DEF GoesTo, store
  <2>4. Acting(c).expected \in {0, Read(c, x).revision}
    BY <1>9 DEF Sure, Revising
  <2> QED
    BY <1>1, <1>2, <1>4, <1>9, <2>2, <2>3, <2>4, SureReads DEF Drafting
<1> QED
  BY <1>5, <1>6, <1>7, <1>8, <1>9 DEF FindsHeld, ComparesExpected, ReadsCurrent, Refused

LEMMA SureTyping ==
  ASSUME TypeInv, DraftInv, NEW c \in Calls, Sure(c),
         FindsTypeHeld(c) \/ ReadsType(c) \/ FindsFree(c), ~Ends(c, "refused")
  PROVE  Sure(c)'
<1> DEFINE x == Acting(c).id
           type == TypeOf[Acting(c).id]
<1>1. pc[c] \in Acts /\ pc[c] \in {"type_holds", "type_read", "free"}
  BY DEF FindsTypeHeld, ReadsType, FindsFree, Acts
<1>2. /\ draft[c] \in Draft /\ draft[c].current \in Artifact /\ x \in Iris
      /\ draft[c].types \in [Iris -> Artifact] /\ Acting(c) \in Operation /\ asked[c] \in Sets
      /\ Len(draft[c].changes) + 1 \in 1..Len(asked[c])
      /\ \A y \in Iris : draft[c].types[y] # Nothing => draft[c].types[y] = artifacts[y]
      /\ pc[c] = "free" => Acting(c).op = "create"
  <2>1. draft[c] \in Draft /\ asked[c] \in Sets
    BY <1>1 DEF TypeInv, TypeOK, Placed
  <2>2. Acting(c) \in Operation /\ Len(draft[c].changes) + 1 \in 1..Len(asked[c])
    BY <1>1, ActingType
  <2> QED
    BY <2>1, <2>2 DEF DraftInv, Faithful, Operation, Draft, Sure
<1>3. CASE pc[c] = "type_holds" /\ Holds(c, type) /\ GoesTo(c, "type_read") /\ UNCHANGED draft
  <2>1. draft' = [draft EXCEPT ![c] = draft[c]]
    BY <1>3 DEF TypeInv, TypeOK
  <2>2. Alone(c) /\ pc'[c] = "type_read" /\ draft'[c] = draft[c] /\ store' = store
    BY <1>3, <2>1, GoesAlone DEF GoesTo, store
  <2>3. Acting(c)' = Acting(c)
    BY <2>2 DEF Alone, Acting
  <2>4. Revising(c)' => /\ Holds(c, x) /\ Acting(c).expected \in {0, Read(c, x).revision}
                        /\ draft[c].current = Read(c, x)
    BY <1>3, <2>2, <2>3 DEF Sure, Revising
  <2> QED
    BY <1>1, <1>2, <1>3, <2>2, <2>4, SureReads DEF Drafting
<1>4. CASE ReadsType(c)
  <2>1. pc[c] = "type_read" /\ Holds(c, type)
    BY <1>4 DEF ReadsType, Sure
  <2>2. type \in Iris
    BY <1>1, <1>2, <2>1, TypesAssumption DEF TypeInv, Placed
  <2>3. /\ Found(c, type) /\ Kept(c, type) \in [Iris -> Artifact]
        /\ \A y \in Iris : Kept(c, type)[y] # Nothing => Kept(c, type)[y] = artifacts[y]
    BY <2>1, <2>2, ReadType, ReadSure DEF TypeInv
  <2>4. CASE Acting(c).op = "create" /\ draft' = [draft EXCEPT ![c].types = Kept(c, type)]
             /\ GoesTo(c, "free")
    <3> DEFINE now == [draft[c] EXCEPT !.types = Kept(c, type)]
    <3>1. draft' = [draft EXCEPT ![c] = now]
      BY <2>4 DEF TypeInv, TypeOK
    <3>2. /\ now.put = draft[c].put /\ now.removed = draft[c].removed /\ now.left = draft[c].left
          /\ now.changes = draft[c].changes /\ now.types = Kept(c, type)
      BY <1>2 DEF Draft
    <3> HIDE DEF now
    <3>3. Alone(c) /\ pc'[c] = "free" /\ draft'[c] = now /\ store' = store
      BY <2>4, <3>1, GoesAlone DEF GoesTo, store
    <3>4. ~Revising(c)'
      BY <3>3 DEF Revising
    <3> QED
      BY <2>3, <3>2, <3>3, <3>4, SureReads DEF Drafting
  <2>5. CASE Acting(c).op # "create" /\ Revises(c, Kept(c, type), draft[c].current)
    <3> DEFINE current == draft[c].current
               written == IF Acting(c).op = "append" THEN current.content \cup {c}
                          ELSE IF Acting(c).op = "write" THEN {c} ELSE {}
    <3>1. /\ current.revision \in Nat /\ current.revision + 1 \in Nat
          /\ current.landed \in Nat /\ written \in SUBSET Writers
      BY <1>2 DEF Artifact, Writers
    <3>2. Acted(c, Kept(c, type), current.revision, current.revision + 1, written, current.landed)
      BY <2>5 DEF Revises
    <3>3. Revising(c) /\ pc[c] # "expected"
      BY <2>1, <2>5 DEF Revising
    <3>4. /\ Holds(c, x) /\ current = Read(c, x)
          /\ Acting(c).expected \in {0, Read(c, x).revision}
      BY <2>1, <3>3 DEF Sure
    <3>5. DraftFinds(c, x, current.revision) /\ Acting(c).expected \in {0, current.revision}
      BY <1>2, <3>4, DraftFound
    <3> HIDE DEF written, current
    <3> QED
      BY <1>1, <2>3, <3>1, <3>2, <3>5, SureActed
  <2> QED
    BY <1>4, <2>3, <2>4, <2>5 DEF ReadsType
<1>5. CASE pc[c] = "free" /\ ~Holds(c, x) /\ Acted(c, draft[c].types, 0, 1, {c}, 0)
  <2>1. Acting(c).expected = 0
    <3>1. Len(draft[c].changes) + 1 \in DOMAIN asked[c]
      BY <1>2, SetsAssumption
    <3> QED
      BY <1>2, <1>5, <3>1, CreatesAssumption DEF Acting
  <2>2. DraftFinds(c, x, 0) /\ {c} \in SUBSET Writers
    BY <1>2, <1>5, DraftFound DEF Writers
  <2> QED
    BY <1>1, <1>2, <1>5, <2>1, <2>2, SureActed
<1> QED
  BY <1>3, <1>4, <1>5 DEF FindsTypeHeld, FindsFree, Refused

(* The ids minted are none of those held, and no two of them one: each is  *)
(* counted on from the highest held at its moment (journal.minted).        *)
LEMMA MintedFree ==
  ASSUME TypeInv, NEW moments \in Seq(Nat)
  PROVE  /\ \A e \in entries : \A i \in DOMAIN Minted(moments) : e.id # Minted(moments)[i]
         /\ \A i, j \in DOMAIN Minted(moments) : i # j => Minted(moments)[i] # Minted(moments)[j]
<1> DEFINE N == 1..Len(moments)
           upto(i) == {j \in 1..i : moments[j] = moments[i]}
           nth(i) == Cardinality(upto(i))
<1>1. /\ Len(moments) \in Nat /\ DOMAIN moments = N /\ \A i \in N : moments[i] \in Nat
  OBVIOUS
<1>2. \A i \in N : LastSeq(moments[i]) \in Nat
                   /\ \A e \in entries : e.id[1] = moments[i] => e.id[2] <= LastSeq(moments[i])
  BY <1>1, LastSeqType
<1>3. ASSUME NEW i \in N PROVE IsFiniteSet(upto(i)) /\ nth(i) \in Nat /\ nth(i) # 0
  <2>1. i \in Nat /\ IsFiniteSet(1..i) /\ i \in upto(i)
    BY <1>1, FS_Interval
  <2>2. IsFiniteSet(upto(i))
    BY <2>1, FS_Subset
  <2> HIDE DEF upto
  <2> QED
    BY <2>1, <2>2, FS_CardinalityType, FS_EmptySet
<1>4. ASSUME NEW i \in N, NEW j \in N, i < j, moments[i] = moments[j] PROVE nth(i) < nth(j)
  <2>1. upto(i) \subseteq upto(j) /\ j \in upto(j) /\ j \notin upto(i)
    BY <1>1, <1>4
  <2>2. IsFiniteSet(upto(j)) /\ nth(i) \in Nat /\ nth(j) \in Nat
    BY <1>3
  <2> HIDE DEF upto
  <2>3. nth(i) <= nth(j) /\ nth(i) # nth(j)
    BY <2>1, <2>2, FS_Subset
  <2> HIDE DEF nth
  <2> QED
    BY <2>2, <2>3
<1>5. /\ DOMAIN Minted(moments) = N
      /\ \A i \in N : Minted(moments)[i] = <<moments[i], LastSeq(moments[i]) + nth(i)>>
  BY <1>1, Zenon DEF Minted
<1> HIDE DEF nth, upto, N
<1>6. \A i \in N : i \in Nat
  BY <1>1 DEF N
<1>7. ASSUME NEW e \in entries, NEW i \in N, e.id = Minted(moments)[i] PROVE FALSE
  <2>1. e.id[1] = moments[i] /\ e.id[2] = LastSeq(moments[i]) + nth(i)
    BY <1>5, <1>7
  <2> QED
    BY <1>2, <1>3, <2>1
<1>8. ASSUME NEW i \in N, NEW j \in N, i # j, Minted(moments)[i] = Minted(moments)[j] PROVE FALSE
  <2>1. moments[i] = moments[j] /\ LastSeq(moments[i]) + nth(i) = LastSeq(moments[j]) + nth(j)
    BY <1>5, <1>8
  <2>2. nth(i) = nth(j)
    BY <1>2, <1>3, <2>1
  <2>3. i < j \/ j < i
    BY <1>6, <1>8
  <2> QED
    BY <1>3, <1>4, <2>1, <2>2, <2>3
<1> QED
  BY <1>5, <1>7, <1>8

LEMMA SureChecks ==
  ASSUME TypeInv, DraftInv, NEW c \in Calls, Sure(c), lock = c, Checks(c), ~Ends(c, "refused")
  PROVE  Sure(c)'
<1>1. PICK moments \in [DOMAIN Changes(c) -> Moments] : draft' = [draft EXCEPT ![c].moments = moments]
  BY DEF Checks, Refused
<1>2. GoesTo(c, "mint") /\ draft[c] \in Draft
  BY DEF Checks, Refused, TypeInv, TypeOK
<1> DEFINE now == [draft[c] EXCEPT !.moments = moments]
<1>3. draft' = [draft EXCEPT ![c] = now]
  BY <1>1 DEF TypeInv, TypeOK
<1>4. /\ now.put = draft[c].put /\ now.removed = draft[c].removed /\ now.left = draft[c].left
      /\ now.changes = draft[c].changes /\ now.types = draft[c].types
  BY <1>2 DEF Draft
<1> HIDE DEF now
<1>5. Alone(c) /\ pc'[c] = "mint" /\ draft'[c] = now /\ store' = store
  BY <1>2, <1>3, GoesAlone DEF GoesTo, store
<1>6. \A y \in Iris : draft[c].types[y] # Nothing => draft[c].types[y] = artifacts[y]
  BY DEF Sure
<1> QED
  BY <1>4, <1>5, <1>6, SureReads DEF Revising

LEMMA SureMints ==
  ASSUME TypeInv, NEW c \in Calls, Sure(c), Mints(c)
  PROVE  Sure(c)'
<1>1. /\ stamps'[c] = Minted(draft[c].moments) /\ pc'[c] = "land"
      /\ draft' = draft /\ asked' = asked /\ store' = store
  BY DEF Mints, TypeInv, TypeOK, store
<1>2. draft[c].moments \in Seq(Nat)
  BY DEF TypeInv, TypeOK, Draft
<1>3. ~IdHeld(c)'
  BY <1>1, <1>2, MintedFree DEF IdHeld, store
<1>4. artifacts' = artifacts /\ Changes(c)' = Changes(c)
  BY <1>1 DEF store, Changes
<1>5. \A i, revision : FindsAt(c, i, revision)' = FindsAt(c, i, revision)
  BY <1>4 DEF FindsAt, Earlier
<1>6. ~Revising(c)'
  BY <1>1 DEF Revising
<1> QED
  BY <1>1, <1>3, <1>4, <1>5, <1>6 DEF Sure

(* A sure call finds no conflict when it lands.                            *)
LEMMA SureLands ==
  ASSUME TypeInv, NEW c \in Calls, Sure(c), pc[c] = "land"
  PROVE  ~Conflicts(c)
<1>1. ~IdHeld(c) /\ ~Moved(c)
  BY DEF Sure, Moved
<1>2. ~TypeMoved(c)
  <2> SUFFICES ASSUME NEW t \in Through(c) PROVE artifacts[t].revision = draft[c].types[t].revision
    BY DEF TypeMoved
  <2>1. draft[c].types[t] # Nothing /\ \E x \in Left(c) \ Types : t = TypeOf[x]
    BY DEF Through
  <2>2. Left(c) \subseteq Iris
    BY DEF Left, TypeInv, TypeOK, Draft
  <2>3. t \in Iris
    BY <2>1, <2>2, TypesAssumption
  <2> QED
    BY <2>1, <2>3 DEF Sure
<1> QED
  BY <1>1, <1>2 DEF Conflicts

LEMMA SureBlank ==
  ASSUME NEW c \in Calls, draft'[c] = Blank, asked'[c] \in Seq(Operation),
         pc'[c] = FirstStep(asked'[c][1])
  PROVE  Sure(c)'
<1>1. /\ Blank.changes = <<>> /\ Len(Blank.changes) = 0 /\ DOMAIN Blank.changes = {}
      /\ \A x \in Iris : Blank.types[x] = Nothing
  BY DEF Blank
<1>2. Acting(c)' = asked'[c][1] /\ Changes(c)' = <<>>
  BY <1>1 DEF Acting, Changes
<1>3. pc'[c] \in {"holds", "free", "type_holds"} /\ ~Revising(c)'
  BY <1>2 DEF FirstStep, Revising
<1> QED
  BY <1>1, <1>2, <1>3 DEF Sure, Drafting

(* What the invariants of the lock are kept with.                          *)
LockedInv == AnswerInv /\ LockInv

(* A step of a call that is sure leaves it sure, or without the lock.      *)
LEMMA SureStep ==
  ASSUME LockedInv, NEW c \in Calls, lock = c, Step(c) \/ GivesUp(c) \/ Crashes(c)
  PROVE  lock' # c \/ Sure(c)'
<1>1. /\ TypeInv /\ DraftInv /\ Sure(c) /\ pc[c] \in Drafting \cup {"mint", "land"}
      /\ c # Nobody
  BY CallsAssumption DEF LockedInv, AnswerInv, HistoryInv, LockInv, Sure
<1>2. ASSUME NEW answer, Ends(c, answer) PROVE lock' # c
  BY <1>1, <1>2 DEF Ends
<1>3. CASE FindsHeld(c) \/ ComparesExpected(c) \/ ReadsCurrent(c)
  BY <1>1, <1>2, <1>3, SureReading
<1>4. CASE FindsTypeHeld(c) \/ ReadsType(c) \/ FindsFree(c)
  BY <1>1, <1>2, <1>4, SureTyping
<1>5. CASE Checks(c)
  BY <1>1, <1>2, <1>5, SureChecks
<1>6. CASE Mints(c)
  BY <1>1, <1>6, SureMints
<1>7. CASE Lands(c)
  <2>1. ~Conflicts(c)
    BY <1>1, <1>7, SureLands DEF Lands
  <2>2. Commits(c) => lock' # c
    BY <1>1 DEF Commits
  <2> QED
    BY <1>2, <1>7, <2>1, <2>2 DEF Lands, Refused
<1>8. ~Relocks(c)
  BY <1>1 DEF Relocks, Drafting
<1>9. CASE Answers(c) \/ GivesUp(c) \/ Crashes(c)
  BY <1>2, <1>9 DEF Answers, GivesUp, Crashes
<1> QED
  BY <1>3, <1>4, <1>5, <1>6, <1>7, <1>8, <1>9 DEF Step

(* A step of another call than the one that holds the lock leaves the lock *)
(* held, the store as it stands and the holder's draft alone.              *)
LEMMA OthersStep ==
  ASSUME TypeInv, NEW c \in Calls, NEW d \in Calls, c # d, Ask(d) \/ Step(d) \/ GivesUp(d) \/ Crashes(d)
  PROVE  /\ draft'[c] = draft[c] /\ pc'[c] = pc[c] /\ asked'[c] = asked[c] /\ stamps'[c] = stamps[c]
         /\ outcome'[c] = outcome[c]
         /\ lock = c => lock' = c /\ store' = store
         /\ lock' = c => lock = c
<1> DEFINE Same == /\ draft'[c] = draft[c] /\ pc'[c] = pc[c] /\ asked'[c] = asked[c]
                   /\ stamps'[c] = stamps[c] /\ outcome'[c] = outcome[c]
                   /\ lock = c => lock' = c /\ store' = store
                   /\ lock' = c => lock = c
<1>1. ASSUME NEW answer, Ends(d, answer) PROVE Same
  BY <1>1, CallsAssumption DEF Ends, TypeInv, TypeOK, store
<1>2. ASSUME NEW step, GoesTo(d, step), NEW now, draft' = [draft EXCEPT ![d] = now] PROVE Same
  BY <1>2 DEF GoesTo, TypeInv, TypeOK, store
<1>3. ASSUME NEW step, GoesTo(d, step), draft' = draft PROVE Same
  BY <1>3 DEF GoesTo, TypeInv, TypeOK, store
<1>4. ASSUME NEW kept, NEW read, NEW revision, NEW content, NEW seen,
             Acted(d, kept, read, revision, content, seen)
      PROVE  Same
  BY <1>2, <1>4 DEF Acted
<1>5. ASSUME NEW kept, NEW current, Revises(d, kept, current) PROVE Same
  BY <1>4, <1>5 DEF Revises
<1>6. CASE Ask(d) \/ Mints(d) \/ Relocks(d)
  BY <1>6, CallsAssumption DEF Ask, Mints, Relocks, TypeInv, TypeOK, store
<1>7. CASE GivesUp(d) \/ Crashes(d) \/ Answers(d)
  BY <1>1, <1>7 DEF GivesUp, Crashes, Answers
<1>8. CASE FindsHeld(d) \/ FindsTypeHeld(d)
  BY <1>1, <1>3, <1>8 DEF FindsHeld, FindsTypeHeld, Refused
<1>9. CASE ComparesExpected(d)
  <2>1. CASE draft' = [draft EXCEPT ![d].types = Kept(d, Acting(d).id)] /\ GoesTo(d, "current")
    BY <2>1 DEF GoesTo, TypeInv, TypeOK, store
  <2> QED
    BY <1>1, <1>9, <2>1 DEF ComparesExpected, Refused, Escaped
<1>10. CASE ReadsCurrent(d)
  <2>1. CASE draft' = [draft EXCEPT ![d].current = Read(d, Acting(d).id)] /\ GoesTo(d, "type_holds")
    BY <2>1 DEF GoesTo, TypeInv, TypeOK, store
  <2> QED
    BY <1>1, <1>5, <1>10, <2>1 DEF ReadsCurrent, Escaped
<1>11. CASE ReadsType(d)
  <2>1. CASE draft' = [draft EXCEPT ![d].types = Kept(d, TypeOf[Acting(d).id])] /\ GoesTo(d, "free")
    BY <2>1 DEF GoesTo, TypeInv, TypeOK, store
  <2> QED
    BY <1>1, <1>5, <1>11, <2>1 DEF ReadsType, Escaped
<1>12. CASE FindsFree(d)
  BY <1>1, <1>4, <1>12 DEF FindsFree, Refused
<1>13. CASE Checks(d)
  <2>1. ASSUME NEW moments, draft' = [draft EXCEPT ![d].moments = moments], NEW step, GoesTo(d, step)
        PROVE  Same
    BY <2>1 DEF GoesTo, TypeInv, TypeOK, store
  <2> QED
    BY <1>1, <1>13, <2>1 DEF Checks, Refused
<1>14. CASE Lands(d)
  <2>1. CASE Commits(d)
    <3>1. lock # c
      BY <1>14, CallsAssumption DEF Lands
    <3> QED
      BY <2>1, <3>1, CallsAssumption DEF Commits, TypeInv, TypeOK
  <2> QED
    BY <1>1, <1>3, <1>14, <2>1 DEF Lands, Refused, Escaped
<1> QED
  BY <1>6, <1>7, <1>8, <1>9, <1>10, <1>11, <1>12, <1>13, <1>14 DEF Step

(* The lock is taken by a call that drafts its set anew, and by no other.  *)
LEMMA TakesLock ==
  ASSUME TypeInv, NEW c \in Calls, lock # c, lock' = c, Ask(c) \/ Step(c) \/ GivesUp(c) \/ Crashes(c)
  PROVE  Relocks(c)
<1>1. ASSUME NEW answer, Ends(c, answer) PROVE FALSE
  BY <1>1 DEF Ends
<1>2. ASSUME NEW step, GoesTo(c, step) PROVE FALSE
  BY <1>2 DEF GoesTo
<1>3. ASSUME NEW kept, NEW read, NEW revision, NEW content, NEW seen,
             Acted(c, kept, read, revision, content, seen)
      PROVE  FALSE
  BY <1>2, <1>3 DEF Acted
<1>4. ASSUME NEW kept, NEW current, Revises(c, kept, current) PROVE FALSE
  BY <1>3, <1>4 DEF Revises
<1>5. ~Ask(c) /\ ~Mints(c) /\ ~Commits(c)
  BY CallsAssumption DEF Ask, Mints, Commits
<1>6. ~(GivesUp(c) \/ Crashes(c) \/ Answers(c))
  BY <1>1 DEF GivesUp, Crashes, Answers
<1>7. ~(FindsHeld(c) \/ FindsTypeHeld(c) \/ ComparesExpected(c))
  BY <1>1, <1>2 DEF FindsHeld, FindsTypeHeld, ComparesExpected, Refused, Escaped
<1>8. ~(ReadsCurrent(c) \/ ReadsType(c))
  BY <1>1, <1>2, <1>4 DEF ReadsCurrent, ReadsType, Escaped
<1>9. ~(FindsFree(c) \/ Checks(c))
  BY <1>1, <1>2, <1>3 DEF FindsFree, Checks, Refused
<1>10. ~Lands(c)
  BY <1>1, <1>2, <1>5 DEF Lands, Refused, Escaped
<1> QED
  BY <1>5, <1>6, <1>7, <1>8, <1>9, <1>10 DEF Step

LEMMA LockStep == LockedInv /\ [Next]_vars => LockedInv'
<1> SUFFICES ASSUME LockedInv, [Next]_vars PROVE LockedInv'
  OBVIOUS
<1>1. AnswerInv' /\ TypeInv
  BY AnswerStep DEF LockedInv, AnswerInv, HistoryInv
<1> SUFFICES ASSUME NEW c \in Calls, lock' = c PROVE Sure(c)'
  BY <1>1 DEF LockedInv, LockInv
<1>2. CASE UNCHANGED vars
  BY <1>2, SureSame DEF vars, store, LockedInv, LockInv
<1>3. ASSUME NEW d \in Calls, d # c, Ask(d) \/ Step(d) \/ GivesUp(d) \/ Crashes(d)
      PROVE  Sure(c)'
  BY <1>1, <1>3, OthersStep, SureSame DEF LockedInv, LockInv
<1>4. CASE lock = c /\ (Step(c) \/ GivesUp(c) \/ Crashes(c))
  BY <1>4, SureStep
<1>5. CASE lock = c /\ Ask(c)
  BY <1>5 DEF Ask, LockedInv, LockInv, Sure, Drafting
<1>6. CASE lock # c /\ (Ask(c) \/ Step(c) \/ GivesUp(c) \/ Crashes(c))
  <2>1. Relocks(c)
    BY <1>1, <1>6, TakesLock
  <2>2. draft'[c] = Blank /\ asked'[c] \in Seq(Operation) /\ pc'[c] = FirstStep(asked'[c][1])
    BY <1>1, <2>1 DEF Relocks, TypeInv, TypeOK
  <2> QED
    BY <2>2, SureBlank
<1> QED
  BY <1>2, <1>3, <1>4, <1>5, <1>6 DEF Next, AllAnswered

LEMMA LockInit == Init => LockedInv
  BY HistoryInit, CallsAssumption DEF LockedInv, LockInv, AnswerInv, Answered, Made, Init

(* A change that says the revision it read lands over that revision, when  *)
(* its set is drafted again under the write lock: between the comparison   *)
(* made of it then and the landing, nothing moves (write.land).            *)
THEOREM ExpectedUnderLock == Spec => ExpectedKeptUnderLock
<1> DEFINE A == \A c \in Calls : Landing(c) /\ lock = c =>
             \A i \in DOMAIN Changes(c) :
               Changes(c)[i].expected = 0 \/ FindsAt(c, i, Changes(c)[i].expected)
<1>1. LockedInv => A
  BY DEF LockedInv, LockInv, Sure
<1>2. LockedInv /\ [Next]_vars => [A]_vars
  BY <1>1
<1> HIDE DEF A
<1>3. Spec => [][A]_vars
  BY <1>2, LockInit, LockStep, PTL DEF Spec
<1> QED
  BY <1>3 DEF ExpectedKeptUnderLock, A

(* A sure call is never answered by an error that is not kb's own.         *)
LEMMA SureAnswered ==
  ASSUME LockedInv, NEW c \in Calls, lock = c, Step(c) \/ GivesUp(c) \/ Crashes(c)
  PROVE  outcome'[c] # "escaped"
<1>1. /\ TypeInv /\ DraftInv /\ Sure(c) /\ pc[c] \in Drafting \cup {"mint", "land"}
      /\ outcome[c] = "none"
  <2>1. TypeInv /\ DraftInv /\ Sure(c) /\ Answered(c)
    BY DEF LockedInv, AnswerInv, HistoryInv, LockInv
  <2> QED
    BY <2>1 DEF Sure, Answered, Drafting
<1>2. ASSUME NEW answer, answer # "escaped", Ends(c, answer) PROVE outcome'[c] # "escaped"
  BY <1>1, <1>2 DEF Ends, TypeInv, TypeOK
<1>3. outcome' = outcome => outcome'[c] # "escaped"
  BY <1>1
<1>4. ASSUME NEW kept, NEW read, NEW revision, NEW content, NEW seen,
             Acted(c, kept, read, revision, content, seen)
      PROVE  outcome' = outcome
  BY <1>4 DEF Acted, GoesTo
<1>5. ASSUME NEW kept, NEW current, Revises(c, kept, current) PROVE outcome' = outcome
  BY <1>4, <1>5 DEF Revises
<1>6. pc[c] \in Acts => Acting(c).id \in Iris
  BY <1>1, ActingType DEF Operation
<1>7. CASE FindsHeld(c) \/ FindsTypeHeld(c)
  BY <1>2, <1>3, <1>7 DEF FindsHeld, FindsTypeHeld, GoesTo, Refused
<1>8. CASE ComparesExpected(c) \/ ReadsCurrent(c)
  <2>1. pc[c] \in Acts /\ Revising(c)
    BY <1>8 DEF ComparesExpected, ReadsCurrent, Acts, Revising
  <2>2. Found(c, Acting(c).id)
    BY <1>1, <1>6, <2>1, ReadSure DEF Sure
  <2> QED
    BY <1>2, <1>3, <1>5, <1>8, <2>2 DEF ComparesExpected, ReadsCurrent, GoesTo, Refused
<1>9. CASE ReadsType(c)
  <2>1. pc[c] \in Acts /\ pc[c] = "type_read"
    BY <1>9 DEF ReadsType, Acts
  <2>2. TypeOf[Acting(c).id] \in Iris
    BY <1>1, <1>6, <2>1, TypesAssumption DEF TypeInv, Placed
  <2>3. Found(c, TypeOf[Acting(c).id])
    BY <1>1, <2>1, <2>2, ReadSure DEF Sure
  <2> QED
    BY <1>3, <1>5, <1>9, <2>3 DEF ReadsType, GoesTo
<1>10. CASE FindsFree(c)
  BY <1>2, <1>3, <1>4, <1>10 DEF FindsFree, Refused
<1>11. CASE Checks(c) \/ Mints(c) \/ Relocks(c)
  BY <1>2, <1>3, <1>11 DEF Checks, Mints, Relocks, GoesTo, Refused
<1>12. CASE Lands(c)
  <2>1. ~Conflicts(c)
    BY <1>1, <1>12, SureLands DEF Lands
  <2> QED
    BY <1>2, <1>3, <1>12, <2>1 DEF Lands, Refused, Commits
<1>13. CASE Answers(c) \/ GivesUp(c) \/ Crashes(c)
  BY <1>2, <1>13 DEF Answers, GivesUp, Crashes
<1> QED
  BY <1>7, <1>8, <1>9, <1>10, <1>11, <1>12, <1>13 DEF Step

(* Under the write lock no read finds its artifact gone and no landing     *)
(* conflicts, so a set drafted again there lands or is refused: a set is   *)
(* drafted at most twice, and the Conflict write.land does not catch never *)
(* comes (write.land, port.Conflict).                                      *)
THEOREM NothingEscapesHeld == Spec => NothingEscapesTheLock
<1> DEFINE A == \A c \in Calls : lock = c => outcome'[c] # "escaped"
<1>1. LockedInv /\ [Next]_vars => [A]_vars
  <2> SUFFICES ASSUME LockedInv, Next, NEW c \in Calls, lock = c, ~UNCHANGED vars
               PROVE  outcome'[c] # "escaped"
    OBVIOUS
  <2>1. PICK d \in Calls : Ask(d) \/ Step(d) \/ GivesUp(d) \/ Crashes(d)
    BY DEF Next, AllAnswered
  <2>2. TypeInv /\ pc[c] # "idle" /\ outcome[c] = "none"
    <3>1. TypeInv /\ Sure(c) /\ Answered(c)
      BY DEF LockedInv, AnswerInv, HistoryInv, LockInv
    <3> QED
      BY <3>1 DEF Sure, Answered, Drafting
  <2>3. CASE d # c
    BY <2>1, <2>2, <2>3, OthersStep
  <2>4. CASE d = c
    BY <2>1, <2>2, <2>4, SureAnswered DEF Ask
  <2> QED
    BY <2>3, <2>4
<1> HIDE DEF A
<1>2. Spec => [][A]_vars
  BY <1>1, LockInit, LockStep, PTL DEF Spec
<1> QED
  BY <1>2 DEF NothingEscapesTheLock, A

-----------------------------------------------------------------------------
(* Where no IRI is created twice.  The revisions of each artifact then     *)
(* only rise, so that what stands at the revision a call read is what the  *)
(* call read, and what its changes are made over is what they land over.   *)

CreatedOnce == \A e, f \in entries :
  e.op = "create" /\ f.op = "create" /\ e.artifact = f.artifact => e = f

(* The history ends.                                                       *)
Bounded == \E b \in Nat : \A e \in entries : e.set <= b /\ e.step <= b

Rising == \A e, f \in entries : e.artifact = f.artifact /\ Precedes(e, f) => e.revision < f.revision

RisenInv == HistoryInv /\ Bounded /\ Rising

(* A set of numbers has a lowest one.                                      *)
LEMMA LowestExists ==
  ASSUME NEW T \in SUBSET Nat, T # {}
  PROVE  \E n \in T : \A m \in T : n <= m
<1>1. PICK n \in T : \A m \in T : <<m, n>> \notin OpToRel(<, Nat)
  BY WFMin, NatLessThanWellFounded, Zenon
<1>2. \A m \in T : ~(m < n)
  BY <1>1, Zenon DEF OpToRel
<1> QED
  BY <1>2

(* Some of the history's entries have a first one, and a last.             *)
LEMMA FirstExists ==
  ASSUME TypeInv, Numbered, NEW told \in SUBSET entries, told # {}
  PROVE  \E e \in told : \A f \in told : f = e \/ Precedes(e, f)
<1>1. \A e \in told : e.set \in Nat /\ e.step \in Nat /\ e \in entries
  BY DEF TypeInv, TypeOK, Entry
<1> DEFINE S == {e.set : e \in told}
<1>2. PICK s \in S : \A n \in S : s <= n
  <2>1. S \in SUBSET Nat /\ S # {}
    BY <1>1
  <2> HIDE DEF S
  <2> QED
    BY <2>1, LowestExists
<1> DEFINE T == {e.step : e \in {f \in told : f.set = s}}
<1>3. PICK t \in T : \A n \in T : t <= n
  <2>1. T \in SUBSET Nat /\ T # {}
    BY <1>1
  <2> HIDE DEF T
  <2> QED
    BY <2>1, LowestExists
<1>4. PICK e \in told : e.set = s /\ e.step = t
  OBVIOUS
<1>5. ASSUME NEW f \in told PROVE f = e \/ Precedes(e, f)
  <2>1. s <= f.set /\ (f.set = s => t <= f.step)
    BY <1>2, <1>3
  <2> QED
    BY <1>1, <1>4, <2>1 DEF Precedes, Numbered
<1> QED
  BY <1>5

LEMMA LastExists ==
  ASSUME TypeInv, Numbered, Bounded, NEW told \in SUBSET entries, told # {}
  PROVE  LastOf(told) \in told /\ \A f \in told : f = LastOf(told) \/ Precedes(f, LastOf(told))
<1>1. \A e \in told : e.set \in Nat /\ e.step \in Nat /\ e \in entries
  BY DEF TypeInv, TypeOK, Entry
<1>2. PICK b \in Nat : \A e \in told : e.set <= b /\ e.step <= b
  BY DEF Bounded
<1> DEFINE S == {e.set : e \in told}
<1>3. PICK s \in S : \A n \in S : n <= s
  <2>1. S \in SUBSET Nat /\ S # {} /\ \A n \in S : n <= b
    BY <1>1, <1>2
  <2> HIDE DEF S
  <2> QED
    BY <2>1, HighestExists
<1> DEFINE T == {e.step : e \in {f \in told : f.set = s}}
<1>4. PICK t \in T : \A n \in T : n <= t
  <2>1. T \in SUBSET Nat /\ T # {} /\ \A n \in T : n <= b
    BY <1>1, <1>2
  <2> HIDE DEF T
  <2> QED
    BY <2>1, HighestExists
<1>5. PICK e \in told : e.set = s /\ e.step = t
  OBVIOUS
<1>6. ASSUME NEW f \in told PROVE f = e \/ Precedes(f, e)
  <2>1. f.set <= s /\ (f.set = s => f.step <= t)
    BY <1>3, <1>4
  <2> QED
    BY <1>1, <1>5, <2>1 DEF Precedes, Numbered
<1>7. LastOf(told) = e
  BY <1>6, LastIs DEF TypeInv, TypeOK
<1> QED
  BY <1>6, <1>7

(* With an IRI created once, nothing follows its removal, and each of its  *)
(* entries is a revision on from the one before.                           *)
LEMMA Rises == HistoryInv /\ Bounded /\ CreatedOnce => Rising
<1> SUFFICES ASSUME HistoryInv, Bounded, CreatedOnce,
                    NEW x, {f \in Told(x) : \E e \in Told(x) : Precedes(e, f) /\ ~(e.revision < f.revision)} # {}
             PROVE  FALSE
  BY DEF Rising, Told
<1> DEFINE Bad == {f \in Told(x) : \E e \in Told(x) : Precedes(e, f) /\ ~(e.revision < f.revision)}
<1>1. TypeInv /\ Numbered /\ HistoryUnbroken
  BY DEF HistoryInv
<1>2. Told(x) \in SUBSET entries /\ Bad \in SUBSET entries /\ Bad \subseteq Told(x)
  BY DEF Told
<1>3. PICK f \in Bad : \A g \in Bad : g = f \/ Precedes(f, g)
  BY <1>1, <1>2, FirstExists
<1>4. PICK e \in Told(x) : Precedes(e, f) /\ ~(e.revision < f.revision)
  BY <1>3
<1>5. \A g \in Told(x) : /\ g \in entries /\ g.artifact = x /\ g.set \in Nat /\ g.step \in Nat
                         /\ g.revision \in Nat
  BY <1>1 DEF Told, TypeInv, TypeOK, Entry
<1> DEFINE earlier == {g \in Told(x) : Precedes(g, f)}
<1>6. /\ f \in Told(x)
      /\ earlier # {} => /\ f.revision = LeftAt(LastOf(earlier)) + 1
                         /\ f.op = "create" <=> LeftAt(LastOf(earlier)) = 0
  BY <1>1, <1>2, <1>3, <1>5 DEF HistoryUnbroken
<1>7. PICK g \in earlier : /\ LastOf(earlier) = g
                           /\ \A h \in earlier : h = g \/ Precedes(h, g)
  <2>1. earlier \in SUBSET entries /\ earlier # {}
    BY <1>4, <1>5
  <2> HIDE DEF earlier
  <2> QED
    BY <1>1, <2>1, LastExists
<1>8. PICK first \in Told(x) : \A h \in Told(x) : h = first \/ Precedes(first, h)
  BY <1>1, <1>2, <1>4, FirstExists
<1>9. first.op = "create" /\ first # f
  <2>1. {h \in Told(first.artifact) : Precedes(h, first)} = {}
    BY <1>5, <1>8 DEF Precedes
  <2>2. first.op = "create"
    BY <1>1, <1>5, <2>1 DEF HistoryUnbroken
  <2> QED
    BY <1>4, <1>5, <1>6, <1>8, <2>2 DEF Precedes
<1>10. f.op # "create"
  BY <1>5, <1>6, <1>9 DEF CreatedOnce
<1>11. f.revision = g.revision + 1
  BY <1>6, <1>7, <1>10 DEF LeftAt
<1>12. g \notin Bad
  BY <1>3, <1>5, <1>6, <1>7 DEF Precedes
<1>13. e \in earlier
  BY <1>4
<1>14. e = g \/ e.revision < g.revision
  BY <1>7, <1>12, <1>13
<1> QED
  BY <1>4, <1>5, <1>7, <1>11, <1>14

LEMMA BoundedInit == Init => Bounded
<1> SUFFICES ASSUME Init PROVE Bounded
  OBVIOUS
<1> DEFINE b == Len(Before) + 1
<1>1. b \in Nat /\ 1 <= b /\ \A i \in DOMAIN Before : i <= b
  BY BeforeAssumption
<1>2. \A e \in entries : e.set = 1 /\ \E i \in DOMAIN Before : e.step = i
  BY DEF Init
<1> HIDE DEF b
<1> QED
  BY <1>1, <1>2 DEF Bounded

LEMMA BoundedStep == HistoryInv /\ Bounded /\ [Next]_vars => Bounded'
<1> SUFFICES ASSUME HistoryInv, Bounded, [Next]_vars, store' # store PROVE Bounded'
  BY DEF Bounded, store
<1>1. PICK c \in Calls : pc[c] = "land" /\ Commits(c)
  BY StoreStep DEF HistoryInv
<1> DEFINE n == Len(Changes(c))
<1>2. n \in Nat /\ \A i \in DOMAIN Changes(c) : i <= n
  <2>1. Changes(c) \in Seq(Change)
    BY DEF HistoryInv, TypeInv, TypeOK, Draft, Changes
  <2> QED
    BY <2>1
<1> HIDE DEF n
<1>3. /\ entries' = entries \cup {EntryOf(c, i) : i \in DOMAIN Changes(c)} /\ sets \in Nat
      /\ \A e \in entries : e.set <= sets
      /\ \A e \in entries : e.set \in Nat /\ e.step \in Nat
  BY <1>1, LandingEntries DEF HistoryInv, Numbered, Entry
<1>4. \A i \in DOMAIN Changes(c) : EntryOf(c, i).set = sets + 1 /\ EntryOf(c, i).step = i
  BY DEF EntryOf
<1>5. PICK b \in Nat : \A e \in entries : e.set <= b /\ e.step <= b
  BY DEF Bounded
<1> DEFINE high == b + n + sets + 1
<1>6. high \in Nat /\ b <= high /\ n <= high /\ sets + 1 <= high
  BY <1>2, <1>3, <1>5
<1>7. \A e \in entries : e.set <= high /\ e.step <= high
  BY <1>2, <1>3, <1>5
<1>8. DOMAIN Changes(c) \subseteq Nat
  BY DEF HistoryInv, TypeInv, TypeOK, Draft, Changes
<1>9. \A i \in DOMAIN Changes(c) : i <= high
  BY <1>2, <1>3, <1>5, <1>8
<1> HIDE DEF high
<1> QED
  BY <1>3, <1>4, <1>6, <1>7, <1>9 DEF Bounded

(* What was read of an artifact: a revision its history tells of, and what *)
(* stands there for as long as that revision does.                         *)
AsSeen(x, seen) ==
  /\ IF seen.revision = 0 THEN seen = Nothing ELSE \E e \in Told(x) : seen.revision <= e.revision
  /\ artifacts[x].revision = seen.revision => artifacts[x] = seen

(* What stands is as seen, and what was seen stays so as sets land.        *)
LEMMA StandsSeen ==
  ASSUME HistoryInv, Bounded, NEW x \in Iris
  PROVE  AsSeen(x, artifacts[x]) /\ AsSeen(x, Nothing)
<1>1. /\ Stands(artifacts[x]) /\ Nothing.revision = 0
      /\ artifacts[x].revision = IF Told(x) = {} THEN 0 ELSE LeftAt(LastOf(Told(x)))
  BY DEF HistoryInv, DraftInv, HistoryUnbroken, Nothing
<1>2. Told(x) # {} => LastOf(Told(x)) \in Told(x)
  BY LastExists DEF HistoryInv, Told
<1>3. ASSUME artifacts[x].revision # 0
      PROVE  \E e \in Told(x) : artifacts[x].revision <= e.revision
  <2>1. LastOf(Told(x)) \in Told(x) /\ artifacts[x].revision = LastOf(Told(x)).revision
    BY <1>1, <1>2, <1>3 DEF LeftAt
  <2>2. artifacts[x].revision \in Nat
    BY DEF HistoryInv, TypeInv, TypeOK, Artifact
  <2> QED
    BY <2>1, <2>2
<1> QED
  BY <1>1, <1>3 DEF AsSeen, Stands

On(c, x) == {j \in DOMAIN Changes(c) : Changes(c)[j].id = x}

(* A call's changes to an artifact have a first one and a last.            *)
LEMMA OnEnds ==
  ASSUME TypeInv, NEW c \in Calls, NEW x, On(c, x) # {}
  PROVE  /\ \E k \in On(c, x) : Earlier(c, k) = {}
         /\ \E j \in On(c, x) : LastTo(draft[c], j)
<1>1. Changes(c) \in Seq(Change)
  BY DEF TypeInv, TypeOK, Draft, Changes
<1> DEFINE n == Len(Changes(c))
<1>2. n \in Nat /\ DOMAIN Changes(c) = 1..n /\ On(c, x) \in SUBSET Nat /\ \A j \in On(c, x) : j <= n
  BY <1>1 DEF On
<1> HIDE DEF n
<1>3. PICK k \in On(c, x) : \A i \in On(c, x) : k <= i
  BY <1>2, LowestExists
<1>4. PICK j \in On(c, x) : \A i \in On(c, x) : i <= j
  BY <1>2, HighestExists
<1>5. Earlier(c, k) = {}
  BY <1>2, <1>3 DEF Earlier, On
<1>6. LastTo(draft[c], j)
  BY <1>4 DEF LastTo, On, Changes
<1> QED
  BY <1>5, <1>6

LEMMA SeenStays ==
  ASSUME RisenInv, RisenInv', NEW c \in Calls, pc[c] = "land", Commits(c),
         NEW x \in Iris, NEW seen \in Artifact, AsSeen(x, seen)
  PROVE  AsSeen(x, seen)'
<1>1. /\ TypeInv /\ DraftInv /\ Numbered /\ entries \subseteq entries'
      /\ entries' = entries \cup {EntryOf(c, i) : i \in DOMAIN Changes(c)}
      /\ \A e \in entries : \A i \in DOMAIN Changes(c) : Precedes(e, EntryOf(c, i))
      /\ artifacts' = Written(c)
  BY LandingEntries DEF RisenInv, HistoryInv, Commits
<1>2. Told(x) \subseteq Told(x)'
  BY <1>1 DEF Told
<1>3. IF seen.revision = 0 THEN seen = Nothing ELSE \E e \in Told(x)' : seen.revision <= e.revision
  BY <1>2 DEF AsSeen
<1>4. ASSUME artifacts'[x].revision = seen.revision PROVE artifacts'[x] = seen
  <2>1. CASE \A j \in DOMAIN Changes(c) : Changes(c)[j].id # x
    BY <1>1, <1>4, <2>1, WrittenLast DEF AsSeen
  <2>2. CASE seen.revision = 0
    BY <1>3, <1>4, <2>2 DEF RisenInv, HistoryInv, DraftInv, Stands
  <2>3. CASE (\E j \in DOMAIN Changes(c) : Changes(c)[j].id = x) /\ seen.revision # 0
    <3>1. PICK j \in On(c, x) : LastTo(draft[c], j)
      BY <1>1, <2>3, OnEnds DEF On
    <3>2. j \in DOMAIN Changes(c) /\ Changes(c)[j].id = x
      BY DEF On
    <3>3. /\ EntryOf(c, j) \in Told(x)' /\ EntryOf(c, j).revision = Changes(c)[j].revision
          /\ \A e \in Told(x) : Precedes(e, EntryOf(c, j))
      BY <1>1, <3>2 DEF Told, EntryOf
    <3>4. PICK e \in Told(x) : seen.revision <= e.revision
      BY <2>3 DEF AsSeen
    <3>5. e.revision < Changes(c)[j].revision
      BY <1>2, <3>3, <3>4 DEF RisenInv, Rising, Told
    <3>6. artifacts'[x].revision = LeftAt(Changes(c)[j])
      BY <1>1, <3>1, <3>2, WrittenLast
    <3>7. seen.revision \in Nat /\ e.revision \in Nat /\ Changes(c)[j].revision \in Nat
      <4>1. Changes(c) \in Seq(Change)
        BY <1>1 DEF TypeInv, TypeOK, Draft, Changes
      <4>2. e \in Entry
        BY <1>1, <3>4 DEF Told, TypeInv, TypeOK
      <4>3. Changes(c)[j] \in Change
        BY <3>2, <4>1
      <4> QED
        BY <4>2, <4>3 DEF Artifact, Entry, Change
    <3>8. seen.revision \in {0, Changes(c)[j].revision}
      BY <1>4, <3>6 DEF LeftAt
    <3>9. seen.revision < Changes(c)[j].revision
      BY <3>4, <3>5, <3>7
    <3> QED
      BY <2>3, <3>7, <3>8, <3>9
  <2> QED
    BY <2>1, <2>2, <2>3
<1> QED
  BY <1>3, <1>4 DEF AsSeen

(* The call's changes to an artifact up to the i-th write it whole.        *)
MadeWhole(c, i) == \E m \in DOMAIN Changes(c) :
  m <= i /\ Changes(c)[m].id = Changes(c)[i].id /\ Changes(c)[m].op \in {"create", "write"}

(* The changes of a call rest on what the first of them to each artifact   *)
(* read: what they leave is that, and the call's own beside it.            *)
BasedOn(c, k, base) ==
  /\ AsSeen(Changes(c)[k].id, base)
  /\ base.revision = Changes(c)[k].read /\ base.landed = Changes(c)[k].seen
  /\ \A i \in On(c, Changes(c)[k].id) : Changes(c)[i].op # "delete" =>
       Changes(c)[i].content = IF MadeWhole(c, i) THEN {c} ELSE base.content \cup {c}

Based(c) ==
  /\ \A k \in DOMAIN Changes(c) : Earlier(c, k) = {} => \E base \in Artifact : BasedOn(c, k, base)
  /\ \A j \in DOMAIN Changes(c) : LastTo(draft[c], j) /\ Changes(c)[j].op # "delete" =>
       draft[c].left[Changes(c)[j].id].content = Changes(c)[j].content
  /\ \A x \in Iris : draft[c].types[x] # Nothing => AsSeen(x, draft[c].types[x])
  /\ Revising(c) => Acting(c).id \notin draft[c].removed
  /\ Revising(c) /\ pc[c] \in {"type_holds", "type_read"} =>
       IF On(c, Acting(c).id) = {} THEN AsSeen(Acting(c).id, draft[c].current)
       ELSE draft[c].current = draft[c].left[Acting(c).id]

SeenInv == NothingLost /\ \A c \in Calls : Based(c)

(* A call that does not move rests on what it did, while what it saw stays *)
(* as it saw it.                                                           *)
LEMMA BasedSame ==
  ASSUME TypeInv, NEW c \in Calls, Based(c), draft'[c] = draft[c], pc'[c] = pc[c],
         asked'[c] = asked[c],
         \A x \in Iris : \A seen \in Artifact : AsSeen(x, seen) => AsSeen(x, seen)'
  PROVE  Based(c)'
<1>1. Acting(c)' = Acting(c) /\ Changes(c)' = Changes(c) /\ Revising(c)' = Revising(c)
  BY DEF Acting, Changes, Revising
<1>2. (\A i : Earlier(c, i)' = Earlier(c, i)) /\ (\A x : On(c, x)' = On(c, x))
  BY <1>1 DEF Earlier, On
<1>3. \A i : MadeWhole(c, i)' = MadeWhole(c, i)
  BY <1>1 DEF MadeWhole
<1>4. /\ draft[c].types \in [Iris -> Artifact] /\ draft[c].current \in Artifact
      /\ \A k \in DOMAIN Changes(c) : Changes(c)[k].id \in Iris
      /\ Revising(c) => Acting(c).id \in Iris
  <2>1. Changes(c) \in Seq(Change) /\ draft[c].types \in [Iris -> Artifact] /\ draft[c].current \in Artifact
    BY DEF TypeInv, TypeOK, Draft, Changes
  <2>2. Revising(c) => pc[c] \in Acts
    BY DEF Revising, Acts
  <2>3. \A k \in DOMAIN Changes(c) : Changes(c)[k] \in Change
    BY <2>1
  <2> QED
    BY <2>1, <2>2, <2>3, ActingType DEF Change, Operation
<1>5. ASSUME NEW k \in DOMAIN Changes(c), NEW base \in Artifact, BasedOn(c, k, base)
      PROVE  BasedOn(c, k, base)'
  BY <1>1, <1>2, <1>3, <1>4, <1>5 DEF BasedOn
<1> QED
  BY <1>1, <1>2, <1>4, <1>5 DEF Based

(* What a call saw stays so, where the store does.                         *)
LEMMA SeenSame ==
  ASSUME store' = store, NEW x, NEW seen, AsSeen(x, seen)
  PROVE  AsSeen(x, seen)'
  BY DEF AsSeen, Told, store

(* A draft of nothing rests on nothing.                                    *)
LEMMA BasedBlank ==
  ASSUME NEW c \in Calls, draft'[c] = Blank, asked'[c] \in Seq(Operation),
         \/ pc'[c] \in {"landed", "done"}
         \/ Len(asked'[c]) # 0 /\ pc'[c] = FirstStep(asked'[c][1])
  PROVE  Based(c)'
<1>1. /\ Blank.changes = <<>> /\ Len(Blank.changes) = 0 /\ DOMAIN Blank.changes = {}
      /\ Blank.removed = {} /\ \A x \in Iris : Blank.types[x] = Nothing
  BY DEF Blank
<1>2. Acting(c)' = asked'[c][1] /\ Changes(c)' = <<>>
  BY <1>1 DEF Acting, Changes
<1>3. ~Revising(c)'
  BY <1>2 DEF Revising, FirstStep
<1> QED
  BY <1>1, <1>2, <1>3 DEF Based

(* A call that goes on with the changes it has drafted.                    *)
LEMMA BasedReads ==
  ASSUME TypeInv, NEW c \in Calls, Based(c), Alone(c), store' = store,
         draft'[c].removed = draft[c].removed, draft'[c].left = draft[c].left,
         draft'[c].changes = draft[c].changes,
         \A x \in Iris : draft'[c].types[x] # Nothing => AsSeen(x, draft'[c].types[x]),
         Revising(c)' => Acting(c).id \notin draft[c].removed,
         Revising(c)' /\ pc'[c] \in {"type_holds", "type_read"} =>
           IF On(c, Acting(c).id) = {} THEN AsSeen(Acting(c).id, draft'[c].current)
           ELSE draft'[c].current = draft[c].left[Acting(c).id]
  PROVE  Based(c)'
<1>1. asked'[c] = asked[c]
  BY DEF Alone
<1>2. Acting(c)' = Acting(c) /\ Changes(c)' = Changes(c)
  BY <1>1 DEF Acting, Changes
<1>3. (\A i : Earlier(c, i)' = Earlier(c, i)) /\ (\A x : On(c, x)' = On(c, x))
  BY <1>2 DEF Earlier, On
<1>4. \A i : MadeWhole(c, i)' = MadeWhole(c, i)
  BY <1>2 DEF MadeWhole
<1>5. \A x, seen : AsSeen(x, seen) => AsSeen(x, seen)'
  BY SeenSame
<1>6. \A k, base : BasedOn(c, k, base) => BasedOn(c, k, base)'
  BY <1>2, <1>3, <1>4, <1>5 DEF BasedOn
<1>7. \A j : LastTo(draft[c], j) <=> LastTo(draft'[c], j)
  BY DEF LastTo
<1>8. \A x \in Iris : draft'[c].types[x] # Nothing => AsSeen(x, draft[c].types[x])'
  <2> SUFFICES ASSUME NEW x \in Iris, draft'[c].types[x] # Nothing
               PROVE  AsSeen(x, draft[c].types[x])'
    OBVIOUS
  <2>1. AsSeen(x, draft'[c].types[x])
    OBVIOUS
  <2> QED
    BY <2>1 DEF AsSeen, Told, store
<1>9. \A k \in DOMAIN Changes(c)' : Earlier(c, k)' = {} => \E base \in Artifact : BasedOn(c, k, base)'
  BY <1>2, <1>3, <1>6 DEF Based
<1>10. \A j \in DOMAIN Changes(c)' : LastTo(draft'[c], j) /\ Changes(c)'[j].op # "delete" =>
         draft'[c].left[Changes(c)'[j].id].content = Changes(c)'[j].content
  BY <1>2, <1>7 DEF Based
<1>11. Revising(c)' /\ pc'[c] \in {"type_holds", "type_read"} =>
         IF On(c, Acting(c).id)' = {} THEN AsSeen(Acting(c).id, draft[c].current)'
         ELSE draft'[c].current = draft'[c].left[Acting(c).id]
  BY <1>2, <1>3, <1>5
<1> QED
  BY <1>2, <1>8, <1>9, <1>10, <1>11 DEF Based

(* A change made over what the call read, or over what its own set left.   *)
LEMMA BasedActed ==
  ASSUME TypeInv, DraftInv, NEW c \in Calls, Based(c), pc[c] \in Acts,
         NEW kept \in [Iris -> Artifact],
         \A y \in Iris : kept[y] # Nothing => AsSeen(y, kept[y]),
         NEW read \in Nat, NEW revision \in Nat, NEW content \in SUBSET Writers, NEW seen \in Nat,
         NEW base \in Artifact,
         IF On(c, Acting(c).id) = {}
         THEN AsSeen(Acting(c).id, base) /\ base.revision = read /\ base.landed = seen
         ELSE Acting(c).op = "append" =>
                Acting(c).id \notin draft[c].removed /\ base = draft[c].left[Acting(c).id],
         Acting(c).op \in {"create", "write"} => content = {c},
         Acting(c).op = "append" => content = base.content \cup {c},
         Acted(c, kept, read, revision, content, seen)
  PROVE  Based(c)'
<1> SUFFICES ASSUME NEW n, n = Len(draft[c].changes), NEW x, x = Acting(c).id
             PROVE  Based(c)'
  OBVIOUS
<1> DEFINE change == [op |-> Acting(c).op, id |-> Acting(c).id, expected |-> Acting(c).expected,
                      read |-> read, revision |-> revision, content |-> content, seen |-> seen]
           made == Drafted(c, kept, change)
           step == IF n + 2 > Len(asked[c]) THEN "check" ELSE FirstStep(asked[c][n + 2])
<1>1. /\ Acting(c) \in Operation /\ n \in Nat /\ n + 1 \in 1..Len(asked[c])
      /\ draft[c].changes \in Seq(Change) /\ draft[c].left \in [Iris -> Artifact]
      /\ x \in Iris
  BY ActingType DEF TypeInv, TypeOK, Draft, Operation
<1>2. /\ draft' = [draft EXCEPT ![c] = made] /\ pc' = [pc EXCEPT ![c] = step]
      /\ UNCHANGED <<artifacts, asked, entries, sets>>
  BY DEF Acted, GoesTo
<1>3. /\ change \in Change /\ change.id = x /\ change.read = read /\ change.seen = seen
      /\ change.op = Acting(c).op /\ change.content = content
  BY <1>1 DEF Change, Operation
<1>4. /\ made.changes = Append(draft[c].changes, change) /\ made.types = kept
      /\ DOMAIN made.changes = 1..(n + 1) /\ made.changes[n + 1] = change
      /\ \A i \in 1..n : made.changes[i] = draft[c].changes[i]
      /\ DOMAIN draft[c].changes = 1..n
      /\ \A i \in 1..n : draft[c].changes[i] \in Change
  BY <1>1, <1>3 DEF Drafted
<1>5. \A y \in Iris : made.left[y].content = IF y = x /\ change.op # "delete" THEN content
                                             ELSE draft[c].left[y].content
  BY <1>1, <1>3 DEF Drafted
<1> HIDE DEF made, change
<1>6. draft'[c] = made /\ pc'[c] = step /\ Changes(c)' = made.changes /\ Acting(c)' = asked[c][n + 2]
  <2>1. draft'[c] = made /\ pc'[c] = step
    BY <1>2 DEF TypeInv, TypeOK
  <2>2. Len(made.changes) + 1 = n + 2
    BY <1>1, <1>3, <1>4
  <2> QED
    BY <1>2, <2>1, <2>2 DEF Changes, Acting
<1>7. ~Revising(c)'
  <2>1. step \in {"check", "holds", "free", "type_holds"}
        /\ (step = "type_holds" => asked[c][n + 2].op = "create")
    BY DEF FirstStep
  <2> HIDE DEF step
  <2> QED
    BY <1>6, <2>1 DEF Revising
<1> HIDE DEF step
<1>8. /\ DOMAIN Changes(c) = 1..n /\ DOMAIN Changes(c)' = 1..(n + 1)
      /\ \A i \in 1..n : Changes(c)'[i] = Changes(c)[i]
      /\ Changes(c)'[n + 1] = change
      /\ \A i \in 1..n : Changes(c)[i].id \in Iris
      /\ \A i \in 1..(n + 1) : i \in 1..n \/ i = n + 1
      /\ \A i \in 1..n : i < n + 1 /\ i # n + 1
      /\ n + 1 \in 1..(n + 1) /\ 1..n \subseteq 1..(n + 1)
  <2>1. /\ DOMAIN Changes(c) = 1..n /\ DOMAIN Changes(c)' = 1..(n + 1)
        /\ \A i \in 1..n : Changes(c)'[i] = Changes(c)[i]
        /\ Changes(c)'[n + 1] = change
        /\ \A i \in 1..n : Changes(c)[i].id \in Iris
    BY <1>4, <1>6 DEF Changes, Change
  <2>2. /\ \A i \in 1..(n + 1) : i \in 1..n \/ i = n + 1
        /\ \A i \in 1..n : i < n + 1 /\ i # n + 1
        /\ n + 1 \in 1..(n + 1) /\ 1..n \subseteq 1..(n + 1)
    BY <1>1
  <2> QED
    BY <2>1, <2>2
<1>9. \A y : On(c, y)' = IF y = x THEN On(c, y) \cup {n + 1} ELSE On(c, y)
  BY <1>3, <1>8 DEF On
<1>10. \A i \in 1..n : MadeWhole(c, i)' = MadeWhole(c, i)
  <2> SUFFICES ASSUME NEW i \in 1..n PROVE MadeWhole(c, i)' = MadeWhole(c, i)
    OBVIOUS
  <2>1. \A m \in 1..(n + 1) : m <= i => m \in 1..n
    BY <1>1
  <2> QED
    BY <1>8, <2>1 DEF MadeWhole
<1>11. \A y, s : AsSeen(y, s) => AsSeen(y, s)'
  BY <1>2, SeenSame DEF store
<1>12. \A y \in Iris : kept[y] # Nothing => AsSeen(y, kept[y])'
  BY <1>11
<1>13. draft'[c].types = kept /\ n \in Nat
  BY <1>1, <1>4, <1>6
<1>14. \A i \in 1..(n + 1) : Earlier(c, i)' = On(c, Changes(c)'[i].id) \cap 1..(i - 1)
  BY <1>8, <1>13 DEF Earlier, On
<1>15. \A k \in 1..n : Earlier(c, k)' = Earlier(c, k)
  BY <1>8, <1>13 DEF Earlier
<1>16. On(c, x) \subseteq 1..n
  BY <1>8 DEF On
(* What the change leaves, where the artifact was changed before.          *)
<1>17. ASSUME NEW k \in 1..n, NEW first \in Artifact, BasedOn(c, k, first), Changes(c)[k].id = x,
              change.op # "delete"
       PROVE  content = IF MadeWhole(c, n + 1)' THEN {c} ELSE first.content \cup {c}
  <2>1. CASE change.op \in {"create", "write"}
    <3>1. MadeWhole(c, n + 1)'
      BY <1>3, <1>8, <1>13, <2>1 DEF MadeWhole
    <3> QED
      BY <1>3, <2>1, <3>1
  <2>2. CASE change.op = "append"
    <3>1. On(c, x) # {}
      BY <1>8, <1>17 DEF On
    <3>2. x \notin draft[c].removed /\ base = draft[c].left[x] /\ content = base.content \cup {c}
      BY <1>3, <2>2, <3>1
    <3>3. PICK j \in On(c, x) : LastTo(draft[c], j)
      BY <3>1, OnEnds
    <3>4. j \in 1..n /\ Changes(c)[j].id = x /\ Changes(c)[j].op # "delete"
      BY <1>8, <3>2, <3>3 DEF On, DraftInv, Faithful, Tells, Changes
    <3>5. base.content = IF MadeWhole(c, j) THEN {c} ELSE first.content \cup {c}
      <4>1. draft[c].left[x].content = Changes(c)[j].content
        BY <1>8, <3>3, <3>4 DEF Based
      <4>2. j \in On(c, Changes(c)[k].id)
        BY <1>17, <3>3
      <4>3. Changes(c)[j].content = IF MadeWhole(c, j) THEN {c} ELSE first.content \cup {c}
        BY <1>17, <3>4, <4>2 DEF BasedOn
      <4> QED
        BY <3>2, <4>1, <4>3
    <3>6. MadeWhole(c, n + 1)' <=> MadeWhole(c, j)
      <4>1. \A m \in 1..n : Changes(c)[m].id = x => m <= j
        BY <1>8, <3>3, <3>4 DEF LastTo, Changes
      <4>2. \A m \in 1..n : m <= n + 1
        BY <1>8, <1>13
      <4>3. change.op \notin {"create", "write"} /\ change.id = x
        BY <1>3, <2>2
      <4> QED
        BY <1>8, <3>4, <4>1, <4>2, <4>3 DEF MadeWhole
    <3> QED
      BY <3>2, <3>5, <3>6
  <2>3. change.op \in {"create", "write", "append", "delete"}
    BY <1>3 DEF Change
  <2> QED
    BY <1>17, <2>1, <2>2, <2>3
<1>18. ASSUME NEW k \in 1..n, Earlier(c, k)' = {} PROVE \E first \in Artifact : BasedOn(c, k, first)'
  <2>1. PICK first \in Artifact : BasedOn(c, k, first)
    BY <1>8, <1>15, <1>18 DEF Based
  <2>2. Changes(c)'[k] = Changes(c)[k] /\ AsSeen(Changes(c)[k].id, first)'
    BY <1>8, <1>11, <2>1 DEF BasedOn
  <2>3. ASSUME NEW i \in On(c, Changes(c)[k].id)', Changes(c)'[i].op # "delete"
        PROVE  Changes(c)'[i].content = IF MadeWhole(c, i)' THEN {c} ELSE first.content \cup {c}
    <3>1. CASE i \in On(c, Changes(c)[k].id)
      <4>1. i \in 1..n
        BY <1>8, <3>1 DEF On
      <4> QED
        BY <1>8, <1>10, <2>1, <2>3, <3>1, <4>1 DEF BasedOn
    <3>2. CASE i = n + 1
      <4>1. Changes(c)[k].id = x
        BY <1>3, <1>8, <2>2, <2>3, <3>2 DEF On
      <4> QED
        BY <1>3, <1>8, <1>17, <2>1, <2>3, <3>2, <4>1
    <3> QED
      BY <1>9, <2>2, <2>3, <3>1, <3>2
  <2> QED
    BY <2>1, <2>2, <2>3 DEF BasedOn
<1>19. ASSUME Earlier(c, n + 1)' = {} PROVE BasedOn(c, n + 1, base)'
  <2>1. On(c, x) = {}
    BY <1>3, <1>8, <1>13, <1>14, <1>16, <1>19
  <2>2. AsSeen(x, base)' /\ base.revision = read /\ base.landed = seen
    BY <1>11, <2>1
  <2>3. On(c, x)' = {n + 1}
    BY <1>9, <2>1
  <2>4. MadeWhole(c, n + 1)' <=> change.op \in {"create", "write"}
    <3>1. \A m \in 1..n : Changes(c)[m].id # x
      BY <1>8, <2>1 DEF On
    <3> QED
      BY <1>3, <1>8, <1>13, <3>1 DEF MadeWhole
  <2>5. change.op # "delete" => content = IF MadeWhole(c, n + 1)' THEN {c} ELSE base.content \cup {c}
    BY <1>3, <2>4 DEF Change
  <2> QED
    BY <1>3, <1>8, <2>2, <2>3, <2>5 DEF BasedOn
<1>20. ASSUME NEW j \in 1..(n + 1), LastTo(draft'[c], j), Changes(c)'[j].op # "delete"
       PROVE  draft'[c].left[Changes(c)'[j].id].content = Changes(c)'[j].content
  <2>1. CASE j = n + 1
    BY <1>1, <1>3, <1>5, <1>6, <1>8, <1>20, <2>1
  <2>2. CASE j \in 1..n
    <3>1. Changes(c)[j].id # x
      <4>1. \A k \in 1..(n + 1) : Changes(c)'[k].id = Changes(c)'[j].id => k <= j
        BY <1>6, <1>8, <1>20 DEF LastTo
      <4>2. ~(n + 1 <= j)
        BY <1>13, <2>2
      <4>3. Changes(c)'[j] = Changes(c)[j] /\ Changes(c)'[n + 1].id = x /\ n + 1 \in 1..(n + 1)
        BY <1>3, <1>8, <2>2
      <4> QED
        BY <4>1, <4>2, <4>3
    <3>2. LastTo(draft[c], j)
      BY <1>4, <1>6, <1>8, <1>20, <2>2 DEF LastTo, Changes
    <3>3. draft[c].left[Changes(c)[j].id].content = Changes(c)[j].content
      BY <1>8, <1>20, <2>2, <3>2 DEF Based
    <3>4. Changes(c)'[j] = Changes(c)[j] /\ Changes(c)[j].id \in Iris
      BY <1>8, <2>2
    <3>5. draft'[c].left[Changes(c)[j].id].content = draft[c].left[Changes(c)[j].id].content
      BY <1>5, <1>6, <3>1, <3>4
    <3> QED
      BY <3>3, <3>4, <3>5
  <2> QED
    BY <1>8, <2>1, <2>2
<1> QED
  BY <1>7, <1>8, <1>12, <1>13, <1>18, <1>19, <1>20 DEF Based

(* What a call reads is what it, or its own set, left, or is seen standing.*)
LEMMA ReadSeen ==
  ASSUME HistoryInv, Bounded, NEW c \in Calls, Based(c), NEW x \in Iris
  PROVE  /\ \A y \in Iris : Kept(c, x)[y] # Nothing => AsSeen(y, Kept(c, x)[y])
         /\ On(c, x) = {} => AsSeen(x, Read(c, x))
         /\ On(c, x) # {} /\ x \notin draft[c].removed => Read(c, x) = draft[c].left[x]
<1>1. /\ TypeInv /\ DraftInv /\ Tells(draft[c]) /\ draft[c].types \in [Iris -> Artifact]
      /\ \A y \in Iris : draft[c].types[y] # Nothing => AsSeen(y, draft[c].types[y])
      /\ AsSeen(x, artifacts[x])
  BY StandsSeen DEF HistoryInv, DraftInv, Faithful, TypeInv, TypeOK, Draft, Based
<1>2. x \notin draft[c].put => AsSeen(x, Read(c, x))
  BY <1>1 DEF Read
<1>3. On(c, x) = {} => x \notin draft[c].put
  BY <1>1 DEF Tells, On, Changes
<1>4. ASSUME On(c, x) # {}, x \notin draft[c].removed PROVE x \in draft[c].put
  <2>1. PICK j \in On(c, x) : LastTo(draft[c], j)
    BY <1>1, <1>4, OnEnds
  <2> QED
    BY <1>1, <1>4, <2>1 DEF Tells, On, Changes
<1>5. ASSUME NEW y \in Iris, Kept(c, x)[y] # Nothing PROVE AsSeen(y, Kept(c, x)[y])
  <2>1. CASE x \in Types /\ x \notin draft[c].put
    <3>1. Kept(c, x)[y] = IF y = x THEN Read(c, x) ELSE draft[c].types[y]
      BY <1>1, <2>1 DEF Kept
    <3> QED
      BY <1>1, <1>2, <1>5, <2>1, <3>1
  <2>2. CASE ~(x \in Types /\ x \notin draft[c].put)
    <3>1. Kept(c, x) = draft[c].types
      BY <2>2 DEF Kept
    <3> QED
      BY <1>1, <1>5, <3>1
  <2> QED
    BY <2>1, <2>2
<1>6. x \in draft[c].put => Read(c, x) = draft[c].left[x]
  BY DEF Read
<1> QED
  BY <1>2, <1>3, <1>4, <1>5, <1>6

LEMMA BasedRevises ==
  ASSUME TypeInv, DraftInv, NEW c \in Calls, Based(c), pc[c] \in Acts, Acting(c).op # "create",
         Acting(c).id \notin draft[c].removed,
         NEW kept \in [Iris -> Artifact],
         \A y \in Iris : kept[y] # Nothing => AsSeen(y, kept[y]),
         NEW current \in Artifact,
         IF On(c, Acting(c).id) = {} THEN AsSeen(Acting(c).id, current)
         ELSE current = draft[c].left[Acting(c).id],
         Revises(c, kept, current)
  PROVE  Based(c)'
<1> DEFINE written == IF Acting(c).op = "append" THEN current.content \cup {c}
                      ELSE IF Acting(c).op = "write" THEN {c} ELSE {}
<1>1. /\ current.revision \in Nat /\ current.revision + 1 \in Nat
      /\ current.landed \in Nat /\ written \in SUBSET Writers
  BY DEF Artifact, Writers
<1>2. Acted(c, kept, current.revision, current.revision + 1, written, current.landed)
  BY DEF Revises
<1>3. /\ Acting(c).op \in {"create", "write"} => written = {c}
      /\ Acting(c).op = "append" => written = current.content \cup {c}
  OBVIOUS
<1> HIDE DEF written
<1> QED
  BY <1>1, <1>2, <1>3, BasedActed

LEMMA BasedReading ==
  ASSUME HistoryInv, Bounded, NEW c \in Calls, Based(c),
         FindsHeld(c) \/ ComparesExpected(c) \/ ReadsCurrent(c), ~\E answer : Ends(c, answer)
  PROVE  Based(c)'
<1> DEFINE x == Acting(c).id
<1>1. /\ pc[c] \in Acts /\ pc[c] \in {"holds", "expected", "current"} /\ TypeInv /\ DraftInv
      /\ ~Refused(c) /\ ~Escaped(c)
  BY DEF FindsHeld, ComparesExpected, ReadsCurrent, Acts, HistoryInv, Refused, Escaped
<1>2. /\ draft[c] \in Draft /\ Acting(c).op # "create" /\ x \in Iris
      /\ \A y \in Iris : draft[c].types[y] # Nothing => AsSeen(y, draft[c].types[y])
  BY <1>1, ActingType DEF TypeInv, TypeOK, DraftInv, Faithful, Operation, Based
<1>3. /\ Read(c, x) \in Artifact /\ Kept(c, x) \in [Iris -> Artifact]
      /\ \A y \in Iris : Kept(c, x)[y] # Nothing => AsSeen(y, Kept(c, x)[y])
      /\ IF On(c, x) = {} THEN AsSeen(x, Read(c, x))
         ELSE x \notin draft[c].removed => Read(c, x) = draft[c].left[x]
  BY <1>1, <1>2, ReadType, ReadSeen DEF TypeInv
<1>4. pc[c] \in {"expected", "current"} => x \notin draft[c].removed
  BY DEF Based, Revising
<1>5. CASE Holds(c, x) /\ GoesTo(c, "expected") /\ UNCHANGED draft
  <2>1. draft' = [draft EXCEPT ![c] = draft[c]]
    BY <1>1, <1>5 DEF TypeInv, TypeOK
  <2>2. Alone(c) /\ pc'[c] = "expected" /\ draft'[c] = draft[c] /\ store' = store
    BY <1>1, <1>5, <2>1, GoesAlone DEF GoesTo, store
  <2>3. x \notin draft[c].removed
    BY <1>5 DEF Holds
  <2> QED
    BY <1>1, <1>2, <2>2, <2>3, BasedReads
<1>6. CASE /\ pc[c] = "expected" /\ draft' = [draft EXCEPT ![c].types = Kept(c, x)]
           /\ GoesTo(c, "current")
  <2> DEFINE now == [draft[c] EXCEPT !.types = Kept(c, x)]
  <2>1. draft' = [draft EXCEPT ![c] = now]
    BY <1>1, <1>6 DEF TypeInv, TypeOK
  <2>2. /\ now.removed = draft[c].removed /\ now.left = draft[c].left
        /\ now.changes = draft[c].changes /\ now.types = Kept(c, x)
    BY <1>2 DEF Draft
  <2> HIDE DEF now
  <2>3. Alone(c) /\ pc'[c] = "current" /\ draft'[c] = now /\ store' = store
    BY <1>1, <1>6, <2>1, GoesAlone DEF GoesTo, store
  <2> QED
    BY <1>1, <1>3, <1>4, <1>6, <2>2, <2>3, BasedReads
<1>7. CASE pc[c] = "current" /\ Revises(c, Kept(c, x), Read(c, x))
  BY <1>1, <1>2, <1>3, <1>4, <1>7, BasedRevises
<1>8. CASE /\ pc[c] = "current" /\ draft' = [draft EXCEPT ![c].current = Read(c, x)]
           /\ GoesTo(c, "type_holds")
  <2> DEFINE now == [draft[c] EXCEPT !.current = Read(c, x)]
  <2>1. draft' = [draft EXCEPT ![c] = now]
    BY <1>1, <1>8 DEF TypeInv, TypeOK
  <2>2. /\ now.removed = draft[c].removed /\ now.left = draft[c].left
        /\ now.changes = draft[c].changes /\ now.types = draft[c].types
        /\ now.current = Read(c, x)
    BY <1>2 DEF Draft
  <2> HIDE DEF now
  <2>3. Alone(c) /\ pc'[c] = "type_holds" /\ draft'[c] = now /\ store' = store
    BY <1>1, <1>8, <2>1, GoesAlone DEF GoesTo, store
  <2> QED
    BY <1>1, <1>2, <1>3, <1>4, <1>8, <2>2, <2>3, BasedReads
<1> QED
  BY <1>1, <1>5, <1>6, <1>7, <1>8 DEF FindsHeld, ComparesExpected, ReadsCurrent

LEMMA BasedTyping ==
  ASSUME HistoryInv, Bounded, NEW c \in Calls, Based(c),
         FindsTypeHeld(c) \/ ReadsType(c) \/ FindsFree(c), ~\E answer : Ends(c, answer)
  PROVE  Based(c)'
<1> DEFINE x == Acting(c).id
           type == TypeOf[x]
<1>1. /\ pc[c] \in Acts /\ pc[c] \in {"type_holds", "type_read", "free"} /\ TypeInv /\ DraftInv
      /\ ~Refused(c) /\ ~Escaped(c)
  BY DEF FindsTypeHeld, ReadsType, FindsFree, Acts, HistoryInv, Refused, Escaped
<1>2. /\ draft[c] \in Draft /\ draft[c].current \in Artifact /\ x \in Iris
      /\ draft[c].types \in [Iris -> Artifact]
      /\ \A y \in Iris : draft[c].types[y] # Nothing => AsSeen(y, draft[c].types[y])
  BY <1>1, ActingType DEF TypeInv, TypeOK, Operation, Draft, Based
<1>3. pc[c] \in {"type_holds", "type_read"} /\ Acting(c).op # "create" =>
        /\ x \notin draft[c].removed
        /\ IF On(c, x) = {} THEN AsSeen(x, draft[c].current) ELSE draft[c].current = draft[c].left[x]
  BY DEF Based, Revising
<1>4. CASE pc[c] = "type_holds" /\ GoesTo(c, "type_read") /\ UNCHANGED draft
  <2>1. draft' = [draft EXCEPT ![c] = draft[c]]
    BY <1>1, <1>4 DEF TypeInv, TypeOK
  <2>2. Alone(c) /\ pc'[c] = "type_read" /\ draft'[c] = draft[c] /\ store' = store
    BY <1>1, <1>4, <2>1, GoesAlone DEF GoesTo, store
  <2>3. Acting(c)' = Acting(c)
    BY <2>2 DEF Acting, Alone
  <2>4. Revising(c)' => Acting(c).op # "create"
    BY <2>2, <2>3 DEF Revising
  <2> QED
    BY <1>1, <1>2, <1>3, <1>4, <2>2, <2>4, BasedReads
<1>5. CASE ReadsType(c)
  <2>1. pc[c] = "type_read"
    BY <1>5 DEF ReadsType
  <2>2. type \in Iris
    BY <1>1, <1>2, <2>1, TypesAssumption DEF TypeInv, Placed
  <2>3. /\ Kept(c, type) \in [Iris -> Artifact]
        /\ \A y \in Iris : Kept(c, type)[y] # Nothing => AsSeen(y, Kept(c, type)[y])
    BY <1>1, <2>2, ReadType, ReadSeen DEF TypeInv
  <2>4. CASE Acting(c).op = "create" /\ draft' = [draft EXCEPT ![c].types = Kept(c, type)]
             /\ GoesTo(c, "free")
    <3> DEFINE now == [draft[c] EXCEPT !.types = Kept(c, type)]
    <3>1. draft' = [draft EXCEPT ![c] = now]
      BY <1>1, <2>4 DEF TypeInv, TypeOK
    <3>2. /\ now.removed = draft[c].removed /\ now.left = draft[c].left
          /\ now.changes = draft[c].changes /\ now.types = Kept(c, type)
      BY <1>2 DEF Draft
    <3> HIDE DEF now
    <3>3. Alone(c) /\ pc'[c] = "free" /\ draft'[c] = now /\ store' = store
      <4>1. TypeInv /\ GoesTo(c, "free")
        BY <1>1, <2>4
      <4>2. store' = store
        BY <4>1 DEF GoesTo, store
      <4> QED
        BY <3>1, <4>1, <4>2, GoesAlone
    <3>4. ~Revising(c)'
      BY <3>3 DEF Revising
    <3> QED
      BY <1>1, <2>3, <3>2, <3>3, <3>4, BasedReads
  <2>5. CASE Acting(c).op # "create" /\ Revises(c, Kept(c, type), draft[c].current)
    BY <1>1, <1>2, <1>3, <2>1, <2>3, <2>5, BasedRevises
  <2> QED
    BY <1>1, <1>5, <2>4, <2>5 DEF ReadsType
<1>6. CASE pc[c] = "free" /\ ~Holds(c, x) /\ Acted(c, draft[c].types, 0, 1, {c}, 0)
  <2>1. Acting(c).op = "create" /\ {c} \in SUBSET Writers
    BY <1>1, <1>6 DEF DraftInv, Faithful, Writers
  <2>2. Nothing \in Artifact /\ Nothing.revision = 0 /\ Nothing.landed = 0 /\ AsSeen(x, Nothing)
    BY <1>2, StandsSeen DEF Nothing, Artifact
  <2> QED
    BY <1>1, <1>2, <1>6, <2>1, <2>2, BasedActed
<1> QED
  BY <1>1, <1>4, <1>5, <1>6 DEF FindsTypeHeld, FindsFree

(* What the landing of a call's changes to an artifact finds there is what *)
(* the first of them read.                                                 *)
LEMMA FindsSeen ==
  ASSUME TypeInv, NEW c \in Calls, Based(c), ~Moved(c),
         NEW k \in DOMAIN Changes(c), Earlier(c, k) = {}
  PROVE  BasedOn(c, k, artifacts[Changes(c)[k].id])
<1>1. PICK base \in Artifact : BasedOn(c, k, base)
  BY DEF Based
<1>2. artifacts[Changes(c)[k].id].revision = Changes(c)[k].read
  BY DEF Moved, FindsAt
<1> QED
  BY <1>1, <1>2 DEF BasedOn, AsSeen

(* A landing over what the call read leaves what the history tells of.     *)
LEMMA LandingKeeps ==
  ASSUME RisenInv, NothingLost, NEW c \in Calls, Based(c), pc[c] = "land", ~Moved(c), Commits(c)
  PROVE  NothingLost'
<1> DEFINE new(i) == EntryOf(c, i)
           told(x) == Told(x) \cup {new(i) : i \in On(c, x)}
           whole(x) == LastOf({e \in told(x) : e.op \in {"create", "write"}})
           since(x) == {e \in told(x) : ~Precedes(e, whole(x))}
<1>1. /\ TypeInv /\ DraftInv /\ Numbered /\ Bounded /\ HistoryUnbroken
      /\ entries' = entries \cup {new(i) : i \in DOMAIN Changes(c)} /\ entries \subseteq Entry
      /\ \A i \in DOMAIN Changes(c) : new(i) \in Entry
      /\ \A e \in entries : \A i \in DOMAIN Changes(c) :
           Precedes(e, new(i)) /\ ~Precedes(new(i), e)
      /\ \A i, j \in DOMAIN Changes(c) : Precedes(new(i), new(j)) <=> i < j
      /\ artifacts' = Written(c)
  BY LandingEntries DEF RisenInv, HistoryInv, Commits
<1>2. \A i \in DOMAIN Changes(c) :
        /\ new(i).artifact = Changes(c)[i].id /\ new(i).op = Changes(c)[i].op /\ new(i).by = c
  BY DEF EntryOf
<1>3. Changes(c) \in Seq(Change) /\ Tells(draft[c]) /\ draft[c] \in Draft
  BY <1>1 DEF TypeInv, TypeOK, Draft, Changes, DraftInv, Faithful
<1>4. /\ DOMAIN Changes(c) \subseteq Nat
      /\ \A i \in DOMAIN Changes(c) : Changes(c)[i] \in Change /\ Raises(Changes(c)[i])
  BY <1>1, <1>3 DEF DraftInv, Faithful
<1> HIDE DEF new
<1>5. \A x : Told(x)' = told(x)
  BY <1>1, <1>2 DEF Told, On
<1> SUFFICES ASSUME NEW x \in Iris
             PROVE  Written(c)[x].content = IF Written(c)[x] = Nothing THEN {}
                                            ELSE {e.by : e \in since(x)}
  BY <1>1, <1>5 DEF NothingLost
<1>6. artifacts[x].content = IF artifacts[x] = Nothing THEN {}
        ELSE {e.by : e \in {f \in Told(x) : ~Precedes(f, LastOf({g \in Told(x) : g.op \in {"create", "write"}}))}}
  BY DEF NothingLost
<1>7. CASE On(c, x) = {}
  <2>1. told(x) = Told(x)
    BY <1>7
  <2>2. Written(c)[x] = artifacts[x]
    BY <1>1, <1>7, WrittenLast DEF On
  <2> QED
    BY <1>6, <2>1, <2>2
<1>8. CASE On(c, x) # {}
  <2>1. PICK j \in On(c, x) : LastTo(draft[c], j)
    BY <1>1, <1>8, OnEnds
  <2>2. PICK k \in On(c, x) : Earlier(c, k) = {}
    BY <1>1, <1>8, OnEnds
  <2>3. /\ j \in DOMAIN Changes(c) /\ Changes(c)[j].id = x /\ j \in Nat
        /\ k \in DOMAIN Changes(c) /\ Changes(c)[k].id = x
        /\ \A i \in On(c, x) : i <= j /\ i \in DOMAIN Changes(c) /\ i \in Nat
    BY <1>4, <2>1 DEF On, LastTo, Changes
  <2>4. BasedOn(c, k, artifacts[x])
    BY <1>1, <2>2, <2>3, FindsSeen
  <2>5. CASE Changes(c)[j].op = "delete"
    <3>1. x \in draft[c].removed
      BY <1>3, <2>1, <2>3, <2>5 DEF Tells, Changes
    <3> QED
      BY <3>1 DEF Written, Nothing
  <2>6. CASE Changes(c)[j].op # "delete"
    <3>1. /\ x \in draft[c].put \ draft[c].removed
          /\ draft[c].left[x].revision = Changes(c)[j].revision
          /\ draft[c].left[x].content = Changes(c)[j].content
          /\ draft[c].left[x] \in Artifact
      BY <1>3, <2>1, <2>3, <2>6 DEF Tells, Changes, Based, Draft
    <3>2. /\ Written(c)[x].content = Changes(c)[j].content
          /\ Written(c)[x].revision = Changes(c)[j].revision
      <4>1. Written(c)[x] = [draft[c].left[x] EXCEPT !.landed = sets + 1]
        BY <3>1, Zenon DEF Written
      <4> QED
        BY <3>1, <4>1 DEF Artifact
    <3>3. Changes(c)[j].revision # 0
      BY <1>4, <2>3 DEF Raises, Change
    <3>4. Written(c)[x] # Nothing
      BY <3>2, <3>3 DEF Nothing
    <3>5. Changes(c)[j].content = IF MadeWhole(c, j) THEN {c} ELSE artifacts[x].content \cup {c}
      BY <2>1, <2>3, <2>4, <2>6 DEF BasedOn
    <3>6. CASE MadeWhole(c, j)
      <4> DEFINE M == {m \in On(c, x) : Changes(c)[m].op \in {"create", "write"}}
      <4>1. M \in SUBSET Nat /\ M # {} /\ \A m \in M : m <= j
        BY <2>3, <3>6 DEF MadeWhole, On
      <4> HIDE DEF M
      <4>2. PICK m \in M : \A n \in M : n <= m
        BY <2>3, <4>1, HighestExists
      <4>3. m \in On(c, x) /\ m \in DOMAIN Changes(c) /\ m \in Nat /\ new(m).op \in {"create", "write"}
        BY <1>2, <2>3, <4>2 DEF M
      <4>4. ASSUME NEW f \in told(x), f.op \in {"create", "write"}
            PROVE  f = new(m) \/ Precedes(f, new(m))
        <5>1. CASE f \in Told(x)
          BY <1>1, <4>3, <5>1 DEF Told
        <5>2. ASSUME NEW n \in On(c, x), f = new(n) PROVE f = new(m) \/ Precedes(f, new(m))
          <6>1. n \in M
            BY <1>2, <2>3, <4>4, <5>2 DEF M
          <6> QED
            BY <1>1, <2>3, <4>2, <4>3, <5>2, <6>1
        <5> QED
          BY <4>4, <5>1, <5>2
      <4>5. whole(x) = new(m)
        <5>1. {e \in told(x) : e.op \in {"create", "write"}} \in SUBSET Entry
          BY <1>1, <2>3 DEF Told
        <5>2. new(m) \in {e \in told(x) : e.op \in {"create", "write"}}
          BY <4>3
        <5> HIDE DEF told
        <5> QED
          BY <4>4, <5>1, <5>2, LastIs
      <4>6. \A e \in since(x) : e.by = c
        BY <1>1, <1>2, <2>3, <4>3, <4>5 DEF Told
      <4>7. new(m) \in since(x)
        BY <1>1, <4>3, <4>5
      <4> HIDE DEF since
      <4>8. {e.by : e \in since(x)} = {c}
        BY <1>2, <4>3, <4>6, <4>7
      <4> QED
        BY <3>2, <3>4, <3>5, <3>6, <4>8
    <3>7. CASE ~MadeWhole(c, j)
      <4>1. \A i \in On(c, x) : Changes(c)[i].op \notin {"create", "write"}
        BY <2>3, <3>7 DEF MadeWhole, On
      <4>2. {e \in told(x) : e.op \in {"create", "write"}} = {e \in Told(x) : e.op \in {"create", "write"}}
        BY <1>2, <2>3, <4>1
      <4>3. artifacts[x].revision # 0
        BY <1>4, <2>2, <2>3, <2>4, <4>1 DEF BasedOn, Raises
      <4>4. whole(x) \in Told(x)
        <5>1. Told(x) # {}
          BY <1>1, <4>3 DEF HistoryUnbroken
        <5>2. PICK first \in Told(x) : \A h \in Told(x) : h = first \/ Precedes(first, h)
          BY <1>1, <5>1, FirstExists DEF Told
        <5>3. first.op = "create"
          <6>1. \A h \in Told(x) : h.set \in Nat /\ h.step \in Nat /\ h \in entries /\ h.artifact = x
            BY <1>1 DEF Told, Entry
          <6>2. {h \in Told(first.artifact) : Precedes(h, first)} = {}
            BY <5>2, <6>1 DEF Precedes
          <6> QED
            BY <1>1, <6>1, <6>2 DEF HistoryUnbroken
        <5>4. LastOf({e \in Told(x) : e.op \in {"create", "write"}}) \in {e \in Told(x) : e.op \in {"create", "write"}}
          BY <1>1, <5>3, LastExists DEF Told
        <5> QED
          BY <4>2, <5>4
      <4>5. since(x) = {f \in Told(x) : ~Precedes(f, whole(x))} \cup {new(i) : i \in On(c, x)}
        <5> HIDE DEF whole
        <5>1. \A i \in On(c, x) : ~Precedes(new(i), whole(x))
          BY <1>1, <2>3, <4>4 DEF Told
        <5> QED
          BY <5>1
      <4> DEFINE before == {f \in Told(x) : ~Precedes(f, whole(x))}
      <4>6. {e.by : e \in since(x)} = {e.by : e \in before} \cup {c}
        <5>1. since(x) = before \cup {new(i) : i \in On(c, x)}
          BY <4>5
        <5> HIDE DEF since, before
        <5> QED
          BY <1>2, <1>8, <2>3, <5>1
      <4>7. artifacts[x].content = {e.by : e \in before}
        BY <1>6, <4>2, <4>3 DEF Nothing
      <4> HIDE DEF since, before
      <4> QED
        BY <3>2, <3>4, <3>5, <3>7, <4>6, <4>7
    <3> QED
      BY <3>6, <3>7
  <2> QED
    BY <2>5, <2>6
<1> QED
  BY <1>7, <1>8

LEMMA BasedOwn ==
  ASSUME RisenInv, NEW c \in Calls, Based(c), Ask(c) \/ Step(c) \/ GivesUp(c) \/ Crashes(c)
  PROVE  Based(c)'
<1>1. HistoryInv /\ Bounded /\ TypeInv /\ DraftInv /\ Faithful(c) /\ draft[c] \in Draft
  BY DEF RisenInv, HistoryInv, DraftInv, TypeInv, TypeOK
<1>2. ASSUME NEW answer, Ends(c, answer) PROVE Based(c)'
  <2>1. draft'[c] = Blank /\ asked'[c] \in Seq(Operation) /\ pc'[c] = "done"
    BY <1>1, <1>2 DEF Ends, TypeInv, TypeOK
  <2> QED
    BY <2>1, BasedBlank
<1>3. CASE Ask(c) \/ Relocks(c)
  <2>1. PICK set \in Sets : asked'[c] = set /\ pc'[c] = FirstStep(set[1]) /\ draft'[c] = Blank
    <3>1. CASE Ask(c)
      <4>1. draft[c] = Blank
        BY <1>1, <3>1 DEF Ask, Faithful
      <4> QED
        BY <1>1, <3>1, <4>1 DEF Ask, TypeInv, TypeOK
    <3>2. CASE Relocks(c)
      BY <1>1, <3>2 DEF Relocks, TypeInv, TypeOK, Placed
    <3> QED
      BY <1>3, <3>1, <3>2
  <2>2. set \in Seq(Operation) /\ Len(set) # 0
    BY SetsAssumption
  <2> QED
    BY <2>1, <2>2, BasedBlank
<1>4. CASE FindsHeld(c) \/ ComparesExpected(c) \/ ReadsCurrent(c)
  BY <1>1, <1>2, <1>4, BasedReading
<1>5. CASE FindsTypeHeld(c) \/ ReadsType(c) \/ FindsFree(c)
  BY <1>1, <1>2, <1>5, BasedTyping
<1>6. \A x \in Iris : draft[c].types[x] # Nothing => AsSeen(x, draft[c].types[x])
  BY DEF Based
<1>7. CASE Checks(c)
  <2>1. ASSUME NEW moments, draft' = [draft EXCEPT ![c].moments = moments],
               NEW step \in {"relock", "mint"}, GoesTo(c, step)
        PROVE  Based(c)'
    <3> DEFINE now == [draft[c] EXCEPT !.moments = moments]
    <3>1. draft' = [draft EXCEPT ![c] = now]
      BY <1>1, <2>1 DEF TypeInv, TypeOK
    <3>2. /\ now.removed = draft[c].removed /\ now.left = draft[c].left
          /\ now.changes = draft[c].changes /\ now.types = draft[c].types
      BY <1>1 DEF Draft
    <3> HIDE DEF now
    <3>3. store' = store
      BY <2>1 DEF GoesTo, store
    <3>4. Alone(c) /\ pc'[c] = step /\ draft'[c] = now
      BY <1>1, <2>1, <3>1, GoesAlone
    <3>5. ~Revising(c)'
      BY <3>4 DEF Revising
    <3> QED
      BY <1>1, <1>6, <3>2, <3>3, <3>4, <3>5, BasedReads
  <2> QED
    BY <1>2, <1>7, <2>1 DEF Checks, Refused
<1>8. CASE Mints(c) \/ (Lands(c) /\ GoesTo(c, "relock") /\ UNCHANGED draft)
  <2>1. Alone(c) /\ pc'[c] \in {"land", "relock"} /\ draft'[c] = draft[c] /\ store' = store
    BY <1>1, <1>8 DEF Mints, GoesTo, Alone, store, TypeInv, TypeOK
  <2>2. ~Revising(c)'
    BY <2>1 DEF Revising
  <2> QED
    BY <1>1, <1>6, <2>1, <2>2, BasedReads
<1>9. CASE Commits(c)
  <2>1. draft'[c] = Blank /\ asked'[c] \in Seq(Operation) /\ pc'[c] = "landed"
    BY <1>1, <1>9 DEF Commits, TypeInv, TypeOK
  <2> QED
    BY <2>1, BasedBlank
<1>10. CASE Lands(c)
  BY <1>2, <1>8, <1>9, <1>10 DEF Lands, Refused, Escaped
<1>11. CASE Answers(c) \/ GivesUp(c) \/ Crashes(c)
  BY <1>2, <1>11 DEF Answers, GivesUp, Crashes
<1> QED
  BY <1>3, <1>4, <1>5, <1>7, <1>8, <1>10, <1>11 DEF Step

LEMMA SeenInit == Init => SeenInv
<1> SUFFICES ASSUME Init PROVE SeenInv
  OBVIOUS
<1> DEFINE first(i) == [id |-> <<0, i>>, set |-> 1, step |-> i, op |-> "create",
                        artifact |-> Before[i], revision |-> 1, by |-> Nobody]
<1>1. entries = {first(i) : i \in DOMAIN Before} /\ TypeInv
  BY InitType DEF Init
<1>2. ASSUME NEW x \in Iris, NEW i \in DOMAIN Before, Before[i] = x
      PROVE  artifacts[x].content = {e.by : e \in
               {f \in Told(x) : ~Precedes(f, LastOf({g \in Told(x) : g.op \in {"create", "write"}}))}}
  <2>1. Told(x) = {first(i)}
    BY <1>1, <1>2, BeforeAssumption DEF Told
  <2>2. {g \in Told(x) : g.op \in {"create", "write"}} = {first(i)} /\ {first(i)} \in SUBSET Entry
    BY <1>1, <2>1 DEF TypeInv, TypeOK, Told
  <2>3. LastOf({first(i)}) = first(i)
    BY <2>2, LastIs
  <2>4. ~Precedes(first(i), first(i))
    BY BeforeAssumption DEF Precedes
  <2>5. {f \in Told(x) : ~Precedes(f, first(i))} = {first(i)}
    BY <2>1, <2>4
  <2>6. artifacts[x].content = {Nobody} /\ first(i).by = Nobody
    BY <1>2 DEF Init
  <2> HIDE DEF first
  <2> QED
    BY <2>2, <2>3, <2>5, <2>6
<1>3. NothingLost
  <2> SUFFICES ASSUME NEW x \in Iris
               PROVE  artifacts[x].content = IF artifacts[x] = Nothing THEN {} ELSE {e.by : e \in
                 {f \in Told(x) : ~Precedes(f, LastOf({g \in Told(x) : g.op \in {"create", "write"}}))}}
    BY DEF NothingLost
  <2>1. CASE \E i \in DOMAIN Before : Before[i] = x
    <3>1. artifacts[x] # Nothing
      BY <2>1 DEF Init, Nothing
    <3> QED
      BY <1>2, <2>1, <3>1
  <2>2. CASE ~\E i \in DOMAIN Before : Before[i] = x
    BY <2>2 DEF Init, Nothing
  <2> QED
    BY <2>1, <2>2
<1>4. ASSUME NEW c \in Calls PROVE Based(c)
  <2>1. pc[c] = "idle" /\ draft[c] = Blank
    BY DEF Init
  <2>2. DOMAIN Blank.changes = {} /\ \A x \in Iris : Blank.types[x] = Nothing
    BY DEF Blank
  <2> QED
    BY <2>1, <2>2 DEF Based, Changes, Revising
<1> QED
  BY <1>3, <1>4 DEF SeenInv

LEMMA SeenStep == RisenInv /\ RisenInv' /\ SeenInv /\ [Next]_vars => SeenInv'
<1> SUFFICES ASSUME RisenInv, RisenInv', SeenInv, [Next]_vars PROVE SeenInv'
  OBVIOUS
<1>1. TypeInv
  BY DEF RisenInv, HistoryInv
<1>2. \A x \in Iris : \A seen \in Artifact : AsSeen(x, seen) => AsSeen(x, seen)'
  <2>1. CASE store' = store
    BY <2>1, SeenSame
  <2>2. CASE store' # store
    <3>1. PICK c \in Calls : pc[c] = "land" /\ Commits(c)
      BY <1>1, <2>2, StoreStep
    <3> QED
      BY <3>1, SeenStays
  <2> QED
    BY <2>1, <2>2
<1>3. NothingLost'
  <2>1. CASE store' = store
    BY <2>1 DEF SeenInv, NothingLost, Told, store
  <2>2. CASE store' # store
    <3>1. PICK c \in Calls : pc[c] = "land" /\ ~Conflicts(c) /\ Commits(c)
      BY <1>1, <2>2, StoreStep
    <3> QED
      BY <3>1, LandingKeeps DEF Conflicts, SeenInv
  <2> QED
    BY <2>1, <2>2
<1>4. ASSUME NEW c \in Calls PROVE Based(c)'
  <2>1. Based(c)
    BY DEF SeenInv
  <2>2. CASE UNCHANGED vars
    BY <1>1, <1>2, <2>1, <2>2, BasedSame DEF vars
  <2>3. ASSUME NEW d \in Calls, d # c, Ask(d) \/ Step(d) \/ GivesUp(d) \/ Crashes(d) PROVE Based(c)'
    BY <1>1, <1>2, <2>1, <2>3, OthersStep, BasedSame
  <2>4. CASE Ask(c) \/ Step(c) \/ GivesUp(c) \/ Crashes(c)
    BY <2>1, <2>4, BasedOwn
  <2> QED
    BY <2>2, <2>3, <2>4 DEF Next, AllAnswered
<1> QED
  BY <1>3, <1>4 DEF SeenInv

(* Where no IRI is created twice, what stands is what the history replayed *)
(* leaves: no add is lost and none from before the artifact was last       *)
(* written whole comes back, whoever else lands between the draft's reads  *)
(* and its landing (sqlite_checks._compared).  Where one is, it is not so: *)
(* revision numbers alone are compared.                                    *)
THEOREM NothingLostAfresh == Spec /\ []CreatedOnce => []NothingLost
<1>1. SeenInv => NothingLost
  BY DEF SeenInv
<1>2. HistoryInv /\ Bounded /\ CreatedOnce => RisenInv
  BY Rises DEF RisenInv
<1> QED
  BY <1>1, <1>2, HistoryInit, HistoryStep, BoundedInit, BoundedStep, SeenInit, SeenStep, PTL DEF Spec

(* Where no IRI is created twice, a set lands over the very artifacts it   *)
(* was drafted over and the types it was checked against: what stands at   *)
(* the revision it read is what it read (port.land, sqlite_checks._unmoved).*)
THEOREM LandsOnItsReads == Spec /\ []CreatedOnce => LandsOnWhatItRead
<1> DEFINE A == \A c \in Calls : Landing(c) =>
             /\ \A i \in DOMAIN Changes(c) : Earlier(c, i) = {} =>
                  Changes(c)[i].seen = artifacts[Changes(c)[i].id].landed
             /\ \A t \in Through(c) : draft[c].types[t].landed = artifacts[t].landed
<1>1. HistoryInv /\ SeenInv /\ [Next]_vars => [A]_vars
  <2> SUFFICES ASSUME HistoryInv, SeenInv, [Next]_vars, ~UNCHANGED vars, NEW c \in Calls, Landing(c)
               PROVE  /\ \A i \in DOMAIN Changes(c) : Earlier(c, i) = {} =>
                           Changes(c)[i].seen = artifacts[Changes(c)[i].id].landed
                      /\ \A t \in Through(c) : draft[c].types[t].landed = artifacts[t].landed
    OBVIOUS
  <2>1. TypeInv /\ Based(c)
    BY DEF HistoryInv, SeenInv
  <2>2. ~Conflicts(c)
    <3>1. PICK d \in Calls : Ask(d) \/ Step(d) \/ GivesUp(d) \/ Crashes(d)
      BY DEF Next, AllAnswered
    <3>2. d = c
      BY <2>1, <3>1, OthersStep DEF Landing
    <3>3. ASSUME NEW answer, Ends(c, answer) PROVE FALSE
      BY <2>1, <3>3 DEF Ends, Landing, TypeInv, TypeOK
    <3>4. Lands(c)
      BY <3>1, <3>2, <3>3 DEF Landing, Ask, Step, GivesUp, Crashes, FindsHeld, ComparesExpected,
         ReadsCurrent, FindsTypeHeld, ReadsType, FindsFree, Checks, Mints, Relocks, Answers
    <3>5. ~GoesTo(c, "relock")
      BY <2>1 DEF GoesTo, Landing, TypeInv, TypeOK
    <3> QED
      BY <3>3, <3>4, <3>5 DEF Lands, Escaped
  <2>3. ASSUME NEW i \in DOMAIN Changes(c), Earlier(c, i) = {}
        PROVE  Changes(c)[i].seen = artifacts[Changes(c)[i].id].landed
    BY <2>1, <2>2, <2>3, FindsSeen DEF Conflicts, BasedOn
  <2>4. ASSUME NEW t \in Through(c) PROVE draft[c].types[t].landed = artifacts[t].landed
    <3>1. t \in Iris /\ draft[c].types[t] # Nothing
      <4>1. draft[c].put \subseteq Iris
        BY <2>1 DEF TypeInv, TypeOK, Draft
      <4> QED
        BY <4>1, TypesAssumption DEF Through, Left
    <3>2. AsSeen(t, draft[c].types[t])
      BY <2>1, <3>1 DEF Based
    <3>3. artifacts[t].revision = draft[c].types[t].revision
      BY <2>2 DEF Conflicts, TypeMoved
    <3> QED
      BY <3>2, <3>3 DEF AsSeen
  <2> QED
    BY <2>3, <2>4
<1> HIDE DEF A
<1>2. HistoryInv /\ Bounded /\ CreatedOnce => RisenInv
  BY Rises DEF RisenInv
<1>3. Spec /\ []CreatedOnce => [][A]_vars
  BY <1>1, <1>2, HistoryInit, HistoryStep, BoundedInit, BoundedStep, SeenInit, SeenStep, PTL DEF Spec
<1> QED
  BY <1>3 DEF LandsOnWhatItRead, A

-----------------------------------------------------------------------------
(* The landing as SerialStore has it.  What Applied makes of a store is     *)
(* what each operation makes of what the one before it left.               *)

(* A function recursive up to a number exists where each of its steps,     *)
(* given as a function, stays within a set.                                *)
StaysTo(next, m, X) == \A n \in 1..m, x \in X : next[<<n, x>>] \in X
RecursTo(f, m, X, base, next) ==
  f \in [0..m -> X] /\ \A n \in 0..m : f[n] = IF n = 0 THEN base ELSE next[<<n, f[n - 1]>>]

LEMMA RecursionTo ==
  ASSUME NEW X, NEW base \in X, NEW next, NEW m \in Nat, StaysTo(next, m, X)
  PROVE  \E f : RecursTo(f, m, X, base, next)
<1> DEFINE Runs(f, k) ==
      /\ f \in [0..k -> X]
      /\ \A n \in 0..k : f[n] = IF n = 0 THEN base ELSE next[<<n, f[n - 1]>>]
           Out == {k \in Nat : k <= m /\ ~\E f : Runs(f, k)}
<1>1. \E f : Runs(f, 0)
  <2>1. Runs([n \in 0..0 |-> base], 0)
    OBVIOUS
  <2> QED
    BY <2>1
<1>2. ASSUME NEW k \in Nat, k + 1 <= m, NEW f, Runs(f, k) PROVE \E g : Runs(g, k + 1)
  <2> DEFINE last == next[<<k + 1, f[k]>>]
             g == [n \in 0..(k + 1) |-> IF n = k + 1 THEN last ELSE f[n]]
  <2>1. last \in X
    <3>1. k + 1 \in 1..m /\ f[k] \in X
      BY <1>2
    <3> QED
      BY <3>1 DEF StaysTo
  <2> HIDE DEF last
  <2>2. g \in [0..(k + 1) -> X] /\ \A n \in 0..k : g[n] = f[n]
    BY <1>2, <2>1
  <2>3. ASSUME NEW n \in 0..(k + 1)
        PROVE  g[n] = IF n = 0 THEN base ELSE next[<<n, g[n - 1]>>]
    <3>1. CASE n = k + 1
      <4>1. g[n] = last /\ n - 1 = k /\ g[n - 1] = f[k] /\ n # 0
        BY <2>2, <3>1
      <4> QED
        BY <3>1, <4>1 DEF last
    <3>2. CASE n # k + 1
      <4>1. n \in 0..k /\ g[n] = f[n] /\ (n # 0 => n - 1 \in 0..k /\ g[n - 1] = f[n - 1])
        BY <2>2, <3>2
      <4> HIDE DEF g
      <4> QED
        BY <1>2, <4>1
    <3> QED
      BY <3>1, <3>2
  <2> HIDE DEF g
  <2> QED
    BY <2>2, <2>3
<1> HIDE DEF Runs
<1>3. Out = {}
  <2> SUFFICES ASSUME Out # {} PROVE FALSE
    OBVIOUS
  <2>1. PICK k \in Out : \A n \in Out : k <= n
    BY LowestExists
  <2>2. k # 0
    BY <1>1, <2>1
  <2>3. k - 1 \in Nat /\ (k - 1) + 1 = k /\ k - 1 \notin Out
    BY <2>1, <2>2
  <2> QED
    BY <1>2, <2>1, <2>3
<1>4. \E f : Runs(f, m)
  BY <1>3
<1> QED
  BY <1>4 DEF Runs, RecursTo

Held == [revision : Nat, content : SUBSET Writers]
SoFar == [now : [Iris -> Held], fits : BOOLEAN]

(* What the operations a call asks for make of the store, one by one.      *)
OneByOne(c, so) ==
  /\ so \in [0..Len(asked[c]) -> SoFar]
  /\ so[0] = [now |-> HeldNow, fits |-> TRUE]
  /\ \A n \in 1..Len(asked[c]) : so[n] = Serial!Upon(so[n - 1], c, asked[c][n])

LEMMA HeldType == ASSUME TypeInv PROVE HeldNow \in [Iris -> Held]
<1>1. ASSUME NEW x \in Iris PROVE [revision |-> artifacts[x].revision, content |-> artifacts[x].content] \in Held
  <2>1. artifacts[x] \in Artifact
    BY DEF TypeInv, TypeOK
  <2> QED
    BY <2>1 DEF Artifact, Held
<1> QED
  BY <1>1 DEF HeldNow

LEMMA UponType ==
  ASSUME NEW c \in Calls, NEW so \in SoFar, NEW operation \in Operation
  PROVE  /\ Serial!Upon(so, c, operation) \in SoFar
         /\ so.now[operation.id] \in Held
         /\ so.now \in [Iris -> Held] /\ so.fits \in BOOLEAN
         /\ Serial!Leaves(c, so.now, operation) \in Held
<1>1. so.now \in [Iris -> Held] /\ so.fits \in BOOLEAN
  BY DEF SoFar
<1>2. operation.id \in Iris /\ so.now[operation.id] \in Held
  BY <1>1 DEF Operation
<1>3. Serial!Leaves(c, so.now, operation) \in Held
  BY <1>2, CallsAssumption DEF Serial!Leaves, Serial!None, Held, Writers
<1>4. CASE so.fits /\ Serial!Allowed(so.now, operation)
  <2>1. Serial!Upon(so, c, operation) =
          [so EXCEPT !.now[operation.id] = Serial!Leaves(c, so.now, operation)]
    BY <1>4, Zenon DEF Serial!Upon
  <2> HIDE DEF Serial!Leaves
  <2> QED
    BY <1>1, <1>2, <1>3, <2>1 DEF SoFar
<1>5. CASE ~(so.fits /\ Serial!Allowed(so.now, operation))
  <2>1. Serial!Upon(so, c, operation) = [so EXCEPT !.fits = FALSE]
    BY <1>5, Zenon DEF Serial!Upon
  <2>2. [so EXCEPT !.fits = FALSE] \in SoFar
    BY DEF SoFar
  <2> QED
    BY <1>1, <1>2, <1>3, <2>1, <2>2
<1> QED
  BY <1>1, <1>2, <1>3, <1>4, <1>5

LEMMA AppliedIs ==
  ASSUME TypeInv, NEW c \in Calls
  PROVE  \E so : /\ OneByOne(c, so)
                 /\ Serial!Applied(c) = [so[Len(asked[c])] EXCEPT !.fits = @ /\ Serial!Typed(so[Len(asked[c])].now)]
<1> DEFINE m == Len(asked[c])
           base == [now |-> HeldNow, fits |-> TRUE]
           next == [p \in Nat \X SoFar |-> Serial!Upon(p[2], c, asked[c][p[1]])]
           after == CHOOSE f : f = [n \in 0..m |-> IF n = 0 THEN base ELSE Serial!Upon(f[n - 1], c, asked[c][n])]
<1>1. asked[c] \in Seq(Operation) /\ m \in Nat /\ \A n \in 1..m : asked[c][n] \in Operation
  BY DEF TypeInv, TypeOK
<1>2. base \in SoFar
  BY HeldType DEF SoFar
<1>3. StateNow[c].set = asked[c]
  BY DEF StateNow
<1> HIDE DEF m, base
<1>4. \A n \in 1..m, so \in SoFar : next[<<n, so>>] = Serial!Upon(so, c, asked[c][n])
  BY <1>1
<1> HIDE DEF next
<1>5. \A n \in 1..m, so \in SoFar : next[<<n, so>>] \in SoFar
  BY <1>1, <1>4, UponType
<1>r. PICK g : RecursTo(g, m, SoFar, base, next)
  <2>1. StaysTo(next, m, SoFar)
    BY <1>5 DEF StaysTo
  <2> QED
    BY <1>1, <1>2, <2>1, RecursionTo
<1>6. /\ g \in [0..m -> SoFar]
      /\ \A n \in 0..m : g[n] = IF n = 0 THEN base ELSE next[<<n, g[n - 1]>>]
  BY <1>r DEF RecursTo
<1>7. ASSUME NEW n \in 0..m
      PROVE  g[n] = IF n = 0 THEN base ELSE Serial!Upon(g[n - 1], c, asked[c][n])
  <2>1. n # 0 => n \in 1..m /\ n - 1 \in 0..m /\ g[n - 1] \in SoFar
    BY <1>1, <1>6
  <2>2. n # 0 => next[<<n, g[n - 1]>>] = Serial!Upon(g[n - 1], c, asked[c][n])
    BY <1>4, <2>1
  <2> QED
    BY <1>6, <2>2
<1>8. g = [n \in 0..m |-> IF n = 0 THEN base ELSE Serial!Upon(g[n - 1], c, asked[c][n])]
  BY <1>6, <1>7
<1>9. after = [n \in 0..m |-> IF n = 0 THEN base ELSE Serial!Upon(after[n - 1], c, asked[c][n])]
  BY <1>8, Zenon
<1> HIDE DEF after
<1>10. after \in [0..m -> SoFar] /\ \A n \in 0..m : after[n] = g[n]
  <2> DEFINE Bad == {n \in 0..m : after[n] # g[n]}
  <2>1. Bad = {}
    <3> SUFFICES ASSUME Bad # {} PROVE FALSE
      OBVIOUS
    <3>1. PICK n \in Bad : \A k \in Bad : n <= k
      <4>1. Bad \in SUBSET Nat
        OBVIOUS
      <4> HIDE DEF Bad
      <4> QED
        BY <4>1, LowestExists
    <3>2. n \in 0..m /\ (n # 0 => n - 1 \in 0..m /\ after[n - 1] = g[n - 1])
      BY <1>1, <3>1
    <3>3. after[n] = IF n = 0 THEN base ELSE Serial!Upon(after[n - 1], c, asked[c][n])
      BY <1>9, <3>2
    <3>4. g[n] = IF n = 0 THEN base ELSE Serial!Upon(g[n - 1], c, asked[c][n])
      BY <1>7, <3>2
    <3>5. after[n] # g[n]
      BY <3>1
    <3> HIDE DEF Bad
    <3> QED
      BY <3>2, <3>3, <3>4, <3>5, Zenon
  <2>2. \A n \in 0..m : after[n] = g[n]
    BY <2>1
  <2>3. after = [n \in 0..m |-> after[n]]
    BY <1>9
  <2> QED
    BY <1>6, <2>2, <2>3
<1>11. OneByOne(c, after)
  <2>1. after[0] = base
    <3>1. 0 \in 0..m
      BY <1>1
    <3>2. g[0] = base
      BY <1>6, <3>1, Zenon
    <3> QED
      BY <1>10, <3>1, <3>2, Zenon
  <2>2. ASSUME NEW n \in 1..m PROVE after[n] = Serial!Upon(after[n - 1], c, asked[c][n])
    <3>1. n \in 0..m /\ n # 0 /\ n - 1 \in 0..m
      BY <1>1
    <3> QED
      BY <1>7, <1>10, <3>1
  <2> QED
    BY <1>10, <2>1, <2>2 DEF OneByOne, m, base
<1>12. Serial!Applied(c) = [after[m] EXCEPT !.fits = @ /\ Serial!Typed(after[m].now)]
  BY <1>3, Zenon DEF Serial!Applied, after, m, base
<1> QED
  BY <1>11, <1>12 DEF m

(* A set that fits has fitted so far: each operation was allowed, and left *)
(* what it leaves.                                                         *)
LEMMA FitsEach ==
  ASSUME TypeInv, NEW c \in Calls, NEW so, OneByOne(c, so), NEW n \in 1..Len(asked[c])
  PROVE  /\ so[n].fits <=> so[n - 1].fits /\ Serial!Allowed(so[n - 1].now, asked[c][n])
         /\ so[n].fits => \A x \in Iris : so[n].now[x] =
              IF x = asked[c][n].id THEN Serial!Leaves(c, so[n - 1].now, asked[c][n]) ELSE so[n - 1].now[x]
<1>1. /\ Len(asked[c]) \in Nat /\ n - 1 \in 0..Len(asked[c]) /\ asked[c][n] \in Operation
  BY DEF TypeInv, TypeOK
<1>2. /\ so[n - 1] \in SoFar /\ so[n] = Serial!Upon(so[n - 1], c, asked[c][n])
  BY <1>1 DEF OneByOne
<1> DEFINE fitting == so[n - 1].fits /\ Serial!Allowed(so[n - 1].now, asked[c][n])
           leaves == Serial!Leaves(c, so[n - 1].now, asked[c][n])
<1>3. CASE fitting
  <2>1. so[n] = [so[n - 1] EXCEPT !.now[asked[c][n].id] = leaves]
    BY <1>2, <1>3, Zenon DEF Serial!Upon
  <2> HIDE DEF leaves
  <2>2. so[n].fits = so[n - 1].fits /\ so[n].now = [so[n - 1].now EXCEPT ![asked[c][n].id] = leaves]
    BY <1>2, <2>1 DEF SoFar
  <2>3. so[n - 1].now \in [Iris -> Held]
    BY <1>2 DEF SoFar
  <2>4. \A x \in Iris : so[n].now[x] = IF x = asked[c][n].id THEN leaves ELSE so[n - 1].now[x]
    BY <2>2, <2>3
  <2> QED
    BY <1>3, <2>2, <2>4 DEF leaves
<1>4. CASE ~fitting
  <2>1. so[n] = [so[n - 1] EXCEPT !.fits = FALSE]
    BY <1>2, <1>4, Zenon DEF Serial!Upon
  <2>2. ~so[n].fits
    BY <1>2, <2>1 DEF SoFar
  <2> QED
    BY <1>4, <2>2
<1> QED
  BY <1>3, <1>4

LEMMA FitsOn ==
  ASSUME TypeInv, NEW c \in Calls, NEW so, OneByOne(c, so), NEW n \in 0..Len(asked[c]), ~so[n].fits
  PROVE  ~so[Len(asked[c])].fits
<1> DEFINE m == Len(asked[c])
           Bad == {k \in n..m : so[k].fits}
<1>1. m \in Nat
  BY DEF TypeInv, TypeOK
<1>2. Bad = {}
  <2> SUFFICES ASSUME Bad # {} PROVE FALSE
    OBVIOUS
  <2>1. PICK k \in Bad : \A i \in Bad : k <= i
    <3>1. Bad \in SUBSET Nat
      OBVIOUS
    <3> HIDE DEF Bad
    <3> QED
      BY <3>1, LowestExists
  <2>2. k # n /\ k \in 1..m /\ k - 1 \in n..m /\ k - 1 \notin Bad
    BY <1>1, <2>1
  <2>3. ~so[k - 1].fits /\ so[k].fits
    BY <2>1, <2>2
  <2> QED
    BY <2>2, <2>3, FitsEach
<1> QED
  BY <1>1, <1>2

(* The last of the first m operations a call asks for to be about x.       *)
LastIn(c, m, x, j) ==
  j \in 1..m /\ asked[c][j].id = x /\ \A k \in 1..m : asked[c][k].id = x => k <= j

(* Whether anything stands at an IRI is told by the operations about it.   *)
StandsAfter(c, so, m) == \A x \in Iris :
  /\ (\A j \in 1..m : asked[c][j].id # x) => so[m].now[x] = HeldNow[x]
  /\ \A j \in 1..m : LastIn(c, m, x, j) => (so[m].now[x] = Serial!None <=> asked[c][j].op = "delete")

LEMMA StandsOn ==
  ASSUME TypeInv, NEW c \in Calls, NEW so, OneByOne(c, so), NEW n \in 1..Len(asked[c]),
         so[n].fits, StandsAfter(c, so, n - 1)
  PROVE  StandsAfter(c, so, n)
<1> DEFINE was == so[n - 1].now
           leaves == Serial!Leaves(c, was, asked[c][n])
<1>1. /\ Len(asked[c]) \in Nat /\ n - 1 \in 0..Len(asked[c]) /\ asked[c][n] \in Operation /\ n \in Nat
      /\ so[n - 1] \in SoFar
  <2>1. asked[c] \in Seq(Operation) /\ so \in [0..Len(asked[c]) -> SoFar]
    BY DEF TypeInv, TypeOK, OneByOne
  <2> QED
    BY <2>1
<1>2. \A x \in Iris : so[n].now[x] = IF x = asked[c][n].id THEN leaves ELSE was[x]
  BY FitsEach
<1>3. was \in [Iris -> Held] /\ was[asked[c][n].id] \in Held /\ asked[c][n].id \in Iris
  BY <1>1, UponType DEF Operation
<1>4. leaves = Serial!None <=> asked[c][n].op = "delete"
  <2>1. CASE asked[c][n].op = "delete"
    BY <2>1 DEF Serial!Leaves
  <2>2. CASE asked[c][n].op # "delete"
    <3>1. leaves.revision = was[asked[c][n].id].revision + 1
      BY <2>2 DEF Serial!Leaves
    <3>2. leaves.revision # 0
      BY <1>3, <3>1 DEF Held
    <3> HIDE DEF leaves
    <3> QED
      BY <2>2, <3>2 DEF Serial!None
  <2> QED
    BY <2>1, <2>2
<1> HIDE DEF leaves, was
<1> SUFFICES ASSUME NEW x \in Iris
             PROVE  /\ (\A j \in 1..n : asked[c][j].id # x) => so[n].now[x] = HeldNow[x]
                    /\ \A j \in 1..n : LastIn(c, n, x, j) =>
                         (so[n].now[x] = Serial!None <=> asked[c][j].op = "delete")
  BY DEF StandsAfter
<1>5. /\ (\A j \in 1..(n - 1) : asked[c][j].id # x) => was[x] = HeldNow[x]
      /\ \A j \in 1..(n - 1) : LastIn(c, n - 1, x, j) => (was[x] = Serial!None <=> asked[c][j].op = "delete")
  BY DEF StandsAfter, was
<1>6. CASE asked[c][n].id = x
  <2>1. n \in 1..n /\ so[n].now[x] = leaves
    BY <1>1, <1>2, <1>3, <1>6
  <2>2. \A j \in 1..n : LastIn(c, n, x, j) => j = n
    BY <1>1, <1>6, <2>1 DEF LastIn
  <2> QED
    BY <1>4, <1>6, <2>1, <2>2
<1>7. CASE asked[c][n].id # x
  <2>1. so[n].now[x] = was[x] /\ 1..n = 1..(n - 1) \cup {n}
    BY <1>1, <1>2, <1>3, <1>7
  <2>2. \A j \in 1..n : LastIn(c, n, x, j) => j \in 1..(n - 1) /\ LastIn(c, n - 1, x, j)
    BY <1>7, <2>1 DEF LastIn
  <2> QED
    BY <1>5, <2>1, <2>2
<1> QED
  BY <1>6, <1>7

LEMMA StandsTold ==
  ASSUME TypeInv, NEW c \in Calls, NEW so, OneByOne(c, so), NEW m \in 0..Len(asked[c]), so[m].fits
  PROVE  StandsAfter(c, so, m)
<1> DEFINE L == Len(asked[c])
           Bad == {n \in 0..L : so[n].fits /\ ~StandsAfter(c, so, n)}
<1>1. L \in Nat /\ asked[c] \in Seq(Operation)
  BY DEF TypeInv, TypeOK
<1>2. StandsAfter(c, so, 0)
  BY DEF StandsAfter, OneByOne
<1>3. Bad = {}
  <2> SUFFICES ASSUME Bad # {} PROVE FALSE
    OBVIOUS
  <2>1. PICK n \in Bad : \A i \in Bad : n <= i
    <3>1. Bad \in SUBSET Nat
      OBVIOUS
    <3> HIDE DEF Bad
    <3> QED
      BY <3>1, LowestExists
  <2>2. n # 0
    BY <1>2, <2>1
  <2>3. n \in 1..L /\ n - 1 \in 0..L /\ n - 1 \notin Bad /\ so[n].fits
    BY <1>1, <2>1, <2>2
  <2>4. so[n - 1].fits
    BY <2>3, FitsEach
  <2> QED
    BY <2>1, <2>3, <2>4, StandsOn
<1> QED
  BY <1>3

(* What a draft holds is what stands where its operations have been done   *)
(* to the store as it stands.                                              *)
LEMMA HoldsStands ==
  ASSUME TypeInv, DraftInv, NEW c \in Calls, NEW so, OneByOne(c, so),
         so[Len(Changes(c))].fits, NEW x \in Iris
  PROVE  Holds(c, x) <=> so[Len(Changes(c))].now[x] # Serial!None
<1> DEFINE m == Len(Changes(c))
<1>1. /\ Changes(c) \in Seq(Change) /\ m \in Nat /\ DOMAIN Changes(c) = 1..m /\ Len(asked[c]) \in Nat
      /\ Tells(draft[c]) /\ Stands(artifacts[x])
      /\ m <= Len(asked[c])
      /\ \A i \in 1..m : Changes(c)[i].op = asked[c][i].op /\ Changes(c)[i].id = asked[c][i].id
  BY DEF TypeInv, TypeOK, Draft, DraftInv, Faithful, Follows, Changes
<1>2. StandsAfter(c, so, m)
  BY <1>1, StandsTold
<1>3. CASE On(c, x) = {}
  <2>1. x \notin draft[c].put /\ x \notin draft[c].removed
    BY <1>1, <1>3 DEF Tells, On, Changes
  <2>2. \A j \in 1..m : asked[c][j].id # x
    BY <1>1, <1>3 DEF On
  <2>3. so[m].now[x] = [revision |-> artifacts[x].revision, content |-> artifacts[x].content]
    BY <1>2, <2>2 DEF StandsAfter, HeldNow
  <2>4. so[m].now[x] = Serial!None <=> artifacts[x].revision = 0
    <3>1. ASSUME artifacts[x].revision = 0 PROVE so[m].now[x] = Serial!None
      <4>1. artifacts[x] = Nothing
        BY <1>1, <3>1 DEF Stands
      <4> QED
        BY <2>3, <4>1 DEF Nothing, Serial!None
    <3>2. so[m].now[x].revision = artifacts[x].revision /\ Serial!None.revision = 0
      BY <2>3 DEF Serial!None
    <3> HIDE DEF m
    <3> QED
      BY <3>1, <3>2
  <2> QED
    BY <2>1, <2>4 DEF Holds
<1>4. CASE On(c, x) # {}
  <2>1. PICK j \in On(c, x) : LastTo(draft[c], j)
    BY <1>4, OnEnds
  <2>2. j \in 1..m /\ Changes(c)[j].id = x
    BY <1>1 DEF On
  <2>3. LastIn(c, m, x, j)
    BY <1>1, <2>1, <2>2 DEF LastIn, LastTo, Changes
  <2>4. so[m].now[x] = Serial!None <=> Changes(c)[j].op = "delete"
    BY <1>1, <1>2, <2>2, <2>3 DEF StandsAfter
  <2>5. IF Changes(c)[j].op = "delete" THEN x \in draft[c].removed ELSE x \in draft[c].put \ draft[c].removed
    BY <1>1, <2>1, <2>2 DEF Tells, Changes
  <2> QED
    BY <2>4, <2>5 DEF Holds
<1> QED
  BY <1>3, <1>4

-----------------------------------------------------------------------------
(* Each change of what is no type was drafted where its type was held: by   *)
(* the set's own changes before it, or in the store, read and kept as read.*)

TypeTold(c, i) ==
  LET T == TypeOf[Changes(c)[i].id]
      before == {j \in 1..(i - 1) : Changes(c)[j].id = T}
  IN IF before = {} THEN draft[c].types[T] # Nothing
     ELSE \A j \in before : (\A k \in before : k <= j) => Changes(c)[j].op # "delete"

Typing(c) ==
  /\ \A i \in DOMAIN Changes(c) :
       Changes(c)[i].op # "delete" /\ Changes(c)[i].id \notin Types => TypeTold(c, i)
  /\ pc[c] \in {"type_holds", "type_read"} => Acting(c).op # "delete"
  /\ pc[c] = "type_read" => TypeOf[Acting(c).id] \notin draft[c].removed
  /\ pc[c] = "free" /\ Acting(c).id \notin Types =>
       TypeOf[Acting(c).id] \in draft[c].put \/ draft[c].types[TypeOf[Acting(c).id]] # Nothing

(* A call that does not move has drafted what it had.                      *)
LEMMA TypedSame ==
  ASSUME NEW c \in Calls, Typing(c), draft'[c] = draft[c], pc'[c] = pc[c], asked'[c] = asked[c]
  PROVE  Typing(c)'
  BY DEF Typing, TypeTold, Changes, Acting

LEMMA TypedBlank ==
  ASSUME NEW c \in Calls, draft'[c] = Blank, asked'[c] \in Seq(Operation),
         \/ pc'[c] \in {"landed", "done"}
         \/ Len(asked'[c]) # 0 /\ pc'[c] = FirstStep(asked'[c][1])
  PROVE  Typing(c)'
<1>1. Blank.changes = <<>> /\ Len(Blank.changes) = 0 /\ DOMAIN Blank.changes = {}
  BY DEF Blank
<1>2. Acting(c)' = asked'[c][1] /\ Changes(c)' = <<>>
  BY <1>1 DEF Acting, Changes
<1> QED
  BY <1>1, <1>2 DEF Typing, FirstStep

(* A call that goes on with the changes it has drafted.                    *)
LEMMA TypedReads ==
  ASSUME TypeInv, NEW c \in Calls, Typing(c), Alone(c),
         draft'[c].put = draft[c].put, draft'[c].removed = draft[c].removed,
         draft'[c].changes = draft[c].changes,
         \A x \in Iris : draft[c].types[x] # Nothing => draft'[c].types[x] # Nothing,
         pc'[c] \in {"type_holds", "type_read"} => Acting(c).op # "delete",
         pc'[c] = "type_read" => TypeOf[Acting(c).id] \notin draft[c].removed,
         pc'[c] = "free" =>
           TypeOf[Acting(c).id] \in draft[c].put \/ draft'[c].types[TypeOf[Acting(c).id]] # Nothing
  PROVE  Typing(c)'
<1>1. /\ Acting(c)' = Acting(c) /\ Changes(c)' = Changes(c)
      /\ Changes(c) \in Seq(Change)
  BY DEF Acting, Changes, Alone, TypeInv, TypeOK, Draft
<1>2. ASSUME NEW i \in DOMAIN Changes(c), Changes(c)[i].id \notin Types, TypeTold(c, i)
      PROVE  TypeTold(c, i)'
  <2>1. TypeOf[Changes(c)[i].id] \in Iris
    <3>1. Changes(c)[i] \in Change
      BY <1>1
    <3> QED
      BY <1>2, <3>1, TypesAssumption DEF Change
  <2> QED
    BY <1>1, <1>2, <2>1 DEF TypeTold
<1> QED
  BY <1>1, <1>2 DEF Typing

(* A change drafted, of what is no type, while its type is held.           *)
LEMMA TypedActed ==
  ASSUME TypeInv, DraftInv, NEW c \in Calls, Typing(c), pc[c] \in Acts,
         NEW kept \in [Iris -> Artifact],
         \A x \in Iris : draft[c].types[x] # Nothing => kept[x] # Nothing,
         Acting(c).op # "delete" /\ Acting(c).id \notin Types =>
           /\ TypeOf[Acting(c).id] \notin draft[c].removed
           /\ TypeOf[Acting(c).id] \in draft[c].put \/ kept[TypeOf[Acting(c).id]] # Nothing,
         NEW read \in Nat, NEW revision \in Nat, NEW content \in SUBSET Writers, NEW seen \in Nat,
         Acted(c, kept, read, revision, content, seen)
  PROVE  Typing(c)'
<1> SUFFICES ASSUME NEW n, n = Len(draft[c].changes), NEW x, x = Acting(c).id
             PROVE  Typing(c)'
  OBVIOUS
<1> DEFINE change == [op |-> Acting(c).op, id |-> Acting(c).id, expected |-> Acting(c).expected,
                      read |-> read, revision |-> revision, content |-> content, seen |-> seen]
           made == Drafted(c, kept, change)
           step == IF n + 2 > Len(asked[c]) THEN "check" ELSE FirstStep(asked[c][n + 2])
<1>1. /\ Acting(c) \in Operation /\ n \in Nat /\ n + 1 \in 1..Len(asked[c])
      /\ draft[c].changes \in Seq(Change) /\ x \in Iris
      /\ Tells(draft[c])
  BY ActingType DEF TypeInv, TypeOK, Draft, Operation, DraftInv, Faithful
<1>2. draft' = [draft EXCEPT ![c] = made] /\ pc' = [pc EXCEPT ![c] = step] /\ asked' = asked
  BY DEF Acted, GoesTo
<1>3. change \in Change /\ change.id = x /\ change.op = Acting(c).op
  BY <1>1 DEF Change, Operation
<1>4. /\ made.changes = Append(draft[c].changes, change) /\ made.types = kept
      /\ DOMAIN made.changes = 1..(n + 1) /\ made.changes[n + 1] = change
      /\ \A i \in 1..n : made.changes[i] = draft[c].changes[i]
      /\ DOMAIN draft[c].changes = 1..n
      /\ \A i \in 1..n : draft[c].changes[i] \in Change
  BY <1>1, <1>3 DEF Drafted
<1> HIDE DEF made, change
<1>5. draft'[c] = made /\ pc'[c] = step /\ Changes(c)' = made.changes /\ Acting(c)' = asked[c][n + 2]
  <2>1. draft'[c] = made /\ pc'[c] = step
    BY <1>2 DEF TypeInv, TypeOK
  <2>2. Len(made.changes) + 1 = n + 2
    BY <1>1, <1>3, <1>4
  <2> QED
    BY <1>2, <2>1, <2>2 DEF Changes, Acting
<1>6. /\ step \in {"check", "holds", "free", "type_holds"}
      /\ step = "type_holds" => asked[c][n + 2].op = "create"
      /\ step = "free" => asked[c][n + 2].id \in Types
  BY DEF FirstStep
<1> HIDE DEF step
<1>7. /\ DOMAIN Changes(c) = 1..n /\ DOMAIN Changes(c)' = 1..(n + 1)
      /\ \A i \in 1..n : Changes(c)'[i] = Changes(c)[i] /\ Changes(c)[i].id \in Iris
      /\ Changes(c)'[n + 1] = change
  BY <1>4, <1>5 DEF Changes, Change
<1>8. ASSUME NEW i \in 1..n, Changes(c)[i].id \notin Types, TypeTold(c, i) PROVE TypeTold(c, i)'
  <2> DEFINE T == TypeOf[Changes(c)[i].id]
  <2>1. T \in Iris /\ \A j \in 1..(i - 1) : j \in 1..n
    BY <1>1, <1>7, <1>8, TypesAssumption
  <2>2. /\ {j \in 1..(i - 1) : Changes(c)'[j].id = T} = {j \in 1..(i - 1) : Changes(c)[j].id = T}
        /\ Changes(c)'[i].id = Changes(c)[i].id
        /\ \A j \in 1..(i - 1) : Changes(c)'[j].op = Changes(c)[j].op
    BY <1>7, <2>1
  <2>3. draft[c].types[T] # Nothing => draft'[c].types[T] # Nothing
    BY <1>4, <1>5, <2>1
  <2> QED
    BY <1>8, <2>2, <2>3 DEF TypeTold
<1>9. ASSUME change.op # "delete", x \notin Types PROVE TypeTold(c, n + 1)'
  <2> DEFINE T == TypeOf[x]
             before == {j \in 1..n : Changes(c)[j].id = T}
  <2>1. T \in Iris /\ T \notin draft[c].removed /\ (T \in draft[c].put \/ kept[T] # Nothing)
    BY <1>1, <1>3, <1>9, TypesAssumption
  <2>2. before = {} => kept[T] # Nothing
    BY <1>1, <1>7, <2>1 DEF Tells, Changes
  <2>3. ASSUME NEW j \in before, \A k \in before : k <= j PROVE Changes(c)[j].op # "delete"
    <3>1. LastTo(draft[c], j)
      BY <1>7, <2>3 DEF LastTo, Changes
    <3> QED
      BY <1>1, <1>7, <2>1, <2>3, <3>1 DEF Tells, Changes
  <2>4. {j \in 1..(n + 1 - 1) : Changes(c)'[j].id = T} = before
    BY <1>1, <1>7
  <2>5. Changes(c)'[n + 1].id = x /\ draft'[c].types = kept
    BY <1>3, <1>4, <1>5, <1>7
  <2>6. \A j \in before : Changes(c)'[j].op = Changes(c)[j].op
    BY <1>7
  <2> HIDE DEF before
  <2> QED
    BY <2>2, <2>3, <2>4, <2>5, <2>6 DEF TypeTold
<1>10. ASSUME NEW i \in DOMAIN Changes(c)', Changes(c)'[i].op # "delete", Changes(c)'[i].id \notin Types
       PROVE  TypeTold(c, i)'
  <2>1. CASE i = n + 1
    BY <1>3, <1>7, <1>9, <1>10, <2>1
  <2>2. CASE i # n + 1
    <3>1. i \in 1..n
      BY <1>1, <1>7, <2>2
    <3> QED
      BY <1>7, <1>8, <1>10, <3>1 DEF Typing
  <2> QED
    BY <2>1, <2>2
<1> QED
  BY <1>5, <1>6, <1>10 DEF Typing

(* A type read is kept as read, and what was kept stays kept.              *)
LEMMA KeptStays ==
  ASSUME TypeInv, NEW c \in Calls, NEW x \in Iris, Found(c, x)
  PROVE  /\ \A y \in Iris : draft[c].types[y] # Nothing => Kept(c, x)[y] # Nothing
         /\ x \in Types => x \in draft[c].put \/ Kept(c, x)[x] # Nothing
  BY DEF Kept, Found, TypeInv, TypeOK, Draft

LEMMA TypedReading ==
  ASSUME TypeInv, DraftInv, NEW c \in Calls, Typing(c),
         FindsHeld(c) \/ ComparesExpected(c) \/ ReadsCurrent(c), ~\E answer : Ends(c, answer)
  PROVE  Typing(c)'
<1> DEFINE x == Acting(c).id
<1>1. pc[c] \in Acts /\ pc[c] \in {"holds", "expected", "current"} /\ ~Refused(c) /\ ~Escaped(c)
  BY DEF FindsHeld, ComparesExpected, ReadsCurrent, Acts, Refused, Escaped
<1>2. draft[c] \in Draft /\ Acting(c).op # "create" /\ x \in Iris
  BY <1>1, ActingType DEF TypeInv, TypeOK, DraftInv, Faithful, Operation
<1>3. Read(c, x) \in Artifact /\ Kept(c, x) \in [Iris -> Artifact]
  BY <1>1, <1>2, ReadType DEF TypeInv
<1>4. CASE Holds(c, x) /\ GoesTo(c, "expected") /\ UNCHANGED draft
  <2>1. draft' = [draft EXCEPT ![c] = draft[c]]
    BY <1>4 DEF TypeInv, TypeOK
  <2>2. Alone(c) /\ pc'[c] = "expected" /\ draft'[c] = draft[c]
    BY <1>4, <2>1, GoesAlone
  <2> QED
    BY <2>2, TypedReads
<1>5. CASE /\ pc[c] = "expected" /\ Found(c, x) /\ draft' = [draft EXCEPT ![c].types = Kept(c, x)]
           /\ GoesTo(c, "current")
  <2> DEFINE now == [draft[c] EXCEPT !.types = Kept(c, x)]
  <2>1. draft' = [draft EXCEPT ![c] = now]
    BY <1>5 DEF TypeInv, TypeOK
  <2>2. /\ now.put = draft[c].put /\ now.removed = draft[c].removed
        /\ now.changes = draft[c].changes /\ now.types = Kept(c, x)
    BY <1>2 DEF Draft
  <2> HIDE DEF now
  <2>3. Alone(c) /\ pc'[c] = "current" /\ draft'[c] = now
    BY <1>5, <2>1, GoesAlone
  <2>4. \A y \in Iris : draft[c].types[y] # Nothing => Kept(c, x)[y] # Nothing
    BY <1>2, <1>5, KeptStays
  <2> QED
    BY <2>2, <2>3, <2>4, TypedReads
<1>6. CASE /\ pc[c] = "current" /\ Found(c, x) /\ (Acting(c).op = "delete" \/ x \in Types)
           /\ Revises(c, Kept(c, x), Read(c, x))
  <2> DEFINE written == IF Acting(c).op = "append" THEN Read(c, x).content \cup {c}
                        ELSE IF Acting(c).op = "write" THEN {c} ELSE {}
  <2>1. /\ Read(c, x).revision \in Nat /\ Read(c, x).revision + 1 \in Nat
        /\ Read(c, x).landed \in Nat /\ written \in SUBSET Writers
    BY <1>3 DEF Artifact, Writers
  <2>2. Acted(c, Kept(c, x), Read(c, x).revision, Read(c, x).revision + 1, written, Read(c, x).landed)
    BY <1>6 DEF Revises
  <2>3. \A y \in Iris : draft[c].types[y] # Nothing => Kept(c, x)[y] # Nothing
    BY <1>2, <1>6, KeptStays
  <2> HIDE DEF written
  <2> QED
    BY <1>1, <1>3, <1>6, <2>1, <2>2, <2>3, TypedActed
<1>7. CASE /\ pc[c] = "current" /\ Acting(c).op # "delete"
           /\ draft' = [draft EXCEPT ![c].current = Read(c, x)] /\ GoesTo(c, "type_holds")
  <2> DEFINE now == [draft[c] EXCEPT !.current = Read(c, x)]
  <2>1. draft' = [draft EXCEPT ![c] = now]
    BY <1>7 DEF TypeInv, TypeOK
  <2>2. /\ now.put = draft[c].put /\ now.removed = draft[c].removed
        /\ now.changes = draft[c].changes /\ now.types = draft[c].types
    BY <1>2 DEF Draft
  <2> HIDE DEF now
  <2>3. Alone(c) /\ pc'[c] = "type_holds" /\ draft'[c] = now
    BY <1>7, <2>1, GoesAlone
  <2> QED
    BY <1>7, <2>2, <2>3, TypedReads
<1> QED
  BY <1>1, <1>4, <1>5, <1>6, <1>7 DEF FindsHeld, ComparesExpected, ReadsCurrent

LEMMA TypedTyping ==
  ASSUME TypeInv, DraftInv, NEW c \in Calls, Typing(c),
         FindsTypeHeld(c) \/ ReadsType(c) \/ FindsFree(c), ~\E answer : Ends(c, answer)
  PROVE  Typing(c)'
<1> DEFINE x == Acting(c).id
           type == TypeOf[x]
<1>1. pc[c] \in Acts /\ pc[c] \in {"type_holds", "type_read", "free"} /\ ~Refused(c) /\ ~Escaped(c)
  BY DEF FindsTypeHeld, ReadsType, FindsFree, Acts, Refused, Escaped
<1>2. /\ draft[c] \in Draft /\ draft[c].current \in Artifact /\ x \in Iris
      /\ draft[c].types \in [Iris -> Artifact]
  BY <1>1, ActingType DEF TypeInv, TypeOK, Operation, Draft
<1>3. pc[c] \in {"type_holds", "type_read"} => type \in Iris /\ type \in Types
  BY <1>1, <1>2, TypesAssumption DEF TypeInv, Placed
<1>4. CASE pc[c] = "type_holds" /\ Holds(c, type) /\ GoesTo(c, "type_read") /\ UNCHANGED draft
  <2>1. draft' = [draft EXCEPT ![c] = draft[c]]
    BY <1>4 DEF TypeInv, TypeOK
  <2>2. Alone(c) /\ pc'[c] = "type_read" /\ draft'[c] = draft[c]
    BY <1>4, <2>1, GoesAlone
  <2>3. Acting(c).op # "delete" /\ type \notin draft[c].removed
    BY <1>4 DEF Typing, Holds
  <2> QED
    BY <2>2, <2>3, TypedReads
<1>5. CASE ReadsType(c)
  <2>1. pc[c] = "type_read" /\ Found(c, type)
    BY <1>1, <1>5 DEF ReadsType
  <2>2. /\ Kept(c, type) \in [Iris -> Artifact]
        /\ \A y \in Iris : draft[c].types[y] # Nothing => Kept(c, type)[y] # Nothing
        /\ type \in draft[c].put \/ Kept(c, type)[type] # Nothing
        /\ type \notin draft[c].removed
    BY <1>3, <2>1, ReadType, KeptStays DEF Typing, TypeInv
  <2>3. CASE Acting(c).op = "create" /\ draft' = [draft EXCEPT ![c].types = Kept(c, type)]
             /\ GoesTo(c, "free")
    <3> DEFINE now == [draft[c] EXCEPT !.types = Kept(c, type)]
    <3>1. draft' = [draft EXCEPT ![c] = now]
      BY <2>3 DEF TypeInv, TypeOK
    <3>2. /\ now.put = draft[c].put /\ now.removed = draft[c].removed
          /\ now.changes = draft[c].changes /\ now.types = Kept(c, type)
      BY <1>2 DEF Draft
    <3> HIDE DEF now
    <3>3. Alone(c) /\ pc'[c] = "free" /\ draft'[c] = now
      BY <2>3, <3>1, GoesAlone
    <3> QED
      BY <2>2, <3>2, <3>3, TypedReads
  <2>4. CASE Acting(c).op # "create" /\ Revises(c, Kept(c, type), draft[c].current)
    <3> DEFINE current == draft[c].current
               written == IF Acting(c).op = "append" THEN current.content \cup {c}
                          ELSE IF Acting(c).op = "write" THEN {c} ELSE {}
    <3>1. /\ current.revision \in Nat /\ current.revision + 1 \in Nat
          /\ current.landed \in Nat /\ written \in SUBSET Writers
      BY <1>2 DEF Artifact, Writers
    <3>2. Acted(c, Kept(c, type), current.revision, current.revision + 1, written, current.landed)
      BY <2>4 DEF Revises
    <3> HIDE DEF written
    <3> QED
      BY <1>1, <2>2, <3>1, <3>2, TypedActed
  <2> QED
    BY <1>1, <1>5, <2>3, <2>4 DEF ReadsType
<1>6. CASE /\ pc[c] = "free" /\ (x \notin Types => Holds(c, type))
           /\ Acted(c, draft[c].types, 0, 1, {c}, 0)
  <2>1. {c} \in SUBSET Writers
    BY DEF Writers
  <2>2. x \notin Types => /\ type \notin draft[c].removed
                          /\ type \in draft[c].put \/ draft[c].types[type] # Nothing
    BY <1>6 DEF Typing, Holds
  <2> QED
    BY <1>1, <1>2, <1>6, <2>1, <2>2, TypedActed
<1> QED
  BY <1>1, <1>4, <1>5, <1>6 DEF FindsTypeHeld, FindsFree

LEMMA TypedOwn ==
  ASSUME TypeInv, DraftInv, NEW c \in Calls, Typing(c),
         Ask(c) \/ Step(c) \/ GivesUp(c) \/ Crashes(c)
  PROVE  Typing(c)'
<1>1. Faithful(c) /\ draft[c] \in Draft
  BY DEF DraftInv, TypeInv, TypeOK
<1>2. ASSUME NEW answer, Ends(c, answer) PROVE Typing(c)'
  <2>1. draft'[c] = Blank /\ asked'[c] \in Seq(Operation) /\ pc'[c] = "done"
    BY <1>2 DEF Ends, TypeInv, TypeOK
  <2> QED
    BY <2>1, TypedBlank
<1>3. CASE Ask(c) \/ Relocks(c)
  <2>1. PICK set \in Sets : asked'[c] = set /\ pc'[c] = FirstStep(set[1]) /\ draft'[c] = Blank
    <3>1. CASE Ask(c)
      <4>1. draft[c] = Blank
        BY <1>1, <3>1 DEF Ask, Faithful
      <4> QED
        BY <3>1, <4>1 DEF Ask, TypeInv, TypeOK
    <3>2. CASE Relocks(c)
      BY <3>2 DEF Relocks, TypeInv, TypeOK, Placed
    <3> QED
      BY <1>3, <3>1, <3>2
  <2>2. set \in Seq(Operation) /\ Len(set) # 0
    BY SetsAssumption
  <2> QED
    BY <2>1, <2>2, TypedBlank
<1>4. CASE FindsHeld(c) \/ ComparesExpected(c) \/ ReadsCurrent(c)
  BY <1>2, <1>4, TypedReading
<1>5. CASE FindsTypeHeld(c) \/ ReadsType(c) \/ FindsFree(c)
  BY <1>2, <1>5, TypedTyping
<1>6. CASE Checks(c)
  <2>1. ASSUME NEW moments, draft' = [draft EXCEPT ![c].moments = moments],
               NEW step \in {"relock", "mint"}, GoesTo(c, step)
        PROVE  Typing(c)'
    <3> DEFINE now == [draft[c] EXCEPT !.moments = moments]
    <3>1. draft' = [draft EXCEPT ![c] = now]
      BY <2>1 DEF TypeInv, TypeOK
    <3>2. /\ now.put = draft[c].put /\ now.removed = draft[c].removed
          /\ now.changes = draft[c].changes /\ now.types = draft[c].types
      BY <1>1 DEF Draft
    <3> HIDE DEF now
    <3>3. Alone(c) /\ pc'[c] = step /\ draft'[c] = now
      BY <2>1, <3>1, GoesAlone
    <3> QED
      BY <3>2, <3>3, TypedReads
  <2> QED
    BY <1>2, <1>6, <2>1 DEF Checks, Refused
<1>7. CASE Mints(c) \/ (Lands(c) /\ GoesTo(c, "relock") /\ UNCHANGED draft)
  <2>1. Alone(c) /\ pc'[c] \in {"land", "relock"} /\ draft'[c] = draft[c]
    BY <1>7 DEF Mints, GoesTo, Alone, TypeInv, TypeOK
  <2> QED
    BY <2>1, TypedReads
<1>8. CASE Commits(c)
  <2>1. draft'[c] = Blank /\ asked'[c] \in Seq(Operation) /\ pc'[c] = "landed"
    BY <1>8 DEF Commits, TypeInv, TypeOK
  <2> QED
    BY <2>1, TypedBlank
<1>9. CASE Lands(c)
  BY <1>2, <1>7, <1>8, <1>9 DEF Lands, Refused, Escaped
<1>10. CASE Answers(c) \/ GivesUp(c) \/ Crashes(c)
  BY <1>2, <1>10 DEF Answers, GivesUp, Crashes
<1> QED
  BY <1>3, <1>4, <1>5, <1>6, <1>7, <1>9, <1>10 DEF Step

TypingInv == \A c \in Calls : Typing(c)

LEMMA TypingInit == Init => TypingInv
<1> SUFFICES ASSUME Init, NEW c \in Calls PROVE Typing(c)
  BY DEF TypingInv
<1>1. pc[c] = "idle" /\ Changes(c) = <<>>
  BY DEF Init, Changes, Blank
<1> QED
  BY <1>1 DEF Typing

LEMMA TypingStep == TypeInv /\ DraftInv /\ TypingInv /\ [Next]_vars => TypingInv'
<1> SUFFICES ASSUME TypeInv, DraftInv, TypingInv, [Next]_vars, NEW c \in Calls PROVE Typing(c)'
  BY DEF TypingInv
<1>1. Typing(c)
  BY DEF TypingInv
<1>2. CASE UNCHANGED vars
  BY <1>1, <1>2, TypedSame DEF vars
<1>3. ASSUME NEW d \in Calls, d # c, Ask(d) \/ Step(d) \/ GivesUp(d) \/ Crashes(d) PROVE Typing(c)'
  BY <1>1, <1>3, OthersStep, TypedSame
<1>4. CASE Ask(c) \/ Step(c) \/ GivesUp(c) \/ Crashes(c)
  BY <1>1, <1>4, TypedOwn
<1> QED
  BY <1>2, <1>3, <1>4 DEF Next, AllAnswered

-----------------------------------------------------------------------------
(* What a landing leaves is what its operations make, one by one, of the   *)
(* store it lands on.                                                      *)

(* No operation of a set says the revision it read.                        *)
SaysNoRevision == \A set \in Sets : \A i \in DOMAIN set : set[i].expected = 0

(* No set removes what it makes.                                           *)
KeepsWhatItMakes == \A set \in Sets : \A i, j \in DOMAIN set :
  set[i].op = "create" /\ set[j].op = "delete" => set[i].id # set[j].id

(* The type a change was drafted under stands where its set lands: the set *)
(* itself changes it as it read it, or the landing finds it unmoved.       *)
LEMMA TypeStands ==
  ASSUME RisenInv, RisenInv', TypesHeld, KeepsWhatItMakes, NEW c \in Calls, Based(c),
         pc[c] = "land", ~Conflicts(c), Commits(c),
         NEW n \in DOMAIN Changes(c), NEW x, x = Changes(c)[n].id, x \notin Types,
         draft[c].types[TypeOf[x]] # Nothing
  PROVE  artifacts[TypeOf[x]].revision # 0
<1> DEFINE T == TypeOf[x]
<1>1. /\ TypeInv /\ DraftInv /\ Numbered /\ Changes(c) \in Seq(Change)
      /\ Tells(draft[c]) /\ Sees(draft[c]) /\ Follows(draft[c], asked[c])
      /\ \A i \in DOMAIN Changes(c) : Raises(Changes(c)[i]) /\ Changes(c)[i] \in Change
      /\ \A y \in Iris : Stands(artifacts[y])
      /\ asked[c] \in Sets /\ draft[c].types \in [Iris -> Artifact]
      /\ Len(asked[c]) \in Nat /\ Len(Changes(c)) = Len(asked[c])
  <2>1. TypeInv /\ DraftInv /\ Numbered /\ Changes(c) \in Seq(Change) /\ draft[c].types \in [Iris -> Artifact]
    BY DEF RisenInv, HistoryInv, TypeInv, TypeOK, Draft, Changes
  <2>2. asked[c] \in Sets /\ Len(asked[c]) \in Nat
    BY <2>1 DEF TypeInv, TypeOK, Placed
  <2>3. \A i \in DOMAIN Changes(c) : Changes(c)[i] \in Change
    BY <2>1
  <2>4. Faithful(c) /\ \A y \in Iris : Stands(artifacts[y])
    BY <2>1 DEF DraftInv
  <2> QED
    BY <2>1, <2>2, <2>3, <2>4 DEF Faithful
<1>2. x \in Iris /\ T \in Iris /\ T \in Types
  BY <1>1, TypesAssumption DEF Change
<1>3. /\ AsSeen(T, draft[c].types[T]) /\ draft[c].types[T].revision # 0
      /\ draft[c].types[T].revision \in Nat
  BY <1>1, <1>2 DEF Based, Sees, Stands, Artifact
<1>4. /\ entries' = entries \cup {EntryOf(c, i) : i \in DOMAIN Changes(c)}
      /\ \A e \in entries : \A i \in DOMAIN Changes(c) : Precedes(e, EntryOf(c, i))
      /\ entries \subseteq Entry
  BY <1>1, LandingEntries
<1>5. CASE On(c, T) # {}
  <2>1. PICK k \in On(c, T) : Earlier(c, k) = {}
    BY <1>1, <1>5, OnEnds
  <2>2. k \in DOMAIN Changes(c) /\ Changes(c)[k].id = T
    BY DEF On
  <2>3. artifacts[T].revision = Changes(c)[k].read
    BY <2>1, <2>2 DEF Conflicts, Moved, FindsAt
  <2>4. ASSUME Changes(c)[k].read = 0 PROVE FALSE
    <3>1. PICK e \in Told(T) : draft[c].types[T].revision <= e.revision
      BY <1>3 DEF AsSeen
    <3>2. e \in entries /\ e.artifact = T /\ e.revision \in Nat
      BY <1>4, <3>1 DEF Told, Entry
    <3>3. /\ EntryOf(c, k) \in entries' /\ EntryOf(c, k).artifact = T
          /\ EntryOf(c, k).revision = Changes(c)[k].revision
      BY <1>4, <2>2 DEF EntryOf
    <3>4. e \in entries' /\ Precedes(e, EntryOf(c, k))
      BY <1>4, <2>2, <3>2
    <3>5. e.revision < Changes(c)[k].revision
      BY <3>2, <3>3, <3>4 DEF RisenInv, Rising
    <3>6. Changes(c)[k].revision = 1
      BY <1>1, <2>2, <2>4 DEF Raises
    <3> QED
      BY <1>3, <3>1, <3>2, <3>5, <3>6
  <2> QED
    BY <2>3, <2>4
<1>6. CASE On(c, T) = {} /\ x \in Left(c)
  <2>1. T \notin draft[c].put \cup draft[c].removed
    BY <1>1, <1>6 DEF Tells, On, Changes
  <2>2. T \in Through(c)
    BY <1>6, <2>1 DEF Through
  <2> QED
    BY <1>3, <2>2 DEF Conflicts, TypeMoved
<1>7. CASE x \notin Left(c)
  <2>1. n \in On(c, x)
    BY DEF On
  <2>2. PICK j \in On(c, x) : LastTo(draft[c], j)
    BY <1>1, <2>1, OnEnds
  <2>3. PICK k \in On(c, x) : Earlier(c, k) = {}
    BY <1>1, <2>1, OnEnds
  <2>4. Changes(c)[j].op = "delete" /\ j \in DOMAIN Changes(c) /\ Changes(c)[j].id = x
    BY <1>1, <1>7, <2>2 DEF Tells, Left, On, Changes
  <2>5. k \in DOMAIN Changes(c) /\ Changes(c)[k].id = x
    BY DEF On
  <2>6. /\ j \in DOMAIN asked[c] /\ asked[c][j].op = "delete" /\ asked[c][j].id = x
        /\ k \in DOMAIN asked[c] /\ asked[c][k].op = Changes(c)[k].op /\ asked[c][k].id = x
    <3>1. DOMAIN asked[c] = DOMAIN Changes(c)
      BY <1>1 DEF TypeInv, TypeOK
    <3> QED
      BY <1>1, <2>4, <2>5, <3>1 DEF Follows, Changes
  <2>7. Changes(c)[k].op # "create"
    BY <1>1, <2>6 DEF KeepsWhatItMakes
  <2>8. artifacts[x].revision # 0
    BY <1>1, <2>3, <2>5, <2>7 DEF Conflicts, Moved, FindsAt, Raises
  <2>9. artifacts[T] # Nothing
    BY <1>2, <2>8 DEF TypesHeld, Nothing
  <2> QED
    BY <1>1, <1>2, <2>9 DEF Stands
<1> QED
  BY <1>5, <1>6, <1>7

(* What the j-th change of a set leaves, as SerialStore has it.            *)
LeftBy(c, j) ==
  IF Changes(c)[j].op = "delete" THEN Serial!None
  ELSE [revision |-> Changes(c)[j].revision, content |-> Changes(c)[j].content]

LeavesAfter(c, so, m) == \A x \in Iris :
  /\ (\A j \in 1..m : asked[c][j].id # x) => so[m].now[x] = HeldNow[x]
  /\ \A j \in 1..m : LastIn(c, m, x, j) => so[m].now[x] = LeftBy(c, j)

(* Some operation of the first m is the last about x, if any is about it.  *)
LEMMA LastInThere ==
  ASSUME NEW c \in Calls, NEW m \in Nat, NEW x, NEW i \in 1..m, asked[c][i].id = x
  PROVE  \E j \in 1..m : LastIn(c, m, x, j)
<1> DEFINE S == {j \in 1..m : asked[c][j].id = x}
<1>1. S \in SUBSET Nat /\ S # {} /\ \A j \in S : j <= m
  OBVIOUS
<1>2. PICK j \in S : \A k \in S : k <= j
  <2> HIDE DEF S
  <2> QED
    BY <1>1, HighestExists
<1> QED
  BY <1>2 DEF LastIn

(* The n-th change of a landing acts on what the operations before it leave.*)
LEMMA LandingFinds ==
  ASSUME RisenInv, NEW c \in Calls, Based(c), pc[c] = "land", ~Conflicts(c),
         NEW so, OneByOne(c, so), NEW n \in 1..Len(asked[c]), LeavesAfter(c, so, n - 1),
         NEW stands, stands = so[n - 1].now[asked[c][n].id]
  PROVE  /\ stands.revision = Changes(c)[n].read
         /\ stands = Serial!None <=> Changes(c)[n].op = "create"
         /\ Changes(c)[n].op = "append" => Changes(c)[n].content = stands.content \cup {c}
         /\ Changes(c)[n].op \in {"create", "write"} => Changes(c)[n].content = {c}
<1> DEFINE x == asked[c][n].id
<1>1. /\ TypeInv /\ DraftInv /\ Changes(c) \in Seq(Change)
      /\ \A i \in DOMAIN Changes(c) : Raises(Changes(c)[i])
      /\ \A y \in Iris : Stands(artifacts[y])
      /\ Len(asked[c]) \in Nat /\ Len(Changes(c)) = Len(asked[c])
      /\ \A i \in DOMAIN Changes(c) : Changes(c)[i].id = asked[c][i].id
  BY DEF RisenInv, HistoryInv, DraftInv, Faithful, Follows, TypeInv, TypeOK, Draft, Changes
<1>2. /\ DOMAIN Changes(c) = 1..Len(asked[c]) /\ n \in DOMAIN Changes(c) /\ n \in Nat /\ n - 1 \in Nat
      /\ Changes(c)[n].id = x /\ x \in Iris /\ Changes(c)[n].op \in {"create", "write", "append", "delete"}
      /\ \A i \in DOMAIN Changes(c) : Changes(c)[i].revision \in Nat /\ Changes(c)[i].read \in Nat
      /\ \A j \in 1..(n - 1) : j \in DOMAIN Changes(c)
  <2>1. \A i \in DOMAIN Changes(c) : Changes(c)[i] \in Change
    BY <1>1
  <2>2. DOMAIN Changes(c) = 1..Len(asked[c]) /\ n \in DOMAIN Changes(c) /\ n \in Nat /\ n - 1 \in Nat
    BY <1>1
  <2>3. \A j \in 1..(n - 1) : j \in DOMAIN Changes(c)
    BY <1>1, <2>2
  <2> QED
    BY <1>1, <2>1, <2>2, <2>3 DEF Change
<1>3. FindsAt(c, n, Changes(c)[n].read)
  BY <1>2 DEF Conflicts, Moved
<1>4. n \in On(c, x)
  BY <1>2 DEF On
<1>5. PICK k \in On(c, x) : Earlier(c, k) = {}
  BY <1>1, <1>4, OnEnds
<1>6. BasedOn(c, k, artifacts[x]) /\ Changes(c)[k].id = x
  BY <1>1, <1>5, FindsSeen DEF Conflicts, On
<1>7. Changes(c)[n].op \in {"create", "write"} => Changes(c)[n].content = {c}
  <2>1. Changes(c)[n].op \in {"create", "write"} => MadeWhole(c, n)
    BY <1>2 DEF MadeWhole
  <2> QED
    BY <1>4, <1>6, <2>1 DEF BasedOn
<1>8. Changes(c)[n].op = "append" =>
        Changes(c)[n].content = IF MadeWhole(c, n) THEN {c} ELSE artifacts[x].content \cup {c}
  BY <1>4, <1>6 DEF BasedOn
<1>9. CASE \A j \in 1..(n - 1) : asked[c][j].id # x
  <2>1. Earlier(c, n) = {}
    BY <1>1, <1>2, <1>9 DEF Earlier
  <2>2. stands = [revision |-> artifacts[x].revision, content |-> artifacts[x].content]
    BY <1>2, <1>9 DEF LeavesAfter, HeldNow
  <2>3. artifacts[x].revision = Changes(c)[n].read
    BY <1>2, <1>3, <2>1 DEF FindsAt
  <2>4. artifacts[x].revision = 0 => artifacts[x].content = {}
    BY <1>1, <1>2 DEF Stands, Nothing
  <2>5. stands = Serial!None <=> artifacts[x].revision = 0
    <3>1. artifacts[x].revision = 0 => stands = Serial!None
      BY <2>2, <2>4 DEF Serial!None
    <3>2. stands.revision = artifacts[x].revision /\ Serial!None.revision = 0
      BY <2>2 DEF Serial!None
    <3> QED
      BY <3>1, <3>2
  <2>6. Changes(c)[n].op = "append" => ~MadeWhole(c, n)
    <3>1. ASSUME NEW i \in DOMAIN Changes(c), i <= n, Changes(c)[i].id = x PROVE i = n
      <4>1. i \in 1..(n - 1) \/ i = n
        BY <1>2, <3>1
      <4> QED
        BY <1>1, <1>9, <3>1, <4>1
    <3> QED
      BY <1>2, <3>1 DEF MadeWhole
  <2>7. Changes(c)[n].op = "create" <=> Changes(c)[n].read = 0
    BY <1>1, <1>2 DEF Raises
  <2> QED
    BY <1>7, <1>8, <2>2, <2>3, <2>5, <2>6, <2>7
<1>10. CASE \E j \in 1..(n - 1) : asked[c][j].id = x
  <2>1. PICK j \in 1..(n - 1) : LastIn(c, n - 1, x, j)
    BY <1>2, <1>10, LastInThere
  <2>2. /\ stands = LeftBy(c, j) /\ j \in DOMAIN Changes(c) /\ Changes(c)[j].id = x
        /\ \A i \in 1..(n - 1) : Changes(c)[i].id = x => i <= j
    BY <1>1, <1>2, <2>1 DEF LeavesAfter, LastIn
  <2>3. j \in Earlier(c, n) /\ \A i \in Earlier(c, n) : i <= j
    BY <1>2, <2>1, <2>2 DEF Earlier
  <2>4. LeftAt(Changes(c)[j]) = Changes(c)[n].read
    BY <1>3, <2>3 DEF FindsAt
  <2>5. Changes(c)[n].op = "create" <=> Changes(c)[n].read = 0
    BY <1>1, <1>2 DEF Raises
  <2>6. CASE Changes(c)[j].op = "delete"
    <3>1. stands = Serial!None /\ Changes(c)[n].read = 0 /\ stands.revision = 0
      BY <2>2, <2>4, <2>6 DEF LeftBy, LeftAt, Serial!None
    <3> QED
      BY <1>7, <2>5, <3>1
  <2>7. CASE Changes(c)[j].op # "delete"
    <3>1. /\ stands = [revision |-> Changes(c)[j].revision, content |-> Changes(c)[j].content]
          /\ Changes(c)[n].read = Changes(c)[j].revision
      BY <2>2, <2>4, <2>7 DEF LeftBy, LeftAt
    <3>2. Changes(c)[j].revision # 0
      BY <1>1, <1>2, <2>2 DEF Raises
    <3>3. stands # Serial!None
      BY <3>1, <3>2 DEF Serial!None
    <3>4. ASSUME Changes(c)[n].op = "append" PROVE MadeWhole(c, n) <=> MadeWhole(c, j)
      <4>1. ASSUME NEW i \in DOMAIN Changes(c), Changes(c)[i].id = x, Changes(c)[i].op \in {"create", "write"}
            PROVE  i <= n <=> i <= j
        <5>1. i # n /\ (i <= n - 1 => i \in 1..(n - 1))
          BY <1>2, <3>4, <4>1
        <5> QED
          BY <1>2, <2>1, <2>2, <4>1, <5>1
      <4> QED
        BY <1>2, <2>2, <4>1 DEF MadeWhole
    <3>5. Changes(c)[j].content = IF MadeWhole(c, j) THEN {c} ELSE artifacts[x].content \cup {c}
      BY <1>6, <2>2, <2>7 DEF BasedOn, On
    <3>6. Changes(c)[n].op = "append" => Changes(c)[n].content = stands.content \cup {c}
      <4>1. stands.content = Changes(c)[j].content
        BY <3>1
      <4> QED
        BY <1>8, <3>4, <3>5, <4>1
    <3>7. stands.revision = Changes(c)[n].read
      BY <3>1
    <3> QED
      BY <1>7, <2>5, <3>1, <3>2, <3>3, <3>6, <3>7
  <2> QED
    BY <2>6, <2>7
<1> QED
  BY <1>9, <1>10

LEMMA LandingAllows ==
  ASSUME RisenInv, RisenInv', TypesHeld, SaysNoRevision, KeepsWhatItMakes,
         NEW c \in Calls, Based(c), Typing(c), pc[c] = "land", ~Conflicts(c), Commits(c),
         NEW so, OneByOne(c, so), NEW n \in 1..Len(asked[c]), LeavesAfter(c, so, n - 1)
  PROVE  Serial!Allowed(so[n - 1].now, asked[c][n])
<1> DEFINE x == asked[c][n].id
           now == so[n - 1].now
           T == TypeOf[x]
<1>1. /\ TypeInv /\ DraftInv /\ Changes(c) \in Seq(Change) /\ Sees(draft[c])
      /\ \A i \in DOMAIN Changes(c) : Raises(Changes(c)[i])
      /\ asked[c] \in Sets /\ Len(asked[c]) \in Nat /\ Len(Changes(c)) = Len(asked[c])
      /\ \A i \in DOMAIN Changes(c) : Changes(c)[i].id = asked[c][i].id /\ Changes(c)[i].op = asked[c][i].op
  <2>1. TypeInv /\ DraftInv /\ Changes(c) \in Seq(Change)
    BY DEF RisenInv, HistoryInv, TypeInv, TypeOK, Draft, Changes
  <2>2. asked[c] \in Sets /\ Len(asked[c]) \in Nat
    BY <2>1 DEF TypeInv, TypeOK, Placed
  <2>3. Faithful(c)
    BY <2>1 DEF DraftInv
  <2> QED
    BY <2>1, <2>2, <2>3 DEF Faithful, Follows, Changes
<1>2. /\ n \in DOMAIN Changes(c) /\ n \in DOMAIN asked[c] /\ n \in Nat /\ n - 1 \in Nat
      /\ asked[c][n] \in Operation /\ x \in Iris /\ Changes(c)[n].id = x
      /\ \A j \in 1..(n - 1) : j \in DOMAIN Changes(c) /\ j \in 1..Len(asked[c])
      /\ \A i \in DOMAIN Changes(c) : Changes(c)[i].revision \in Nat /\ Changes(c)[i].read \in Nat
  <2>1. n \in DOMAIN Changes(c) /\ n \in DOMAIN asked[c] /\ n \in Nat /\ n - 1 \in Nat
    BY <1>1 DEF TypeInv, TypeOK
  <2>2. asked[c][n] \in Operation
    BY <1>1, <2>1 DEF TypeInv, TypeOK
  <2>3. \A i \in DOMAIN Changes(c) : Changes(c)[i] \in Change
    BY <1>1
  <2>4. \A j \in 1..(n - 1) : j \in DOMAIN Changes(c) /\ j \in 1..Len(asked[c])
    BY <1>1, <2>1
  <2> QED
    BY <1>1, <2>1, <2>2, <2>3, <2>4 DEF Change, Operation
<1> HIDE DEF now
<1>3. (now[x] = Serial!None) <=> asked[c][n].op = "create"
  <2>1. now[x] = so[n - 1].now[asked[c][n].id]
    BY DEF now
  <2> HIDE DEF x
  <2>2. (now[x] = Serial!None) <=> Changes(c)[n].op = "create"
    BY <2>1, LandingFinds
  <2> QED
    BY <1>1, <1>2, <2>2
<1>4. asked[c][n].expected = 0
  BY <1>1, <1>2 DEF SaysNoRevision
<1>5. ASSUME asked[c][n].op # "delete", x \notin Types PROVE now[T] # Serial!None
  <2>1. T \in Iris
    BY <1>2, <1>5, TypesAssumption
  <2> DEFINE before == {j \in 1..(n - 1) : Changes(c)[j].id = T}
  <2>2. IF before = {} THEN draft[c].types[T] # Nothing
        ELSE \A j \in before : (\A k \in before : k <= j) => Changes(c)[j].op # "delete"
    <3>1. TypeTold(c, n)
      BY <1>1, <1>2, <1>5 DEF Typing
    <3> QED
      BY <1>2, <3>1 DEF TypeTold
  <2>3. CASE before = {}
    <3>1. artifacts[T].revision # 0
      BY <1>2, <1>5, <2>2, <2>3, TypeStands
    <3>2. \A j \in 1..(n - 1) : asked[c][j].id # T
      BY <1>1, <1>2, <2>3
    <3>3. now[T] = [revision |-> artifacts[T].revision, content |-> artifacts[T].content]
      BY <2>1, <3>2 DEF LeavesAfter, HeldNow, now
    <3>4. now[T].revision # Serial!None.revision
      BY <3>1, <3>3 DEF Serial!None
    <3> QED
      BY <3>4
  <2>4. CASE before # {}
    <3>1. PICK i \in 1..(n - 1) : asked[c][i].id = T
      BY <1>1, <1>2, <2>4
    <3>2. PICK j \in 1..(n - 1) : LastIn(c, n - 1, T, j)
      BY <1>2, <3>1, LastInThere
    <3>3. j \in before /\ \A k \in before : k <= j
      BY <1>1, <1>2, <3>2 DEF LastIn
    <3>4. now[T] = [revision |-> Changes(c)[j].revision, content |-> Changes(c)[j].content]
      BY <2>1, <2>2, <2>4, <3>2, <3>3 DEF LeavesAfter, LeftBy, now
    <3>5. Changes(c)[j].revision # 0
      BY <1>1, <1>2, <3>2 DEF Raises
    <3>6. now[T].revision # Serial!None.revision
      BY <3>4, <3>5 DEF Serial!None
    <3> QED
      BY <3>6
  <2> QED
    BY <2>3, <2>4
<1>6. Serial!Allowed(now, asked[c][n])
  BY <1>3, <1>4, <1>5 DEF Serial!Allowed
<1> QED
  BY <1>6 DEF now

LEMMA LandingLeaves ==
  ASSUME RisenInv, NEW c \in Calls, Based(c), pc[c] = "land", ~Conflicts(c),
         NEW so, OneByOne(c, so), NEW n \in 1..Len(asked[c]), LeavesAfter(c, so, n - 1), so[n].fits
  PROVE  LeavesAfter(c, so, n)
<1> DEFINE was == so[n - 1].now
           stands == was[asked[c][n].id]
           leaves == Serial!Leaves(c, was, asked[c][n])
<1>1. /\ TypeInv /\ Len(asked[c]) \in Nat /\ asked[c][n] \in Operation /\ n \in Nat
      /\ Changes(c)[n].op = asked[c][n].op /\ Changes(c)[n] \in Change /\ Raises(Changes(c)[n])
  <2>1. TypeInv /\ DraftInv /\ Changes(c) \in Seq(Change) /\ asked[c] \in Seq(Operation)
    BY DEF RisenInv, HistoryInv, TypeInv, TypeOK, Draft, Changes
  <2>2. Len(Changes(c)) = Len(asked[c]) /\ n \in DOMAIN Changes(c)
    BY <2>1 DEF DraftInv, Faithful
  <2> QED
    BY <2>1, <2>2 DEF DraftInv, Faithful, Follows, Changes
<1>2. \A x \in Iris : so[n].now[x] = IF x = asked[c][n].id THEN leaves ELSE was[x]
  BY <1>1, FitsEach
<1>3. leaves = LeftBy(c, n)
  <2>1. /\ stands.revision = Changes(c)[n].read
        /\ Changes(c)[n].op = "append" => Changes(c)[n].content = stands.content \cup {c}
        /\ Changes(c)[n].op \in {"create", "write"} => Changes(c)[n].content = {c}
    BY LandingFinds
  <2>2. Changes(c)[n].op \in {"create", "write", "append", "delete"}
    BY <1>1 DEF Change
  <2>3. Changes(c)[n].revision = stands.revision + 1
    BY <1>1, <2>1 DEF Raises
  <2>4. leaves = IF asked[c][n].op = "delete" THEN Serial!None
                 ELSE IF asked[c][n].op = "append"
                 THEN [revision |-> stands.revision + 1, content |-> stands.content \cup {c}]
                 ELSE [revision |-> stands.revision + 1, content |-> {c}]
    BY DEF Serial!Leaves
  <2> HIDE DEF stands, leaves
  <2> QED
    BY <1>1, <2>1, <2>2, <2>3, <2>4 DEF LeftBy
<1> HIDE DEF leaves, was, stands
<1> SUFFICES ASSUME NEW x \in Iris
             PROVE  /\ (\A j \in 1..n : asked[c][j].id # x) => so[n].now[x] = HeldNow[x]
                    /\ \A j \in 1..n : LastIn(c, n, x, j) => so[n].now[x] = LeftBy(c, j)
  BY DEF LeavesAfter
<1>4. /\ (\A j \in 1..(n - 1) : asked[c][j].id # x) => was[x] = HeldNow[x]
      /\ \A j \in 1..(n - 1) : LastIn(c, n - 1, x, j) => was[x] = LeftBy(c, j)
  BY DEF LeavesAfter, was
<1>5. CASE asked[c][n].id = x
  <2>1. n \in 1..n /\ so[n].now[x] = leaves
    BY <1>1, <1>2, <1>5
  <2>2. \A j \in 1..n : LastIn(c, n, x, j) => j = n
    BY <1>1, <1>5, <2>1 DEF LastIn
  <2> QED
    BY <1>3, <1>5, <2>1, <2>2
<1>6. CASE asked[c][n].id # x
  <2>1. so[n].now[x] = was[x] /\ 1..n = 1..(n - 1) \cup {n}
    BY <1>1, <1>2, <1>6
  <2>2. \A j \in 1..n : LastIn(c, n, x, j) => j \in 1..(n - 1) /\ LastIn(c, n - 1, x, j)
    BY <1>6, <2>1 DEF LastIn
  <2> QED
    BY <1>4, <2>1, <2>2
<1> QED
  BY <1>5, <1>6

(* Each operation of a set that lands is allowed after the ones before it. *)
LEMMA LandingFits ==
  ASSUME RisenInv, RisenInv', TypesHeld, SaysNoRevision, KeepsWhatItMakes,
         NEW c \in Calls, Based(c), Typing(c), pc[c] = "land", ~Conflicts(c), Commits(c),
         NEW so, OneByOne(c, so)
  PROVE  so[Len(asked[c])].fits /\ LeavesAfter(c, so, Len(asked[c]))
<1> DEFINE L == Len(asked[c])
           Good(n) == so[n].fits /\ LeavesAfter(c, so, n)
           Bad == {n \in 0..L : ~Good(n)}
<1>1. L \in Nat /\ TypeInv
  BY DEF RisenInv, HistoryInv, TypeInv, TypeOK
<1>2. Good(0)
  BY DEF LeavesAfter, OneByOne
<1>3. ASSUME NEW n \in 1..L, Good(n - 1) PROVE Good(n)
  <2>1. Serial!Allowed(so[n - 1].now, asked[c][n])
    BY <1>3, LandingAllows
  <2>2. so[n].fits
    BY <1>1, <1>3, <2>1, FitsEach
  <2> QED
    BY <1>3, <2>2, LandingLeaves
<1> HIDE DEF Good
<1>4. Bad = {}
  <2> SUFFICES ASSUME Bad # {} PROVE FALSE
    OBVIOUS
  <2>1. PICK n \in Bad : \A i \in Bad : n <= i
    <3>1. Bad \in SUBSET Nat
      OBVIOUS
    <3> HIDE DEF Bad
    <3> QED
      BY <3>1, LowestExists
  <2>2. n \in 1..L /\ n - 1 \in 0..L /\ n - 1 \notin Bad
    BY <1>1, <1>2, <2>1
  <2> QED
    BY <1>3, <2>1, <2>2
<1>5. Good(L)
  BY <1>1, <1>4
<1> QED
  BY <1>5 DEF Good

(* And the store stands as the last of them leaves it, every artifact with *)
(* its type.                                                               *)
LEMMA LandingApplies ==
  ASSUME RisenInv, RisenInv', TypesHeld, TypesHeld', SaysNoRevision, KeepsWhatItMakes,
         NEW c \in Calls, Based(c), Typing(c), pc[c] = "land", ~Conflicts(c), Commits(c)
  PROVE  Serial!Applied(c).fits /\ HeldNow' = Serial!Applied(c).now
<1> DEFINE L == Len(asked[c])
<1>1. /\ TypeInv /\ TypeInv' /\ DraftInv' /\ Tells(draft[c]) /\ L \in Nat
      /\ Changes(c) \in Seq(Change) /\ Len(Changes(c)) = L /\ draft[c] \in Draft
      /\ \A i \in DOMAIN Changes(c) : Changes(c)[i].id = asked[c][i].id
  <2>1. TypeInv /\ TypeInv' /\ DraftInv /\ DraftInv'
    BY DEF RisenInv, HistoryInv
  <2>2. Faithful(c)
    BY <2>1 DEF DraftInv
  <2>3. draft[c] \in Draft /\ L \in Nat
    BY <2>1 DEF TypeInv, TypeOK
  <2>4. Changes(c) \in Seq(Change)
    BY <2>3 DEF Draft, Changes
  <2> QED
    BY <2>1, <2>2, <2>3, <2>4 DEF Faithful, Follows, Changes
<1>2. PICK so : /\ OneByOne(c, so)
                /\ Serial!Applied(c) = [so[L] EXCEPT !.fits = @ /\ Serial!Typed(so[L].now)]
  BY <1>1, AppliedIs
<1>3. so[L] \in SoFar /\ so[L].now \in [Iris -> Held]
  BY <1>1, <1>2 DEF OneByOne, SoFar
<1>4. so[L].fits /\ LeavesAfter(c, so, L)
  BY <1>2, LandingFits
<1>5. ASSUME NEW x \in Iris
      PROVE  so[L].now[x] = [revision |-> Written(c)[x].revision, content |-> Written(c)[x].content]
  <2>1. DOMAIN Changes(c) = 1..L
    BY <1>1
  <2>2. CASE \A j \in 1..L : asked[c][j].id # x
    <3>1. x \notin draft[c].put \cup draft[c].removed
      BY <1>1, <2>1, <2>2 DEF Tells, Changes
    <3>2. Written(c)[x] = artifacts[x]
      BY <1>5, <3>1 DEF Written
    <3> QED
      BY <1>4, <1>5, <2>2, <3>2 DEF LeavesAfter, HeldNow
  <2>3. CASE \E j \in 1..L : asked[c][j].id = x
    <3>1. PICK j \in 1..L : LastIn(c, L, x, j)
      BY <1>1, <2>3, LastInThere
    <3>2. so[L].now[x] = LeftBy(c, j) /\ Changes(c)[j].id = x /\ LastTo(draft[c], j)
      BY <1>1, <1>4, <1>5, <2>1, <3>1 DEF LeavesAfter, LastIn, LastTo, Changes
    <3>3. CASE Changes(c)[j].op = "delete"
      <4>1. x \in draft[c].removed
        BY <1>1, <2>1, <3>2, <3>3 DEF Tells, Changes
      <4>2. Written(c)[x] = Nothing
        BY <1>5, <4>1 DEF Written
      <4> QED
        BY <3>2, <3>3, <4>2 DEF LeftBy, Nothing, Serial!None
    <3>4. CASE Changes(c)[j].op # "delete"
      <4>1. /\ x \in draft[c].put \ draft[c].removed
            /\ draft[c].left[x].revision = Changes(c)[j].revision
            /\ draft[c].left[x].content = Changes(c)[j].content
            /\ draft[c].left[x] \in Artifact
        BY <1>1, <1>5, <2>1, <3>2, <3>4 DEF Tells, Changes, Based, Draft
      <4>2. Written(c)[x] = [draft[c].left[x] EXCEPT !.landed = sets + 1]
        BY <1>5, <4>1, Zenon DEF Written
      <4>3. /\ Written(c)[x].content = Changes(c)[j].content
            /\ Written(c)[x].revision = Changes(c)[j].revision
        BY <4>1, <4>2 DEF Artifact
      <4> QED
        BY <3>2, <3>4, <4>3 DEF LeftBy
    <3> QED
      BY <3>3, <3>4
  <2> QED
    BY <2>2, <2>3
<1>6. artifacts' = Written(c)
  BY DEF Commits
<1>7. HeldNow' = so[L].now
  <2>1. HeldNow' = [x \in Iris |-> [revision |-> Written(c)[x].revision, content |-> Written(c)[x].content]]
    BY <1>6 DEF HeldNow
  <2>2. so[L].now = [x \in Iris |-> so[L].now[x]]
    BY <1>3
  <2> QED
    BY <1>5, <2>1, <2>2
<1>8. Serial!Typed(so[L].now)
  <2> SUFFICES ASSUME NEW x \in Iris \ Types, so[L].now[x] # Serial!None
               PROVE  so[L].now[TypeOf[x]] # Serial!None
    BY DEF Serial!Typed
  <2>1. TypeOf[x] \in Iris
    BY TypesAssumption
  <2>2. Written(c)[x] # Nothing
    <3>1. so[L].now[x] = [revision |-> Written(c)[x].revision, content |-> Written(c)[x].content]
      BY <1>5
    <3>2. ASSUME Written(c)[x] = Nothing PROVE FALSE
      <4>1. Written(c)[x].revision = 0 /\ Written(c)[x].content = {}
        BY <3>2 DEF Nothing
      <4> QED
        BY <3>1, <4>1 DEF Serial!None
    <3> QED
      BY <3>2
  <2>3. Written(c)[TypeOf[x]] # Nothing /\ Stands(Written(c)[TypeOf[x]])
    BY <1>1, <1>6, <2>1, <2>2 DEF TypesHeld, DraftInv
  <2>4. so[L].now[TypeOf[x]].revision # 0 /\ Serial!None.revision = 0
    <3>1. so[L].now[TypeOf[x]].revision = Written(c)[TypeOf[x]].revision
      <4>1. so[L].now[TypeOf[x]] = [revision |-> Written(c)[TypeOf[x]].revision,
                                    content |-> Written(c)[TypeOf[x]].content]
        BY <1>5, <2>1, Zenon
      <4> QED
        BY <4>1
    <3>2. Written(c)[TypeOf[x]].revision # 0
      BY <2>3 DEF Stands
    <3> QED
      BY <3>1, <3>2 DEF Serial!None
  <2> QED
    BY <2>4
<1>9. Serial!Applied(c).fits /\ Serial!Applied(c).now = so[L].now
  BY <1>2, <1>3, <1>4, <1>8 DEF SoFar
<1> QED
  BY <1>7, <1>9

(* What a set would leave stands where the draft holds it.                 *)
LEMMA WrittenHolds ==
  ASSUME TypeInv, DraftInv, NEW c \in Calls, NEW x \in Iris
  PROVE  Written(c)[x] # Nothing <=> Holds(c, x)
<1>1. Sees(draft[c]) /\ Stands(artifacts[x]) /\ draft[c] \in Draft
  BY DEF DraftInv, Faithful, TypeInv, TypeOK
<1>2. CASE x \in draft[c].removed
  BY <1>2 DEF Written, Holds
<1>3. CASE x \notin draft[c].removed /\ x \in draft[c].put
  <2>1. draft[c].left[x].revision # 0 /\ draft[c].left[x] \in Artifact
    BY <1>1, <1>3 DEF Sees, Draft
  <2>2. Written(c)[x] = [draft[c].left[x] EXCEPT !.landed = sets + 1]
    BY <1>3, Zenon DEF Written
  <2>3. Written(c)[x].revision # Nothing.revision
    BY <2>1, <2>2 DEF Artifact, Nothing
  <2> QED
    BY <1>3, <2>3 DEF Holds
<1>4. CASE x \notin draft[c].removed /\ x \notin draft[c].put
  BY <1>1, <1>4 DEF Written, Holds, Stands, Nothing
<1> QED
  BY <1>2, <1>3, <1>4

(* A call is refused only where the set it asks for does not fit the store *)
(* as it stands: one of its operations is not allowed after the ones       *)
(* before it, or it leaves an artifact without its type.                   *)
LEMMA RefusedUnfit ==
  ASSUME TypeInv, DraftInv, SaysNoRevision, NEW c \in Calls, Typing(c), Step(c),
         pc'[c] = "done", outcome'[c] = "refused"
  PROVE  ~Serial!Applied(c).fits
<1> DEFINE L == Len(asked[c])
           m == Len(Changes(c))
<1>1. PICK so : /\ OneByOne(c, so)
                /\ Serial!Applied(c) = [so[L] EXCEPT !.fits = @ /\ Serial!Typed(so[L].now)]
  BY AppliedIs
<1>2. /\ L \in Nat /\ m \in 0..L /\ Faithful(c) /\ asked[c] \in Seq(Operation) /\ draft[c] \in Draft
      /\ pc[c] \in Steps /\ so[L] \in SoFar
      /\ pc[c] \in Acts => m + 1 \in 1..L
  <2>1. /\ asked[c] \in Seq(Operation) /\ draft[c] \in Draft /\ pc[c] \in Steps /\ Faithful(c)
        /\ pc[c] \in Acts => m < L
    BY DEF TypeInv, TypeOK, DraftInv, Placed, Changes
  <2>2. m \in Nat /\ L \in Nat /\ m <= L
    BY <2>1 DEF Draft, Changes, Faithful, Follows
  <2>3. so \in [0..L -> SoFar]
    BY <1>1 DEF OneByOne
  <2> QED
    BY <2>1, <2>2, <2>3
<1>3. Serial!Applied(c).fits => so[L].fits /\ Serial!Typed(so[L].now)
  BY <1>1, <1>2 DEF SoFar
<1> SUFFICES ASSUME so[L].fits, Serial!Typed(so[L].now) PROVE FALSE
  BY <1>3
<1>4. \A n \in 0..L : so[n].fits
  BY <1>1, FitsOn
<1>5. \A x \in Iris : Holds(c, x) <=> so[m].now[x] # Serial!None
  BY <1>1, <1>2, <1>4, HoldsStands
<1>6. pc[c] \in Acts => Serial!Allowed(so[m].now, Acting(c)) /\ Acting(c) \in Operation
  <2> SUFFICES ASSUME pc[c] \in Acts PROVE Serial!Allowed(so[m].now, Acting(c)) /\ Acting(c) \in Operation
    OBVIOUS
  <2>1. m + 1 \in 1..L /\ m + 1 \in 0..L /\ (m + 1) - 1 = m /\ Acting(c) = asked[c][m + 1]
    BY <1>2 DEF Acting, Changes
  <2>2. so[m + 1].fits
    BY <1>4, <2>1
  <2> HIDE DEF m
  <2>3. Serial!Allowed(so[(m + 1) - 1].now, asked[c][m + 1])
    BY <1>1, <2>1, <2>2, FitsEach
  <2> QED
    BY <1>2, <2>1, <2>3
<1>7. /\ pc[c] \in Acts => (Holds(c, Acting(c).id) <=> Acting(c).op # "create")
      /\ pc[c] \in Acts /\ Acting(c).op # "delete" /\ Acting(c).id \notin Types => Holds(c, TypeOf[Acting(c).id])
  <2> SUFFICES ASSUME pc[c] \in Acts
               PROVE  /\ Holds(c, Acting(c).id) <=> Acting(c).op # "create"
                      /\ Acting(c).op # "delete" /\ Acting(c).id \notin Types => Holds(c, TypeOf[Acting(c).id])
    OBVIOUS
  <2>1. /\ Acting(c).id \in Iris
        /\ (so[m].now[Acting(c).id] = Serial!None) = (Acting(c).op = "create")
        /\ Acting(c).op # "delete" /\ Acting(c).id \notin Types =>
             so[m].now[TypeOf[Acting(c).id]] # Serial!None
    BY <1>6 DEF Serial!Allowed, Operation
  <2>2. Acting(c).id \notin Types => TypeOf[Acting(c).id] \in Iris
    BY <2>1, TypesAssumption
  <2> HIDE DEF m
  <2> QED
    BY <1>5, <2>1, <2>2
<1>8. ASSUME NEW x \in Iris \ Types, m = L, Holds(c, x) PROVE Holds(c, TypeOf[x])
  <2>1. TypeOf[x] \in Iris
    BY TypesAssumption
  <2>2. so[m].now[x] # Serial!None
    BY <1>5, <1>8
  <2>3. so[m].now[TypeOf[x]] # Serial!None
    BY <1>8, <2>2 DEF Serial!Typed
  <2> QED
    BY <1>5, <2>1, <2>3
<1> HIDE DEF m, L
<1>9. ASSUME NEW step, step # "done", GoesTo(c, step) PROVE FALSE
  BY <1>2, <1>9 DEF GoesTo, TypeInv, TypeOK
<1>10. ASSUME NEW answer, answer # "refused", Ends(c, answer) PROVE FALSE
  BY <1>10 DEF Ends, TypeInv, TypeOK
<1>11. \A operation : FirstStep(operation) # "done"
  BY DEF FirstStep
<1>12. ASSUME NEW kept, NEW read, NEW revision, NEW content, NEW seen,
              Acted(c, kept, read, revision, content, seen)
       PROVE  FALSE
  BY <1>9, <1>11, <1>12 DEF Acted
<1>13. ~Escaped(c)
  BY <1>10 DEF Escaped
<1>14. Left(c) \subseteq Iris /\ \A x \in Left(c) : Holds(c, x)
  BY <1>2 DEF Left, Holds, Draft
<1>15. CASE FindsHeld(c)
  <2>1. pc[c] = "holds" /\ ~Holds(c, Acting(c).id)
    BY <1>9, <1>15 DEF FindsHeld
  <2>2. Acting(c).op # "create"
    BY <1>2, <2>1 DEF Faithful
  <2> QED
    BY <1>7, <2>1, <2>2 DEF Acts
<1>16. CASE ComparesExpected(c)
  <2>1. pc[c] = "expected" /\ Acting(c).expected # 0
    BY <1>9, <1>13, <1>16 DEF ComparesExpected
  <2>2. asked[c] \in Sets /\ m + 1 \in DOMAIN asked[c] /\ Acting(c) = asked[c][m + 1]
    <3>1. asked[c] \in Sets
      BY <2>1 DEF TypeInv, Placed
    <3>2. m + 1 \in 1..L
      BY <1>2, <2>1 DEF Acts
    <3> QED
      BY <1>2, <3>1, <3>2 DEF Acting, Changes, m, L
  <2> QED
    BY <2>1, <2>2 DEF SaysNoRevision
<1>17. CASE ReadsCurrent(c)
  BY <1>9, <1>12, <1>13, <1>17 DEF ReadsCurrent, Revises
<1>18. CASE FindsTypeHeld(c)
  <2>1. pc[c] = "type_holds" /\ ~Holds(c, TypeOf[Acting(c).id])
    BY <1>9, <1>18 DEF FindsTypeHeld
  <2>2. Acting(c).id \notin Types /\ Acting(c).op # "delete"
    BY <2>1 DEF TypeInv, Placed, Typing
  <2> QED
    BY <1>7, <2>1, <2>2 DEF Acts
<1>19. CASE ReadsType(c)
  BY <1>9, <1>12, <1>13, <1>19 DEF ReadsType, Revises
<1>20. CASE FindsFree(c)
  <2>1. /\ pc[c] = "free"
        /\ (Acting(c).id \notin Types /\ ~Holds(c, TypeOf[Acting(c).id])) \/ Holds(c, Acting(c).id)
    BY <1>12, <1>20 DEF FindsFree
  <2>2. Acting(c).op = "create"
    BY <1>2, <2>1 DEF Faithful
  <2> QED
    BY <1>7, <2>1, <2>2 DEF Acts
<1>21. CASE Checks(c)
  <2>1. pc[c] = "check" /\ \E x \in Left(c) \ Types : ~Holds(c, TypeOf[x])
    BY <1>9, <1>21 DEF Checks
  <2>2. m = L
    BY <1>2, <2>1 DEF Faithful, m, L
  <2> QED
    BY <1>8, <1>14, <2>1, <2>2
<1>22. CASE Mints(c) \/ Relocks(c) \/ Answers(c)
  <2>1. ~Answers(c)
    BY <1>10 DEF Answers
  <2>2. \E step : step # "done" /\ pc' = [pc EXCEPT ![c] = step]
    BY <1>11, <1>22, <2>1 DEF Mints, Relocks
  <2> QED
    BY <2>2 DEF TypeInv, TypeOK
<1>23. CASE Lands(c)
  <2>1. pc[c] = "land" /\ Unsound(c)
    <3>1. ~Commits(c)
      BY DEF Commits, TypeInv, TypeOK
    <3> QED
      BY <1>9, <1>13, <1>23, <3>1 DEF Lands
  <2>2. m = L
    BY <1>2, <2>1 DEF Faithful, m, L
  <2>3. ASSUME NEW x \in Iris \ Types, Holds(c, x), Written(c)[TypeOf[x]] = Nothing PROVE FALSE
    <3>1. TypeOf[x] \in Iris
      BY TypesAssumption
    <3> QED
      BY <1>8, <2>2, <2>3, <3>1, WrittenHolds
  <2>4. CASE \E x \in Left(c) \ Types : Written(c)[TypeOf[x]] = Nothing
    BY <1>14, <2>3, <2>4
  <2>5. CASE \E x \in Iris \ (Types \cup draft[c].put \cup draft[c].removed) :
               Written(c)[x] # Nothing /\ Written(c)[TypeOf[x]] = Nothing
    BY <2>3, <2>5, WrittenHolds
  <2> QED
    BY <2>1, <2>4, <2>5 DEF Unsound
<1> QED
  BY <1>15, <1>16, <1>17, <1>18, <1>19, <1>20, <1>21, <1>22, <1>23 DEF Step

-----------------------------------------------------------------------------
(* Each call as SerialStore has it, by where it is and what it has made.   *)

AtIs(c) ==
  LET at == StateNow[c].at IN
  /\ pc[c] = "idle" => at = "idle"
  /\ pc[c] \notin {"idle", "landed", "done"} => at = "asked"
  /\ pc[c] = "landed" => at = "landed" /\ Made(c) # {}
  /\ pc[c] = "done" => at = IF Made(c) # {} THEN "landed"
                            ELSE IF outcome[c] = "refused" THEN "refused"
                            ELSE IF outcome[c] \in {"busy", "escaped", "lost"} THEN "failed" ELSE "asked"

AllAre == \A c \in Calls : AtIs(c)

LEMMA AtTold == AnswerInv => AllAre
<1> SUFFICES ASSUME AnswerInv, NEW c \in Calls PROVE AtIs(c)
  BY DEF AllAre
<1>1. TypeInv /\ Answered(c)
  BY DEF AnswerInv, HistoryInv
<1>2. Made(c) # {} <=> \E e \in entries : e.by = c
  BY DEF Made
<1>3. pc[c] = "landed" => Made(c) # {}
  <2> SUFFICES ASSUME pc[c] = "landed", Made(c) = {} PROVE FALSE
    OBVIOUS
  <2>1. Len(asked[c]) = 0
    BY <1>1, FS_EmptySet DEF Answered, Whole
  <2>2. asked[c] \in Sets /\ asked[c] \in Seq(Operation) /\ asked[c] # <<>>
    BY <1>1, SetsAssumption DEF TypeInv, Placed
  <2> QED
    BY <2>1, <2>2
<1>4. StateNow[c].at = IF pc[c] = "idle" THEN "idle"
                       ELSE IF Made(c) # {} THEN "landed"
                       ELSE IF outcome[c] = "refused" THEN "refused"
                       ELSE IF outcome[c] \in {"busy", "escaped", "lost"} THEN "failed" ELSE "asked"
  BY <1>2 DEF StateNow
<1>5. pc[c] \notin {"landed", "done"} => outcome[c] = "none" /\ Made(c) = {}
  BY <1>1 DEF Answered
<1> QED
  BY <1>3, <1>4, <1>5 DEF AtIs

LEMMA AtToldNext == AnswerInv' => AllAre'
  BY AtTold, PTL

(* A call that neither moves nor has its entries changed is as it was.     *)
AsItWas(d) == /\ pc'[d] = pc[d] /\ asked'[d] = asked[d] /\ outcome'[d] = outcome[d]
              /\ Made(d)' = Made(d)

LEMMA StateSame == ASSUME NEW d \in Calls, AsItWas(d) PROVE StateNow'[d] = StateNow[d]
<1>1. (\E e \in entries' : e.by = d) <=> (\E e \in entries : e.by = d)
  <2>1. (\E e \in entries : e.by = d) <=> Made(d) # {}
    BY DEF Made
  <2>2. (\E e \in entries' : e.by = d) <=> Made(d)' # {}
    BY DEF Made
  <2> QED
    BY <2>1, <2>2 DEF AsItWas
<1> QED
  BY <1>1 DEF StateNow, AsItWas

LEMMA StateMoves ==
  ASSUME NEW c \in Calls, \A d \in Calls \ {c} : AsItWas(d), asked'[c] = asked[c],
         NEW at, StateNow'[c].at = at
  PROVE  StateNow' = [StateNow EXCEPT ![c].at = at]
<1>1. \A d \in Calls \ {c} : StateNow'[d] = StateNow[d]
  BY StateSame
<1>2. StateNow'[c] = [set |-> asked[c], at |-> at]
  BY DEF StateNow
<1>3. StateNow[c] = [set |-> asked[c], at |-> StateNow[c].at]
  BY DEF StateNow
<1>4. StateNow = [d \in Calls |-> StateNow[d]] /\ StateNow' = [d \in Calls |-> StateNow'[d]]
  BY DEF StateNow
<1>5. [StateNow[c] EXCEPT !.at = at] = [set |-> asked[c], at |-> at]
  BY <1>3
<1> HIDE DEF StateNow
<1> QED
  BY <1>1, <1>2, <1>4, <1>5, Zenon

LEMMA StateStays ==
  ASSUME NEW c \in Calls, \A d \in Calls \ {c} : AsItWas(d), asked'[c] = asked[c],
         StateNow'[c].at = StateNow[c].at
  PROVE  StateNow' = StateNow
<1>1. \A d \in Calls \ {c} : StateNow'[d] = StateNow[d]
  BY StateSame
<1>2. StateNow'[c] = [set |-> asked[c], at |-> StateNow'[c].at]
  BY DEF StateNow
<1>3. StateNow[c] = [set |-> asked[c], at |-> StateNow[c].at]
  BY DEF StateNow
<1>4. StateNow = [d \in Calls |-> StateNow[d]] /\ StateNow' = [d \in Calls |-> StateNow'[d]]
  BY DEF StateNow
<1> HIDE DEF StateNow
<1> QED
  BY <1>1, <1>2, <1>3, <1>4, Zenon

LEMMA SerialInit == Init => Serial!SerialInit
<1> SUFFICES ASSUME Init PROVE Serial!SerialInit
  OBVIOUS
<1>1. HeldNow = [x \in Iris |-> IF \E i \in DOMAIN Before : Before[i] = x
                                THEN [revision |-> 1, content |-> {Nobody}] ELSE Serial!None]
  BY DEF Init, HeldNow, Nothing, Serial!None
<1>2. StateNow = [c \in Calls |-> [at |-> "idle", set |-> <<>>]]
  BY DEF Init, StateNow
<1> QED
  BY <1>1, <1>2, Zenon DEF Serial!SerialInit

(* Each step of the write path is a step of SerialStore, or none: what one *)
(* call reads, drafts and waits for is seen by no other until it commits.  *)
LEMMA SerialStep ==
  ASSUME RisenInv, RisenInv', AnswerInv, AnswerInv', TypesHeld, TypesHeld', TypingInv, SeenInv,
         SaysNoRevision, KeepsWhatItMakes, [Next]_vars
  PROVE  Serial!SerialNext \/ UNCHANGED Serial!serialVars
<1>1. /\ TypeInv /\ TypeInv' /\ HistoryInv /\ DraftInv
      /\ \A c \in Calls : Answered(c) /\ Typing(c) /\ Based(c)
  BY DEF RisenInv, HistoryInv, AnswerInv, TypingInv, SeenInv
<1>2. (\A c \in Calls : AtIs(c)) /\ (\A c \in Calls : AtIs(c)')
  BY AtTold, AtToldNext DEF AllAre
<1>3. artifacts' = artifacts => HeldNow' = HeldNow
  BY DEF HeldNow
<1>4. CASE UNCHANGED vars
  <2>1. HeldNow' = HeldNow /\ StateNow' = StateNow
    BY <1>4 DEF vars, HeldNow, StateNow
  <2> QED
    BY <2>1 DEF Serial!serialVars
<1>5. ASSUME NEW c \in Calls, GoesOn(c), Ask(c) PROVE Serial!Asked(c)
  <2>1. PICK set \in Sets : asked' = [asked EXCEPT ![c] = set] /\ pc' = [pc EXCEPT ![c] = FirstStep(set[1])]
    BY <1>5 DEF Ask
  <2>2. pc[c] = "idle" /\ artifacts' = artifacts /\ entries' = entries /\ outcome' = outcome
    BY <1>5 DEF Ask
  <2>3. pc'[c] \notin {"idle", "landed", "done"} /\ asked'[c] = set
    BY <1>1, <2>1 DEF TypeInv, TypeOK, FirstStep
  <2>4. \A d \in Calls \ {c} : StateNow'[d] = StateNow[d]
    BY <1>1, <2>1, <2>2, StateSame DEF AsItWas, Made, TypeInv, TypeOK
  <2>5. StateNow'[c].at = "asked" /\ StateNow[c].at = "idle"
    BY <1>2, <2>2, <2>3 DEF AtIs
  <2>6. StateNow'[c] = [at |-> "asked", set |-> set]
    <3>1. StateNow'[c] = [set |-> asked'[c], at |-> StateNow'[c].at]
      BY DEF StateNow
    <3> QED
      BY <2>3, <2>5, <3>1
  <2>7. StateNow = [d \in Calls |-> StateNow[d]] /\ StateNow' = [d \in Calls |-> StateNow'[d]]
    BY DEF StateNow
  <2>8. StateNow' = [StateNow EXCEPT ![c] = [at |-> "asked", set |-> set]]
    BY <2>4, <2>6, <2>7, Zenon
  <2> QED
    BY <1>3, <2>2, <2>5, <2>8 DEF Serial!Asked
<1>6. ASSUME NEW c \in Calls, GoesOn(c), ~Ask(c) PROVE HeldNow' = HeldNow /\ StateNow' = StateNow
  <2>1. /\ artifacts' = artifacts /\ asked' = asked /\ entries' = entries /\ outcome' = outcome
        /\ pc[c] \notin {"idle", "landed", "done"} /\ pc'[c] \notin {"idle", "landed", "done"}
        /\ \A d \in Calls \ {c} : pc'[d] = pc[d]
    BY <1>6 DEF GoesOn
  <2>2. \A d \in Calls \ {c} : AsItWas(d)
    BY <2>1 DEF AsItWas, Made
  <2>3. StateNow'[c].at = StateNow[c].at
    BY <1>2, <2>1 DEF AtIs
  <2> QED
    BY <1>3, <2>1, <2>2, <2>3, StateStays
<1>7. ASSUME NEW c \in Calls, NEW answer, Ends(c, answer)
      PROVE  /\ HeldNow' = HeldNow /\ Made(c)' = Made(c)
             /\ pc'[c] = "done" /\ outcome'[c] = answer
             /\ asked'[c] = asked[c] /\ \A d \in Calls \ {c} : AsItWas(d)
  <2>1. /\ pc' = [pc EXCEPT ![c] = "done"] /\ outcome' = [outcome EXCEPT ![c] = answer]
        /\ artifacts' = artifacts /\ entries' = entries /\ asked' = asked
    BY <1>7 DEF Ends
  <2>2. \A d \in Calls : Made(d)' = Made(d)
    BY <2>1 DEF Made
  <2> QED
    BY <1>1, <1>3, <2>1, <2>2 DEF AsItWas, TypeInv, TypeOK
<1>8. ASSUME NEW c \in Calls, Ends(c, "refused"), Step(c), pc[c] \notin {"idle", "landed", "done"}
      PROVE  Serial!Declines(c)
  <2>1. ~Serial!Applied(c).fits
    BY <1>1, <1>7, <1>8, RefusedUnfit
  <2>2. StateNow[c].at = "asked" /\ Made(c) = {}
    BY <1>1, <1>2, <1>8 DEF AtIs, Answered
  <2>3. StateNow'[c].at = "refused"
    BY <1>2, <1>7, <1>8, <2>2 DEF AtIs
  <2>4. StateNow' = [StateNow EXCEPT ![c].at = "refused"]
    BY <1>7, <1>8, <2>3, StateMoves
  <2> QED
    BY <1>7, <1>8, <2>1, <2>2, <2>4 DEF Serial!Declines
<1>9. ASSUME NEW c \in Calls, NEW answer \in {"busy", "escaped", "lost"}, Ends(c, answer),
             pc[c] \notin {"idle", "landed", "done"}
      PROVE  Serial!Fails(c)
  <2>1. StateNow[c].at = "asked" /\ Made(c) = {}
    BY <1>1, <1>2, <1>9 DEF AtIs, Answered
  <2>2. StateNow'[c].at = "failed"
    BY <1>2, <1>7, <1>9, <2>1 DEF AtIs
  <2>3. StateNow' = [StateNow EXCEPT ![c].at = "failed"]
    BY <1>7, <1>9, <2>2, StateMoves
  <2> QED
    BY <1>7, <1>9, <2>1, <2>3 DEF Serial!Fails
<1>10. ASSUME NEW c \in Calls, NEW answer, Ends(c, answer), pc[c] = "landed"
       PROVE  HeldNow' = HeldNow /\ StateNow' = StateNow
  <2>1. StateNow[c].at = "landed" /\ StateNow'[c].at = "landed"
    BY <1>2, <1>7, <1>10 DEF AtIs
  <2> QED
    BY <1>7, <1>10, <2>1, StateStays
<1>11. ASSUME NEW c \in Calls, pc[c] = "land", ~Conflicts(c), Commits(c) PROVE Serial!Applies(c)
  <2>1. Serial!Applied(c).fits /\ HeldNow' = Serial!Applied(c).now
    BY <1>1, <1>11, LandingApplies
  <2>2. /\ pc' = [pc EXCEPT ![c] = "landed"] /\ asked' = asked /\ outcome' = outcome
    BY <1>11 DEF Commits
  <2>3. \A d \in Calls \ {c} : AsItWas(d)
    <3>1. \A d \in Calls \ {c} : Made(d)' = Made(d)
      BY <1>1, <1>11, LandingWhole
    <3> QED
      BY <1>1, <2>2, <3>1 DEF AsItWas, TypeInv, TypeOK
  <2>4. pc'[c] = "landed"
    BY <1>1, <2>2 DEF TypeInv, TypeOK
  <2>5. StateNow[c].at = "asked" /\ StateNow'[c].at = "landed"
    BY <1>2, <1>11, <2>4 DEF AtIs
  <2>6. StateNow' = [StateNow EXCEPT ![c].at = "landed"]
    BY <2>2, <2>3, <2>5, StateMoves
  <2> QED
    BY <2>1, <2>5, <2>6 DEF Serial!Applies
<1>12. ASSUME NEW c \in Calls, NEW answer \in {"refused", "escaped", "busy"}, Ends(c, answer),
              Step(c) \/ GivesUp(c), pc[c] \notin {"idle", "landed", "done"}
       PROVE  Serial!SerialNext
  <2>1. CASE answer = "refused"
    <3>1. ~GivesUp(c)
      <4>1. ASSUME GivesUp(c) PROVE FALSE
        <5>1. outcome'[c] = "busy"
          BY <1>7, <4>1 DEF GivesUp
        <5> QED
          BY <1>7, <1>12, <2>1, <5>1
      <4> QED
        BY <4>1
    <3> QED
      BY <1>8, <1>12, <2>1, <3>1 DEF Serial!SerialNext
  <2>2. CASE answer # "refused"
    BY <1>9, <1>12, <2>2 DEF Serial!SerialNext
  <2> QED
    BY <2>1, <2>2
<1>13. CASE Next
  <2>1. ASSUME HeldNow' = HeldNow, StateNow' = StateNow PROVE UNCHANGED Serial!serialVars
    BY <2>1 DEF Serial!serialVars
  <2> SUFFICES ASSUME ~UNCHANGED vars PROVE Serial!SerialNext \/ UNCHANGED Serial!serialVars
    BY <1>4
  <2>2. PICK c \in Calls :
          \/ GoesOn(c)
          \/ /\ pc[c] \notin {"idle", "landed", "done"}
             /\ \E answer \in {"refused", "escaped", "busy"} : Ends(c, answer)
             /\ Step(c) \/ GivesUp(c)
          \/ pc[c] = "landed" /\ Ends(c, "landed")
          \/ pc[c] \notin {"idle", "done"} /\ Ends(c, "lost")
          \/ pc[c] = "land" /\ ~Conflicts(c) /\ Commits(c)
    BY <1>1, <1>13, CallStep
  <2>3. CASE GoesOn(c)
    BY <1>5, <1>6, <2>1, <2>3 DEF Serial!SerialNext
  <2>4. CASE /\ pc[c] \notin {"idle", "landed", "done"}
             /\ \E answer \in {"refused", "escaped", "busy"} : Ends(c, answer)
             /\ Step(c) \/ GivesUp(c)
    BY <1>12, <2>4
  <2>5. CASE pc[c] = "landed" /\ Ends(c, "landed")
    BY <1>10, <2>1, <2>5
  <2>6. CASE pc[c] \notin {"idle", "done"} /\ Ends(c, "lost")
    BY <1>9, <1>10, <2>1, <2>6 DEF Serial!SerialNext
  <2>7. CASE pc[c] = "land" /\ ~Conflicts(c) /\ Commits(c)
    BY <1>11, <2>7 DEF Serial!SerialNext
  <2> QED
    BY <2>2, <2>3, <2>4, <2>5, <2>6, <2>7
<1> QED
  BY <1>4, <1>13

(* Every set lands as if it were asked alone, all of it in one step, and   *)
(* none is refused that fits the store as it stands when it is: where no   *)
(* IRI is created twice, no client says the revision it read, and no set   *)
(* removes what it makes (write.land).                                     *)
THEOREM LandsAsIfAlone ==
  ASSUME SaysNoRevision, KeepsWhatItMakes
  PROVE  Spec /\ []CreatedOnce => LandsSerially
<1>1. Init => Serial!SerialInit
  BY SerialInit
<1>2. RisenInv /\ RisenInv' /\ AnswerInv /\ AnswerInv' /\ TypesHeld /\ TypesHeld' /\ TypingInv /\ SeenInv
        /\ [Next]_vars => [Serial!SerialNext]_(Serial!serialVars)
  BY SerialStep
<1>3. HistoryInv /\ Bounded /\ CreatedOnce => RisenInv
  BY Rises DEF RisenInv
<1>4. HistoryInv => TypeInv /\ DraftInv
  BY DEF HistoryInv
<1> QED
  BY <1>1, <1>2, <1>3, <1>4, HistoryInit, HistoryStep, BoundedInit, BoundedStep, SeenInit, SeenStep,
     AnswerInit, AnswerStep, TypingInit, TypingStep, TypesKept, PTL DEF Spec, LandsSerially, Serial!SerialSpec
=============================================================================
