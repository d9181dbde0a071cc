------------------------------- MODULE Drafts -------------------------------
(***************************************************************************)
(* What kb makes of a set of changes over a store, as functions of the     *)
(* store they read.  Nothing here is a step: what reads at one moment, and *)
(* what reads at several, is said by the modules that extend this one.     *)
(*                                                                         *)
(* An IRI belongs to the nearest held type it sits under.  A link lands on *)
(* a held artifact of a kind its field allows, and on a part of it when it *)
(* names one; or it waits on an IRI not held, under a type its field       *)
(* allows, or on a part its target lacks, if it waited before              *)
(* (src/kb/validation.py, naming.py, standing.py).  What a draft found is  *)
(* handed to the port (src/kb/handing.py, links.py), which checks it again *)
(* on the store it lands on (src/kb/sqlite_checks.py).                     *)
(***************************************************************************)
EXTENDS Naturals, FiniteSets, Sequences

CONSTANTS
  Iris,        (* The IRIs an artifact may be held at.                     *)
  Above,       (* The IRIs each sits under, nearest first.                 *)
  TypeOfTypes, (* The IRI of the type of types.                            *)
  NoIri,       (* No type and no artifact.                                 *)
  Fields,      (* The fields that link.                                    *)
  Kinds,       (* The kinds a field's links may land on, its targets.      *)
  Parts,       (* The places of the parts an artifact may hold.            *)
  Whole        (* The part of a link that names none.                      *)

(* A link as the port tells it from others: its field and what holds that  *)
(* field, taken as one, the IRI it names and the part.                     *)
Link == [field : Fields, target : Iris, part : Parts \cup {Whole}]

(* A version of a type, as a kb: reference names it.                       *)
VersionId == Iris \X (Nat \ {0})

(* An operation: a create and an import say the kind and the version of it *)
(* the artifact conforms to; a replacement keeps the kind, and the version *)
(* too unless it names one, 0 being none.  reads are the type versions a   *)
(* type's schema refers to.  An import gives the revision and, of a type,  *)
(* the number its file gives, 0 for what is no type; the others give none. *)
Operation == [op : {"create", "write", "delete", "import"}, id : Iris,
              kind : Iris \cup {NoIri}, version : Nat, links : Seq(Link),
              parts : SUBSET Parts, reads : SUBSET VersionId, number : Nat, revision : Nat]

ASSUME NoIriAssumption == NoIri \notin Iris /\ TypeOfTypes \in Iris
ASSUME AboveAssumption ==
  /\ Above \in [Iris -> Seq(Iris)]
  /\ \A x \in Iris : \A i \in DOMAIN Above[x] :
       Above[Above[x][i]] = SubSeq(Above[x], i + 1, Len(Above[x]))
ASSUME KindsAssumption == Kinds \in [Fields -> SUBSET Iris]
ASSUME PartsAssumption == Whole \notin Parts

(* A version kept of a type: the revision it was made at and what it       *)
(* reads.  At a number no version is kept at, which only imported types    *)
(* pass over, the revision is 0.                                           *)
TypeVersion == [revision : Nat, reads : SUBSET VersionId]
NotKept == [revision |-> 0, reads |-> {}]

(* What is held: an artifact, the version of its type it conforms to, its  *)
(* links, its parts, and, of a type, the versions kept of it by number.    *)
Artifact == [revision : Nat, kind : Iris \cup {NoIri}, version : Nat, links : Seq(Link),
             parts : SUBSET Parts, versions : Seq(TypeVersion)]
Nothing == [revision |-> 0, kind |-> NoIri, version |-> 0, links |-> <<>>,
            parts |-> {}, versions |-> <<>>]

-----------------------------------------------------------------------------
(* Where an IRI belongs, in a store st.                                    *)
Held(st, x) == st[x].revision # 0
Typed(st, x) == Held(st, x) /\ st[x].kind = TypeOfTypes
SitsUnder(x, t) == \E i \in DOMAIN Above[x] : Above[x][i] = t

(* The nearest IRI above x that typed says a type is held at.              *)
NearestOf(x, typed(_)) ==
  LET types == {i \in DOMAIN Above[x] : typed(Above[x][i])}
  IN IF types = {} THEN NoIri
     ELSE Above[x][CHOOSE i \in types : \A j \in types : i <= j]

Nearest(st, x) == LET typed(y) == Typed(st, y) IN NearestOf(x, typed)

(* Whether x belonged to a type no longer held, or would belong to it.     *)
NearestWas(st, x, t) ==
  \E i \in DOMAIN Above[x] :
    /\ Above[x][i] = t
    /\ \A j \in 1..(i - 1) : ~Typed(st, Above[x][j]) /\ Above[x][j] # t

(* The links to IRIs not held, each with the artifact holding it.          *)
LinksOf(st, y) == {st[y].links[i] : i \in DOMAIN st[y].links}
WaitingOn(st) ==
  UNION {{<<y, link>> : link \in {l \in LinksOf(st, y) : ~Held(st, l.target)}} : y \in Iris}

(* Every link into an IRI or a part of it, each with the artifact holding  *)
(* it.                                                                     *)
LinksIn(st, x) ==
  UNION {{<<y, link>> : link \in {l \in LinksOf(st, y) : l.target = x}} : y \in Iris}

(* Whether a link lands on nothing held: an IRI, or a part.                *)
Waits(st, link) ==
  \/ ~Held(st, link.target)
  \/ link.part # Whole /\ link.part \notin st[link.target].parts

(* The version of its type an artifact conforms to, the number a type      *)
(* stands at, and what the version it stands at reads.                     *)
Conforming(artifact) == <<artifact.kind, artifact.version>>
StandsAt(type) == Len(type.versions)
MadeReads(type) == type.versions[StandsAt(type)].reads

(* The types a version reads: every version a reference names, and what    *)
(* those read, a version not kept passed over.                             *)
KeptVersion(st, v) ==
  /\ Typed(st, v[1])
  /\ v[2] \in DOMAIN st[v[1]].versions
  /\ st[v[1]].versions[v[2]] # NotKept

ReadThrough(st, reads) ==
  LET kept(vs) == {v \in vs : KeptVersion(st, v)}
      after[n \in Nat] ==
        IF n = 0 THEN kept(reads)
        ELSE after[n - 1] \cup UNION {kept(st[v[1]].versions[v[2]].reads) : v \in after[n - 1]}
  IN {v[1] : v \in after[Cardinality(Iris)]}

(* Mutated: only the version a type stands at counts.                      *)
CurrentReaders(st, t) ==
  {y \in Iris \ {t} : Typed(st, y) /\ \E v \in MadeReads(st[y]) : v[1] = t}

(* The other types any kept version of which reads a version of t.         *)
Readers(st, t) ==
  {y \in Iris \ {t} : Typed(st, y) /\
     \E n \in DOMAIN st[y].versions : \E v \in st[y].versions[n].reads : v[1] = t}

-----------------------------------------------------------------------------
(* A set drafted.  A version made of a type is kept beside those it has, at *)
(* the number after the last or, by an import, at the one its file gives.  *)
Gained(versions, number, revision, reads) ==
  [n \in 1..(IF number > Len(versions) THEN number ELSE Len(versions)) |->
     CASE n = number -> [revision |-> revision, reads |-> reads]
       [] n \in DOMAIN versions /\ n # number -> versions[n]
       [] OTHER -> NotKept]

(* What an operation leaves of its artifact, over the store before it.     *)
Revised(held, op) ==
  [held EXCEPT !.revision = @ + 1, !.links = op.links, !.parts = op.parts,
     !.version = IF op.version = 0 THEN @ ELSE op.version,
     !.versions = IF held.kind = TypeOfTypes
                  THEN Gained(@, Len(@) + 1, held.revision + 1, op.reads) ELSE @]

Brought(held, op) ==
  [revision |-> op.revision, kind |-> op.kind, version |-> op.version, links |-> op.links,
   parts |-> op.parts,
   versions |-> IF op.number = 0 THEN <<>>
                ELSE Gained(held.versions, op.number, op.revision, op.reads)]

Made(st, op) ==
  CASE op.op = "delete" -> Nothing
    [] op.op = "write" -> Revised(st[op.id], op)
    [] op.op = "import" -> Brought(st[op.id], op)
    [] op.op = "create" ->
         Brought(Nothing, [op EXCEPT !.revision = 1,
                                     !.number = IF op.kind = TypeOfTypes THEN 1 ELSE 0])

(* Mutated: a link is told from no other like it.                          *)
ToldAlike(links) == [i \in DOMAIN links |-> <<links[i], 0>>]

(* What tells each link from every other its artifact holds: itself, and   *)
(* how many before it are the same.                                        *)
Told(links) ==
  [i \in DOMAIN links |-> <<links[i], Cardinality({j \in 1..(i - 1) : links[j] = links[i]})>>]

(* Mutated: only a link to an IRI not held counts as waiting.              *)
HeldWaitingWhole(st, x) ==
  {Told(st[x].links)[i] : i \in {j \in DOMAIN st[x].links : ~Held(st, st[x].links[j].target)}}

(* The links the store held for x that waited, each as it is told.         *)
HeldWaiting(st, x) ==
  {Told(st[x].links)[i] : i \in {j \in DOMAIN st[x].links : Waits(st, st[x].links[j])}}

(* The changes of a set, each with what stood there as it was drafted.     *)
Change == [op : {"create", "write", "delete", "import"}, id : Iris, read : Nat,
           was : Iris \cup {NoIri}, left : Artifact, waited : SUBSET (Link \X Nat)]

(* The store as the operations before the i-th leave it.                   *)
LeftBefore(st, ops, i) ==
  LET after[n \in Nat] ==
        IF n = 0 THEN st ELSE [after[n - 1] EXCEPT ![ops[n].id] = Made(after[n - 1], ops[n])]
  IN after[i - 1]

(* The revision an operation is read at: the one its artifact stands at as *)
(* those before it leave it; but an import is read as over nothing, unless *)
(* it brings a later version of a type, or another of its set did before.  *)
ReadAt(st, ops, i) ==
  LET held == LeftBefore(st, ops, i)[ops[i].id]
      later == \E j \in 1..(i - 1) : ops[j].id = ops[i].id
  IN IF /\ ops[i].op = "import" /\ ~later
        /\ ~(held.kind = TypeOfTypes /\ ops[i].number > Len(held.versions))
     THEN 0 ELSE held.revision

Drafted(st, ops) ==
  [i \in DOMAIN ops |->
     [op |-> ops[i].op, id |-> ops[i].id, read |-> ReadAt(st, ops, i),
      was |-> st[ops[i].id].kind, left |-> Made(LeftBefore(st, ops, i), ops[i]),
      waited |-> HeldWaiting(st, ops[i].id)]]

Changed(changes) == {changes[i].id : i \in DOMAIN changes}

(* The store as changes would leave it, each IRI as the last left it.      *)
LastOf(changes, x) ==
  CHOOSE i \in DOMAIN changes :
    changes[i].id = x /\ \A j \in (i + 1)..Len(changes) : changes[j].id # x

Put(st, changes) ==
  [x \in Iris |-> IF x \in Changed(changes) THEN changes[LastOf(changes, x)].left ELSE st[x]]

(* A type may be defined at t: nothing under it belongs to another type,   *)
(* and no link waits there, or on t itself; under the type of types no     *)
(* artifact belongs by where it sits.                                      *)
SitsFree(st, t) ==
  LET other == Nearest(st, t)
  IN other # NoIri =>
       /\ other # TypeOfTypes =>
            \A y \in Iris : Held(st, y) /\ st[y].kind = other => ~SitsUnder(y, t)
       /\ \A w \in WaitingOn(st) :
            /\ ~NearestWas(st, w[2].target, t)
            /\ w[2].target = t => other = TypeOfTypes

(* A new artifact sits under its type; a type's IRI is free.               *)
Identity(st, op) ==
  /\ op.kind # TypeOfTypes => Nearest(st, op.id) = op.kind
  /\ op.kind = TypeOfTypes => SitsFree(st, op.id)
  /\ ~Held(st, op.id)

(* An artifact may move to a later version of its type, one that is kept.  *)
MovesTo(st, x, version) ==
  version >= st[x].version /\ KeptVersion(st, <<st[x].kind, version>>)

(* Whether an operation can act on the draft as those before it left it.   *)
Acts(st, op) ==
  IF op.op \in {"create", "import"}
  THEN KeptVersion(st, <<op.kind, op.version>>) /\ (op.op = "create" => Identity(st, op))
  ELSE /\ Held(st, op.id)
       /\ op.op = "write" /\ op.version # 0 => MovesTo(st, op.id, op.version)

(* A link lands, or waits on an IRI not held under a type its field allows.*)
LinkLands(st, link) ==
  IF Held(st, link.target)
  THEN st[link.target].kind \in Kinds[link.field] /\ ~Waits(st, link)
  ELSE Nearest(st, link.target) \in Kinds[link.field]

(* One that waited before, or an import brings, keeps waiting: its target  *)
(* held, of a kind its field allows, lacking the part.                     *)
KeepsWaiting(st, link) ==
  Held(st, link.target) /\ st[link.target].kind \in Kinds[link.field]

(* The links an artifact carries that neither land nor may wait.           *)
Unlanded(st, left, waited, imported) ==
  {i \in DOMAIN left.links :
     /\ ~LinkLands(st, left.links[i])
     /\ ~((imported \/ Told(left.links)[i] \in waited) /\ KeepsWaiting(st, left.links[i]))}

(* A type could be checked against: every version its schema refers to is  *)
(* of another type, and kept.                                              *)
ShapesHeld(st, change) ==
  \A v \in MadeReads(change.left) : v[1] # change.id /\ KeptVersion(st, v)

(* What a change leaves fits its type as the set leaves the store.         *)
Fits(st, change) ==
  LET left == change.left
  IN /\ KeptVersion(st, Conforming(left))
     /\ Unlanded(st, left, change.waited, change.op = "import") = {}
     /\ left.kind = TypeOfTypes => ShapesHeld(st, change)

(* What is removed leaves no link to it, and a type no version that reads  *)
(* it and no link that waits under it.                                     *)
Freed(st, change) ==
  /\ \A l \in LinksIn(st, change.id) : l[1] = change.id
  /\ change.was = TypeOfTypes =>
       /\ Readers(st, change.id) = {}
       /\ \A w \in WaitingOn(st) : ~NearestWas(st, w[2].target, change.id)

(* The parts held in x that a set leaves it without, x itself held still.  *)
Dropped(st, left, x) == IF Held(left, x) THEN st[x].parts \ left[x].parts ELSE {}

(* No link from what the set leaves alone is into a part it drops.         *)
KeptWhole(st, changes) ==
  \A x \in Changed(changes) : \A l \in LinksIn(st, x) :
    l[1] \notin Changed(changes) => l[2].part \notin Dropped(st, Put(st, changes), x)

(* The draft's verdict on a set, over the store as it stands.              *)
Accepts(st, ops) ==
  LET changes == Drafted(st, ops)
      left == Put(st, changes)
  IN /\ \A i \in DOMAIN ops : Acts(Put(st, SubSeq(changes, 1, i - 1)), ops[i])
     /\ \A i \in DOMAIN changes :
          IF changes[i].op = "delete" THEN Freed(left, changes[i]) ELSE Fits(left, changes[i])
     /\ KeptWhole(st, changes)

(* The changes made ready for the port; refused when the version one       *)
(* conforms to went meanwhile.                                             *)
Conform(st, changes) ==
  \A i \in DOMAIN changes : changes[i].op # "delete" =>
    KeptVersion(Put(st, changes), Conforming(changes[i].left))

-----------------------------------------------------------------------------
(* What is handed.  The types a change is checked and its links read       *)
(* through: its kind, those its version of it reads, and those a version   *)
(* it makes reads.                                                         *)
ReadBy(st, change) ==
  LET left == change.left
  IN {left.kind}
     \cup ReadThrough(st, st[left.kind].versions[left.version].reads)
     \cup IF left.kind = TypeOfTypes THEN ReadThrough(st, MadeReads(left)) ELSE {}

(* The types a draft read in judging, each with its revision: they are     *)
(* kept as first read, those the set changes apart.                        *)
TypesRead(st, changes) ==
  LET left == Put(st, changes)
      kept == {i \in DOMAIN changes : changes[i].op # "delete"}
      nearest(i) == {Nearest(left, x) : x \in {changes[i].id} \cup
                       {link.target : link \in LinksOf(left, changes[i].id)}}
      read == UNION {ReadBy(left, changes[i]) \cup nearest(i) : i \in kept}
  IN {<<t, st[t].revision>> : t \in {y \in read \cap Iris : Typed(st, y)} \ Changed(changes)}

Draft(st, ops) ==
  [changes |-> Drafted(st, ops), types |-> TypesRead(st, Drafted(st, ops))]

(* The IRIs x sits under that sit under t.                                 *)
Between(x, t) ==
  {Above[x][i] : i \in {j \in DOMAIN Above[x] : SitsUnder(x, t) /\ \A k \in 1..j : Above[x][k] # t}}

(* The held type each link's target sits under, held or not: what the      *)
(* draft read as a type stays one to it, while whether an IRI is held is   *)
(* read again.                                                             *)
Unders(st, draft) ==
  LET left == Put(st, draft.changes)
      typed(y) == /\ Held(left, y)
                  /\ \/ left[y].kind = TypeOfTypes
                     \/ \E p \in draft.types : p[1] = y
  IN [i \in DOMAIN draft.changes |->
        [j \in DOMAIN draft.changes[i].left.links |->
           NearestOf(draft.changes[i].left.links[j].target, typed)]]

(* Mutated: a type may be defined between a new artifact and its type.     *)
OpenLinked(change, unders) ==
  UNION {Between(change.left.links[j].target, unders[j]) :
           j \in {k \in DOMAIN unders : unders[k] # NoIri}}

(* The IRIs at which a type defined meanwhile would take what a change     *)
(* makes or links to from the type it was drafted under.                   *)
Open(change, unders) ==
  LET made == change.op # "delete" /\ change.read = 0 /\ change.left.kind # TypeOfTypes
  IN (IF made THEN Between(change.id, change.left.kind) ELSE {})
     \cup UNION {Between(change.left.links[j].target, unders[j]) :
                   j \in {k \in DOMAIN unders : unders[k] # NoIri}}

(* Each link a change hands says whether it is one its artifact held       *)
(* waiting, as it is told.                                                 *)
Marked(change) == [j \in DOMAIN change.left.links |-> Told(change.left.links)[j] \in change.waited]

PortChange == [change : Change, unders : Seq(Iris \cup {NoIri}), waits : Seq(BOOLEAN),
               through : SUBSET (Iris \X Nat)]

(* The changes as the port takes them: each beside the types it was read   *)
(* through says that nothing is held, revision 0, at its open IRIs.        *)
Guards(st, draft, i) ==
  Open(draft.changes[i], Unders(st, draft)[i]) \ Changed(draft.changes)

Handed(st, draft) ==
  LET left == Put(st, draft.changes)
      through(change) == IF change.op = "delete" THEN {}
                         ELSE {p \in draft.types : p[1] \in ReadBy(left, change)}
  IN [i \in DOMAIN draft.changes |->
       LET change == draft.changes[i] IN
       [change |-> change, unders |-> Unders(st, draft)[i],
        waits |-> Marked(change),
        through |-> through(change) \cup
                    {<<y, 0>> : y \in {x \in Guards(st, draft, i) : ~Held(left, x)}}]]

(* The set lands only as drafted under the write lock: it removes a type,  *)
(* defines one, or makes or links to something below an artifact where a   *)
(* type could be defined.                                                  *)
Locked(st, draft) ==
  \E i \in DOMAIN draft.changes :
    \/ draft.changes[i].op = "delete" /\ draft.changes[i].was = TypeOfTypes
    \/ draft.changes[i].op = "create" /\ draft.changes[i].left.kind = TypeOfTypes
    \/ \E y \in Guards(st, draft, i) : Held(st, y)

-----------------------------------------------------------------------------
(* The landing transaction, over the store st it finds and after, the one  *)
(* the set leaves.  The port takes the draft's word only where its own     *)
(* tables bear it out.                                                     *)

(* Mutated: what a change was read through is not compared.                *)
MovedItself(st, changes) ==
  \E i \in DOMAIN changes :
    LET before == Put(st, [j \in 1..(i - 1) |-> changes[j].change])
    IN before[changes[i].change.id].revision # changes[i].change.read

(* Each change is compared with what those before it left.                 *)
Moved(st, changes) ==
  \E i \in DOMAIN changes :
    \/ \E p \in changes[i].through : st[p[1]].revision # p[2]
    \/ LET before == Put(st, [j \in 1..(i - 1) |-> changes[j].change])
       IN before[changes[i].change.id].revision # changes[i].change.read

(* A link to an IRI not held carries a held type it may land on.           *)
Vouched(after, link, under) == under \in Kinds[link.field] /\ Held(after, under)

(* The links each artifact a set changes held waiting, read before any of  *)
(* the set is written.                                                     *)
WaitedBefore(st, changes) ==
  [x \in {changes[i].change.id : i \in DOMAIN changes} |-> HeldWaiting(st, x)]

LandsIn(after, waited, each, j) ==
  LET link == each.change.left.links[j]
  IN IF ~Held(after, link.target) THEN Vouched(after, link, each.unders[j])
     ELSE /\ after[link.target].kind \in Kinds[link.field]
          /\ \/ ~Waits(after, link)
             \/ each.change.op = "import"
             \/ each.waits[j] /\ Told(each.change.left.links)[j] \in waited[each.change.id]

(* Every link the set hands lands, kb's own to an artifact's type first.   *)
AllLand(st, after, changes) ==
  \A i \in DOMAIN changes : changes[i].change.op # "delete" =>
    /\ Typed(after, changes[i].change.left.kind)
    /\ \A j \in DOMAIN changes[i].change.left.links :
         LandsIn(after, WaitedBefore(st, changes), changes[i], j)

(* Mutated: a part dropped is the draft's to find.                         *)
NoneLinkedToRemoved(st, after, changes) ==
  \A i \in DOMAIN changes : LET x == changes[i].change.id IN
    Held(st, x) /\ ~Held(after, x) =>
      \A y \in Iris \ {changes[k].change.id : k \in DOMAIN changes} :
        after[y].kind # x /\ \A link \in LinksOf(after, y) : link.target # x

(* Nothing outside the set links into what it removes, or a part it drops. *)
NoneLinked(st, after, changes) ==
  LET set == {changes[i].change.id : i \in DOMAIN changes}
  IN \A x \in {y \in set : Held(st, y)} :
       /\ \A l \in LinksIn(after, x) :
            l[1] \in set \/ (Held(after, x) /\ l[2].part \notin Dropped(st, after, x))
       /\ Held(after, x) \/ \A y \in Iris \ set : after[y].kind # x

Integral(st, changes) ==
  LET after == Put(st, [i \in DOMAIN changes |-> changes[i].change])
  IN AllLand(st, after, changes) /\ NoneLinked(st, after, changes)

(* A set drafted and landed over one store, as under the write lock.       *)
LandsWhole(st, ops) ==
  /\ Accepts(st, ops)
  /\ LET handed == Handed(st, Draft(st, ops))
     IN ~Moved(st, handed) /\ Integral(st, handed)

-----------------------------------------------------------------------------
(* The check of the whole store: every artifact against the version it     *)
(* conforms to, those whose type stands at a later one, and what links     *)
(* wait on.                                                                *)
Everything(st) ==
  LET held == {x \in Iris : Held(st, x)}
  IN [violations |-> (UNION {{<<x, i>> : i \in Unlanded(st, st[x], HeldWaiting(st, x), FALSE)} :
                               x \in held})
                     \cup {<<x, 0>> : x \in {y \in held : ~KeptVersion(st, Conforming(st[y]))}},
      stale |-> {x \in held : st[x].version < StandsAt(st[st[x].kind])},
      placeholders |-> {link.target : link \in UNION {{l \in LinksOf(st, x) : Waits(st, l)} :
                                                        x \in held}}]
=============================================================================
