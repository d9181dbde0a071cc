----------------------------- MODULE Integrity -----------------------------
(***************************************************************************)
(* What kb's links land on: the checks of a set by its draft and again     *)
(* inside its landing transaction, while other sets land in between.       *)
(*                                                                         *)
(* A draft reads statement by statement; here it reads at two moments, one *)
(* for what its set is judged by and one for what it hands.  A set drafted *)
(* under the write lock is judged, handed and landed at one.  How one row  *)
(* is read, stamped and compared is Landing's.                             *)
(***************************************************************************)
EXTENDS Drafts

CONSTANTS
  Calls,       (* The calls being made, each asking for one set after another. *)
  Sets,        (* The sets a call may ask for, sequences of operations.    *)
  Before,      (* What the store holds at first.                           *)
  MaxRevision  (* A bound: what stands at it is not asked to be replaced.  *)

ASSUME SetsAssumption == Sets \subseteq Seq(Operation) \ {<<>>}

(* A bound: a set changes each of its artifacts once.                      *)
ASSUME OnceAssumption ==
  \A ops \in Sets : \A i, j \in DOMAIN ops : ops[i].id = ops[j].id => i = j

(* A set holds changes of one kind: creates, replacements and additions,   *)
(* which both write, removals, or what an import brings (changes.py,       *)
(* importing.py).                                                          *)
ASSUME OneKindAssumption ==
  \A ops \in Sets : \A i, j \in DOMAIN ops : ops[i].op = ops[j].op

(* A bound: no import brings revision 0, at which the port takes nothing   *)
(* to be held (sqlite_checks._compared).                                   *)
ASSUME ImportsAssumption ==
  \A ops \in Sets : \A i \in DOMAIN ops : ops[i].op = "import" => ops[i].revision # 0

(* A create and an import say their artifact's kind.                       *)
ASSUME GivenAssumption ==
  \A ops \in Sets : \A i \in DOMAIN ops : ops[i].op \in {"create", "import"} => ops[i].kind # NoIri

(* Every artifact that is no type is of the nearest held type it sits      *)
(* under.                                                                  *)
Belongs(st) ==
  \A x \in Iris : Held(st, x) /\ st[x].kind # TypeOfTypes =>
    st[x].kind # NoIri /\ Nearest(st, x) = st[x].kind

(* Every version of a type that another's version reads is held while the  *)
(* version that reads it is.                                               *)
ReadsHeld(st) ==
  \A x \in Iris : Typed(st, x) =>
    \A n \in DOMAIN st[x].versions : \A v \in st[x].versions[n].reads : KeptVersion(st, v)

(* What is not held is nothing, no version kept of it; and the check of    *)
(* the store finds nothing at first.                                       *)
ASSUME BeforeAssumption ==
  /\ Before \in [Iris -> Artifact]
  /\ \A x \in Iris : ~Held(Before, x) => Before[x] = Nothing
  /\ Belongs(Before) /\ ReadsHeld(Before) /\ Everything(Before).violations = {}

(* What one set replaces no set removes: where one does, a replacement     *)
(* lands over what it never read, at the revision it read (Landing).       *)
ReplacedStays(sets) ==
  \A ops, others \in sets : \A i \in DOMAIN ops, j \in DOMAIN others :
    ops[i].op = "write" /\ others[j].op = "delete" => ops[i].id # others[j].id

(* A set that defines a type or imports is drafted anew under the lock.    *)
UnderLock(ops) ==
  \E i \in DOMAIN ops :
    ops[i].op = "import" \/ (ops[i].op = "create" /\ ops[i].kind = TypeOfTypes)

(* What a type of a set reads no set removes, or the set is drafted under  *)
(* the lock: what was read is found again as a change is handed, passing   *)
(* over what went meanwhile (composition.read_through).                    *)
ReadStays(sets) ==
  \A ops, others \in sets : \A i \in DOMAIN ops, j \in DOMAIN others :
    others[j].op = "delete" /\ (\E v \in ops[i].reads : v[1] = others[j].id) => UnderLock(ops)

(* What a type reads is never made what is no type: a removal of that      *)
(* would be taken for one of the type (Landing).                           *)
ReadIn(sets) ==
  {t \in Iris :
     \/ \E ops \in sets : \E i \in DOMAIN ops : \E v \in ops[i].reads : v[1] = t
     \/ \E x \in Iris : \E n \in DOMAIN Before[x].versions :
          \E v \in Before[x].versions[n].reads : v[1] = t}

MadeAsTypes(sets, iris) ==
  \A t \in iris :
    /\ Held(Before, t) => Typed(Before, t)
    /\ \A ops \in sets : \A i \in DOMAIN ops :
         ops[i].id = t /\ ops[i].op \in {"create", "import"} => ops[i].kind = TypeOfTypes

ReadAsTypes(sets) == MadeAsTypes(sets, ReadIn(sets))

(* Nor is what a link may land under: the port asks only that something    *)
(* is held there (sqlite_checks._vouched).                                 *)
LinkedIn(sets) ==
  {t \in Iris :
     \/ \E ops \in sets : \E i \in DOMAIN ops : \E j \in DOMAIN ops[i].links :
          t \in Kinds[ops[i].links[j].field]
     \/ \E x \in Iris : \E link \in LinksOf(Before, x) : t \in Kinds[link.field]}

LinkedAsTypes(sets) == MadeAsTypes(sets, LinkedIn(sets))

(* The revision of a type some set removes tells which versions are kept   *)
(* of it, as it does but for what an import brings.                        *)
Counted(type) ==
  type.revision = Len(type.versions) /\ \A n \in DOMAIN type.versions : type.versions[n] # NotKept

RemovedCounted(sets) ==
  \A ops, others \in sets : \A i \in DOMAIN ops, j \in DOMAIN others :
    ops[i].op = "delete" =>
      /\ Typed(Before, ops[i].id) => Counted(Before[ops[i].id])
      /\ others[j].op = "import" => others[j].id # ops[i].id

VARIABLES
  artifacts, (* The tables: artifacts, links, parts and type versions.     *)
  at,        (* Where each call is.                                        *)
  set,       (* The set each call asks for.                                *)
  judged,    (* What each call's draft made of it, as its judging found it.*)
  handed     (* The changes each call hands to the port.                   *)

vars == <<artifacts, at, set, judged, handed>>

Steps == {"idle", "judge", "hand", "land", "relock"}
Unjudged == [changes |-> <<>>, types |-> {}]

Init ==
  /\ artifacts = Before
  /\ at = [c \in Calls |-> "idle"]
  /\ set = [c \in Calls |-> <<>>]
  /\ judged = [c \in Calls |-> Unjudged]
  /\ handed = [c \in Calls |-> <<>>]

-----------------------------------------------------------------------------
(* A call asks for a set; importing holds the write lock from its start.   *)
Asks(c) ==
  /\ at[c] = "idle"
  /\ \E ops \in Sets :
       /\ \A i \in DOMAIN ops : ops[i].op = "write" => artifacts[ops[i].id].revision < MaxRevision
       /\ set' = [set EXCEPT ![c] = ops]
       /\ at' = [at EXCEPT ![c] =
            IF \E i \in DOMAIN ops : ops[i].op = "import" THEN "relock" ELSE "judge"]
  /\ UNCHANGED <<artifacts, judged, handed>>

(* A call answered, landed or refused.                                     *)
Ends(c) ==
  /\ at' = [at EXCEPT ![c] = "idle"]
  /\ set' = [set EXCEPT ![c] = <<>>]
  /\ judged' = [judged EXCEPT ![c] = Unjudged]
  /\ handed' = [handed EXCEPT ![c] = <<>>]

(* The draft judges its set by the store as it stands.                     *)
Judges(c) ==
  /\ at[c] = "judge"
  /\ IF Accepts(artifacts, set[c])
     THEN /\ judged' = [judged EXCEPT ![c] = Draft(artifacts, set[c])]
          /\ at' = [at EXCEPT ![c] = "hand"]
          /\ UNCHANGED <<artifacts, set, handed>>
     ELSE Ends(c) /\ UNCHANGED artifacts

Hands(c) ==
  /\ at[c] = "hand"
  /\ IF Conform(artifacts, judged[c].changes)
     THEN /\ IF Locked(artifacts, judged[c])
             THEN at' = [at EXCEPT ![c] = "relock"] /\ UNCHANGED handed
             ELSE /\ at' = [at EXCEPT ![c] = "land"]
                  /\ handed' = [handed EXCEPT ![c] = Handed(artifacts, judged[c])]
          /\ judged' = [judged EXCEPT ![c] = Unjudged]
          /\ UNCHANGED <<artifacts, set>>
     ELSE Ends(c) /\ UNCHANGED artifacts

(* A set lands as drafted, conflicts, or is refused by the port.           *)
Lands(c) ==
  /\ at[c] = "land"
  /\ IF Moved(artifacts, handed[c])
     THEN /\ at' = [at EXCEPT ![c] = "relock"]
          /\ handed' = [handed EXCEPT ![c] = <<>>]
          /\ UNCHANGED <<artifacts, set, judged>>
     ELSE /\ artifacts' = IF Integral(artifacts, handed[c])
               THEN Put(artifacts, [i \in DOMAIN handed[c] |-> handed[c][i].change]) ELSE artifacts
          /\ Ends(c)

(* An import brings what its check passed: nothing is held where it lands, *)
(* a type may be defined there beside what comes before it, and what is no *)
(* type sits under its type as the set leaves the store.  The check itself *)
(* is Importing's.                                                         *)
Examined(st, ops) ==
  LET changes == Drafted(st, ops)
  IN \A i \in DOMAIN ops : ops[i].op = "import" =>
       /\ ~Held(st, ops[i].id)
       /\ IF ops[i].kind = TypeOfTypes
          THEN SitsFree(Put(st, SubSeq(changes, 1, i - 1)), ops[i].id)
          ELSE Nearest(Put(st, changes), ops[i].id) = ops[i].kind

(* A set drafted anew and landed while no other can land.                  *)
LandsUnderLock(c) ==
  /\ at[c] = "relock"
  /\ artifacts' = IF Examined(artifacts, set[c]) /\ LandsWhole(artifacts, set[c])
                  THEN Put(artifacts, Drafted(artifacts, set[c])) ELSE artifacts
  /\ Ends(c)

Next == \E c \in Calls : Asks(c) \/ Judges(c) \/ Hands(c) \/ Lands(c) \/ LandsUnderLock(c)

Spec == Init /\ [][Next]_vars

-----------------------------------------------------------------------------
(* What each variable may hold: the tables, and what calls drafted.        *)
TypeOK ==
  /\ artifacts \in [Iris -> Artifact]
  /\ at \in [Calls -> Steps]
  /\ set \in [Calls -> Seq(Operation)]
  /\ judged \in [Calls -> [changes : Seq(Change), types : SUBSET (Iris \X Nat)]]
  /\ handed \in [Calls -> Seq(PortChange)]

(* Every link held lands on an artifact of a kind its field allows, or on  *)
(* an IRI not held whose nearest held type its field allows, however sets  *)
(* drafted over another store landed in between (_lands, _vouched).        *)
LinksLand ==
  \A y \in Iris : \A link \in LinksOf(artifacts, y) :
    LET x == link.target
    IN IF Held(artifacts, x) THEN artifacts[x].kind \in Kinds[link.field]
       ELSE Nearest(artifacts, x) \in Kinds[link.field]

(* An artifact that is no type is of the nearest held type it sits under,  *)
(* though that type and nearer ones are defined and removed by other sets  *)
(* (naming.identity, standing.guarded).                                    *)
BelongsWhereItSits == Belongs(artifacts)

(* Every version of a type that another's version reads is held while the  *)
(* version that reads it is (standing.in_the_way, _read_by_the_version_made).*)
ReadTypesHeld == ReadsHeld(artifacts)

(* What landed fits the store it stands in, whatever landed since: the     *)
(* check finds no artifact whose version of its type is gone, and no link  *)
(* that neither lands nor waits as it may (check.everything).              *)
CheckFindsNothing == Everything(artifacts).violations = {}

(* A link that lands goes on landing until the artifact holding it is      *)
(* changed: nobody removes or drops what another links to (_integral).     *)
Landing(st, y) == {link \in LinksOf(st, y) : ~Waits(st, link)}

LandedStays ==
  [][\A y \in Iris : artifacts'[y] = artifacts[y] =>
       Landing(artifacts, y) \subseteq Landing(artifacts', y)]_vars

(* A change leaves no more links waiting on a part their held target lacks *)
(* than its artifact held waiting before, each as often; only an import    *)
(* brings such a link (_waited, _lands).                                   *)
Copies(st, y, link) == Cardinality({i \in DOMAIN st[y].links : st[y].links[i] = link})
Imported(y) ==
  \E c \in Calls : at[c] # at'[c] /\ \E i \in DOMAIN set[c] :
    set[c][i].op = "import" /\ set[c][i].id = y

OnlyWhatWaitedWaits ==
  [][\A y \in Iris : artifacts'[y] # artifacts[y] =>
       \/ Imported(y)
       \/ \A link \in LinksOf(artifacts', y) :
            Held(artifacts', link.target) /\ Waits(artifacts', link) =>
              /\ Waits(artifacts, link)
              /\ Copies(artifacts', y, link) <= Copies(artifacts, y, link)]_vars

(* A set landed as first drafted is one the draft would accept over the    *)
(* store it lands on: what the port compares and checks stands for drafting*)
(* it again (write.land, sqlite_store.land).                               *)
LandsAsJudged ==
  [][\A c \in Calls : at[c] = "land" /\ at'[c] = "idle" /\ artifacts' # artifacts =>
       Accepts(artifacts, set[c])]_vars
=============================================================================
