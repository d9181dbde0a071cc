----------------------------- MODULE Importing -----------------------------
(***************************************************************************)
(* A directory of files imported into a store, fresh or not, and a store   *)
(* exported as one (src/kb/importing.py, export.py).                       *)
(*                                                                         *)
(* Every file is read and examined against what the directory brings and   *)
(* the store holds together (examining.py), its links last, against only   *)
(* what would land (judging.py); what differs from what the store holds    *)
(* refuses the directory whole (comparing.py); a file that leads to a      *)
(* broken one is skipped (skipping.py); and what is left lands as one set, *)
(* drafted and checked as any other (Drafts), all of it under one hold of  *)
(* the write lock.  Sets others ask for land when nobody holds it.         *)
(*                                                                         *)
(* An item is told by its name alone, one collection an artifact and one   *)
(* an item; the text of a file is told by what it says of its artifact,   *)
(* and whether kb would write it so and its type takes it.                 *)
(***************************************************************************)
EXTENDS Drafts, Items

LOCAL INSTANCE SequencesExt

CONSTANTS
  NameOrder,   (* Every IRI, in the order of names.                        *)
  Directories, (* The directories that may be imported, sets of files.     *)
  Sets,        (* The sets others may ask for.                             *)
  HandedBack,  (* The collections a revision may hand back.                *)
  Before,      (* What the store holds at first.                           *)
  Fresh,       (* What a store just started holds: the type of types.      *)
  MaxRevision  (* A bound: what stands at it is not asked to be replaced.  *)

(* A file as read: the IRI and, of a type's version, the number its place  *)
(* gives, none where the layout puts no artifact; whether it reads as an   *)
(* artifact there; whether it is written as kb writes it and fits its      *)
(* type, but for its links, names and place; and what it says.             *)
File == [id : Iris \cup {NoIri}, number : Nat, reads_as : BOOLEAN, fit : BOOLEAN,
         revision : Nat \ {0}, kind : Iris, version : Nat \ {0}, links : Seq(Link),
         items : Seq(Item), reads : SUBSET VersionId]

ASSUME OrderAssumption ==
  NameOrder \in Seq(Iris) /\ \A x \in Iris : \E i \in DOMAIN NameOrder : NameOrder[i] = x
ASSUME SetsAssumption == Sets \subseteq Seq(Operation) \ {<<>>} /\ HandedBack \subseteq Seq(Item)
ASSUME BeforeAssumption == Before \in [Iris -> Artifact] /\ Fresh \in [Iris -> Artifact]

(* A place holds one file; and, a bound, an IRI's files are one artifact's *)
(* or versions of one type, never both.                                    *)
ASSUME DirectoriesAssumption ==
  \A dir \in Directories : \A f, g \in dir :
    /\ f \in File
    /\ f.id = g.id /\ (f.number = g.number \/ f.number = 0) => f = g

VARIABLES
  artifacts, (* The tables: artifacts, links, parts and type versions.     *)
  import     (* The import being made, and what its examination found.     *)

vars == <<artifacts, import>>

NoReport == [errors |-> {}, differing |-> {}, skipped |-> {}]
NoImport == [step |-> "none", dir |-> {}, skip_errors |-> FALSE, report |-> NoReport]

Init == artifacts = Before /\ import = NoImport

-----------------------------------------------------------------------------
(* The files, and the relations among them.                                *)
OfType(f) == f.number # 0
Name(f) == <<f.id, f.number>>
Own(f) == f.id = TypeOfTypes
Brings(f) == f.reads_as /\ ~Own(f)

(* Mutated: every version brought of a type a file is read through counts. *)
BeneathAny(dir, f) ==
  {g \in dir : /\ ~Own(g) /\ f.reads_as /\ OfType(g)
               /\ g.id \in {f.kind} \cup (IF OfType(f) THEN {v[1] : v \in f.reads} ELSE {})}

(* The type version files a file is read through: of its own version of    *)
(* its type, and, for a type, of those its schema refers to.               *)
Beneath(dir, f) ==
  {g \in dir : /\ ~Own(g) /\ f.reads_as
               /\ Name(g) \in {<<f.kind, f.version>>} \cup (IF OfType(f) THEN f.reads ELSE {})}

(* The files led to from one by leads, which gives some files others.      *)
Within(leads, f, steps) ==
  LET after[n \in Nat] ==
        IF n = 0 THEN {f}
        ELSE after[n - 1] \cup UNION {leads[g] : g \in after[n - 1] \cap DOMAIN leads}
  IN after[steps]

(* Whether a type file a file is read through is broken, or is itself read *)
(* through one that is.                                                    *)
HeldBack(dir, f, broken) ==
  LET beneath == [g \in dir |-> Beneath(dir, g)]
  IN (Within(beneath, f, Cardinality(dir)) \ {f}) \cap broken # {}

(* The names in order: each type after the types it is read through, the   *)
(* versions of one by their numbers, then the rest.                        *)
Comes(f, g) ==
  LET at(x) == CHOOSE i \in DOMAIN NameOrder : NameOrder[i] = x
  IN at(f.id) < at(g.id) \/ (f.id = g.id /\ f.number < g.number)

RECURSIVE Visited(_, _, _, _)
Visited(dir, ordered, f, seen) ==
  IF f \in ToSet(ordered) \cup seen THEN ordered
  ELSE Append(FoldLeft(LAMBDA found, g : Visited(dir, found, g, seen \cup {f}), ordered,
                       SetToSortSeq(Beneath(dir, f), Comes)), f)

InOrder(files) ==
  LET named == {f \in files : f.id # NoIri}
      types == SetToSortSeq({f \in named : OfType(f)}, Comes)
  IN FoldLeft(LAMBDA found, f : Visited(named, found, f, {}), <<>>, types)
     \o SetToSortSeq({f \in named : ~OfType(f)}, Comes)

(* The parts a file's artifact has once its items are named.               *)
PartsOf(f) == PlacesOf(f.items)

AsImport(f) ==
  [op |-> "import", id |-> f.id, kind |-> f.kind, version |-> f.version, links |-> f.links,
   parts |-> PartsOf(f), reads |-> f.reads, number |-> f.number, revision |-> f.revision]

(* A draft over a store with files put in it in the order given.           *)
WithFiles(st, ordered) ==
  FoldLeft(LAMBDA draft, f : [draft EXCEPT ![f.id] = Brought(@, AsImport(f))], st, ordered)

-----------------------------------------------------------------------------
(* The examination.                                                        *)

(* The types whose place is refused: each judged against the store with    *)
(* the types ahead of it whose own was not.                                *)
Misplaced(st, dir) ==
  LET step(found, f) ==
        IF f.id \in found.judged THEN found
        ELSE IF Held(st, f.id) \/ SitsFree(found.ahead, f.id)
        THEN [found EXCEPT !.judged = @ \cup {f.id}, !.ahead = WithFiles(@, <<f>>)]
        ELSE [found EXCEPT !.judged = @ \cup {f.id}, !.refused = @ \cup {f.id}]
  IN FoldLeft(step, [ahead |-> st, judged |-> {}, refused |-> {}],
              InOrder({f \in dir : OfType(f) /\ Brings(f)})).refused

(* Mutated: an artifact's place is left to its landing.                    *)
FaultyAnywhere(st, draft, f, misplaced) ==
  IF Own(f) THEN ~f.fit
  ELSE \/ ~KeptVersion(draft, <<f.kind, f.version>>)
       \/ ~f.fit
       \/ Misgiven(f.items) # {}
       \/ OfType(f) /\ f.id \in misplaced
       \/ OfType(f) /\ \E v \in f.reads : v[1] = f.id \/ ~KeptVersion(draft, v)

(* Whether a file is at fault but for its links: its type's version, its   *)
(* text and what it holds, the names it gives, its place and, of a type,   *)
(* the versions it reads.  A copy of the type of types is to be the        *)
(* store's own.                                                            *)
Faulty(st, draft, f, misplaced) ==
  IF Own(f) THEN ~f.fit
  ELSE \/ ~KeptVersion(draft, <<f.kind, f.version>>)
       \/ ~f.fit
       \/ Misgiven(f.items) # {}
       \/ IF OfType(f) THEN f.id \in misplaced ELSE Nearest(draft, f.id) # f.kind
       \/ OfType(f) /\ \E v \in f.reads : v[1] = f.id \/ ~KeptVersion(draft, v)

(* The files with an error before any link is judged, each found after the *)
(* types it is read through: one read through a broken one is not checked. *)
Broken(st, dir) ==
  LET draft == WithFiles(st, SetToSortSeq({f \in dir : Brings(f)}, LAMBDA f, g : f.number < g.number))
      misplaced == Misplaced(st, dir)
      step(broken, f) ==
        IF f.reads_as /\ (Own(f) \/ ~HeldBack(dir, f, broken)) /\ Faulty(st, draft, f, misplaced)
        THEN broken \cup {f} ELSE broken
  IN FoldLeft(step, {f \in dir : ~f.reads_as}, InOrder(dir))

(* The shortest way from a file to a broken one, in steps; 0 for none.     *)
StepsTo(leads, f, broken) ==
  LET reached == {n \in 1..Cardinality(DOMAIN leads) + 1 : Within(leads, f, n) \cap broken # {}}
  IN IF reached = {} THEN 0 ELSE CHOOSE n \in reached : \A m \in reached : n <= m

(* The files each file without an error leads to through its types.        *)
Through(dir, broken) ==
  [f \in {g \in dir : g.id # NoIri /\ ~Own(g)} \ broken |-> Beneath(dir, f)]

(* The types no version of which would land.                               *)
Lost(st, dir, broken) ==
  LET through == Through(dir, broken)
      left == broken \cup {f \in DOMAIN through : StepsTo(through, f, broken) # 0}
      versions(t) == {f \in dir : f.id = t /\ OfType(f)}
  IN {t \in Iris \ {TypeOfTypes} : ~Held(st, t) /\ versions(t) # {} /\ versions(t) \subseteq left}

(* The lost type a link's target sits under, none when a type that lands   *)
(* or is held is as near.                                                  *)
UnderLost(landing, target, lost) ==
  LET nearest == Nearest(landing, target)
      stops == {i \in DOMAIN Above[target] : Above[target][i] \in lost \cup {nearest}}
  IN IF stops = {} THEN NoIri
     ELSE LET first == Above[target][CHOOSE i \in stops : \A j \in stops : i <= j]
          IN IF first = nearest THEN NoIri ELSE first

(* The links judged, against the store with only what would land: a file   *)
(* whose link neither lands nor waits, and is under no lost type, is       *)
(* broken; one with a link under a lost type waits on that type's files.   *)
Judged(st, dir, broken) ==
  LET read == {f \in dir : Brings(f) /\ f.id # NoIri /\ ~HeldBack(dir, f, broken)}
      landing == WithFiles(st, InOrder(read \ broken))
      lost == Lost(st, dir, broken)
      unlanded(f) == {f.links[i] : i \in Unlanded(landing, Brought(Nothing, AsImport(f)), {}, TRUE)}
      unheld(f) == {f.links[i] : i \in {j \in DOMAIN f.links : ~Held(landing, f.links[j].target)}}
      under(f) == {UnderLost(landing, link.target, lost) : link \in unlanded(f) \cup unheld(f)}
  IN [broken |-> {f \in read \ broken :
                    \E link \in unlanded(f) : UnderLost(landing, link.target, lost) = NoIri},
      waiting |-> [f \in read \ broken |-> {g \in dir : OfType(g) /\ g.id \in under(f)}]]

(* Mutated: a version the store lacks is taken whatever its type stands at.*)
DiffersKept(st, f) ==
  IF OfType(f)
  THEN IF KeptVersion(st, <<f.id, f.number>>) THEN st[f.id].versions[f.number].reads # f.reads
       ELSE ~Typed(st, f.id) \/ f.number < Len(st[f.id].versions)
  ELSE Brought(Nothing, AsImport(f)) # [st[f.id] EXCEPT !.revision = f.revision]

(* Whether a file differs from what the store holds at its IRI: it says    *)
(* otherwise, but for its revision; or it is a version the store keeps     *)
(* none of and its type could not gain.                                    *)
Differs(st, f) ==
  IF OfType(f)
  THEN IF KeptVersion(st, <<f.id, f.number>>) THEN st[f.id].versions[f.number].reads # f.reads
       ELSE ~Typed(st, f.id) \/ f.number < Len(st[f.id].versions) \/ f.revision <= st[f.id].revision
  ELSE Brought(Nothing, AsImport(f)) # [st[f.id] EXCEPT !.revision = f.revision]

Differing(st, files) == {f \in files : Brings(f) /\ f.id # NoIri /\ Held(st, f.id) /\ Differs(st, f)}

(* Whether the store holds what a file brings as the file gives it.        *)
HeldAs(st, f) ==
  /\ Held(st, f.id) /\ ~Differs(st, f)
  /\ OfType(f) => KeptVersion(st, <<f.id, f.number>>)

(* The files without an error that lead to a broken one, through their     *)
(* types or what their links wait on, each with how far it is.             *)
Skipped(dir, broken, waiting) ==
  LET through == Through(dir, broken)
      leads == [f \in DOMAIN through |->
                  through[f] \cup IF f \in DOMAIN waiting THEN waiting[f] ELSE {}]
  IN {[file |-> f, steps |-> StepsTo(leads, f, broken)] :
        f \in {g \in DOMAIN leads : StepsTo(leads, g, broken) # 0}}

Report(st, dir) ==
  LET broken == Broken(st, dir)
      judged == Judged(st, dir, broken)
      differing == Differing(st, dir)
      errors == broken \cup judged.broken \cup differing
  IN [errors |-> errors, differing |-> differing, skipped |-> Skipped(dir, errors, judged.waiting)]

-----------------------------------------------------------------------------
(* What an import takes, and lands: what the store holds already is passed *)
(* over.                                                                   *)
Taken(dir, report) ==
  {f \in dir : f.id # NoIri /\ ~Own(f)} \ (report.errors \cup {s.file : s \in report.skipped})

(* The set as it is drafted: the versions of one type in the order of      *)
(* their numbers, at the places its imports had.                           *)
ByNumber(files) ==
  LET of(i) == SortSeq(SelectSeq(files, LAMBDA f : f.id = files[i].id),
                       LAMBDA f, g : f.number < g.number)
      rank(i) == Cardinality({j \in 1..i : files[j].id = files[i].id})
  IN [i \in DOMAIN files |-> of(i)[rank(i)]]

Landed(st, files) ==
  LET ordered == ByNumber(InOrder({f \in files : ~HeldAs(st, f)}))
  IN [i \in DOMAIN ordered |-> AsImport(ordered[i])]

Refused(asked) ==
  asked.report.differing # {} \/ (asked.report.errors # {} /\ ~asked.skip_errors)

(* What the store is left as by an import examined.                        *)
Imported(st, asked) ==
  LET ops == Landed(st, Taken(asked.dir, asked.report))
  IN IF ~Refused(asked) /\ ops # <<>> /\ LandsWhole(st, ops) THEN Put(st, Drafted(st, ops)) ELSE st

(* A collection as an export writes it, its items by their names.          *)
RECURSIVE ItemsNamed(_)
ItemsNamed(parts) ==
  LET names == SetToSeq({Head(place) : place \in parts})
  IN [i \in DOMAIN names |-> [title |-> Untitled, name |-> names[i],
                              items |-> ItemsNamed(Had(parts, names[i]))]]

ArtifactFile(st, x) ==
  [id |-> x, number |-> 0, reads_as |-> TRUE, fit |-> TRUE, revision |-> st[x].revision,
   kind |-> st[x].kind, version |-> st[x].version, links |-> st[x].links,
   items |-> ItemsNamed(st[x].parts), reads |-> {}]

VersionFile(st, x, n) ==
  [ArtifactFile(st, x) EXCEPT !.number = n, !.revision = st[x].versions[n].revision,
                              !.reads = st[x].versions[n].reads]

(* Mutated: an export writes only the version a type stands at.            *)
ExportedStanding(st) ==
  UNION {IF Typed(st, x) THEN {VersionFile(st, x, Len(st[x].versions))} ELSE {ArtifactFile(st, x)}
           : x \in {y \in Iris : Held(st, y)}}

(* The files of an export: each artifact, and every version kept of every  *)
(* type, at the revision it was made with.                                 *)
Exported(st) ==
  UNION {IF Typed(st, x)
         THEN {VersionFile(st, x, n) : n \in {m \in DOMAIN st[x].versions : KeptVersion(st, <<x, m>>)}}
         ELSE {ArtifactFile(st, x)} : x \in {y \in Iris : Held(st, y)}}

-----------------------------------------------------------------------------
(* Mutated: an import takes the lock only to land.                         *)
AlwaysFree == TRUE

(* Whether nobody holds the write lock: an import holds it from before the *)
(* directory is read.                                                      *)
Free == import.step = "none"

(* A set another call asks for lands, or is refused.                       *)
Changes ==
  /\ Free
  /\ \E ops \in Sets :
       /\ \A i \in DOMAIN ops : ops[i].op = "write" => artifacts[ops[i].id].revision < MaxRevision
       /\ LandsWhole(artifacts, ops)
       /\ artifacts' = Put(artifacts, Drafted(artifacts, ops))
  /\ UNCHANGED import

(* An artifact's collection is handed back with another, its items named;  *)
(* refused when one carries a name the store could not have given it.      *)
Revises ==
  /\ Free
  /\ \E x \in Iris, items \in HandedBack :
       LET op == [op |-> "write", id |-> x, kind |-> NoIri, version |-> 0, links |-> artifacts[x].links,
                  parts |-> PlacesOf(items), reads |-> {}, number |-> 0, revision |-> 0]
       IN /\ Held(artifacts, x) /\ artifacts[x].kind # TypeOfTypes
          /\ artifacts[x].revision < MaxRevision
          /\ Mishanded(items, artifacts[x].parts) = {}
          /\ LandsWhole(artifacts, <<op>>)
          /\ artifacts' = Put(artifacts, Drafted(artifacts, <<op>>))
  /\ UNCHANGED import

(* The write lock is taken and the directory read, then examined against   *)
(* the store, and what differs and what is broken found.                   *)
Examines ==
  /\ import.step = "none"
  /\ \E dir \in Directories, skip_errors \in BOOLEAN :
       import' = [step |-> "examined", dir |-> dir, skip_errors |-> skip_errors,
                  report |-> Report(artifacts, dir)]
  /\ UNCHANGED artifacts

(* The directory is refused, or what it brings lands, and the lock is let  *)
(* go.                                                                     *)
Lands ==
  /\ import.step = "examined"
  /\ artifacts' = Imported(artifacts, import)
  /\ import' = NoImport

Next == Changes \/ Revises \/ Examines \/ Lands

Spec == Init /\ [][Next]_vars

-----------------------------------------------------------------------------
(* What an import takes it lands: what its examination passed is never     *)
(* refused by the set's own checks, and is held afterwards as its files    *)
(* gave it, each item under a name of its own, so importing the directory  *)
(* again would land nothing (importing.imported, examining.examined).      *)
LandsAsExamined ==
  [][import.step = "examined" /\ import'.step = "none" /\ ~Refused(import) =>
       \A f \in Taken(import.dir, import.report) :
         /\ HeldAs(artifacts', f)
         /\ ~OfType(f) => Cardinality(artifacts'[f.id].parts) = Cardinality(Standing(f.items))]_vars

(* An import changes nothing held, but that a type gains versions above    *)
(* the one it stood at, and stands at the last (comparing._out_of_step).   *)
HeldKept ==
  [][import.step = "examined" /\ import'.step = "none" =>
       \A x \in Iris : Held(artifacts, x) /\ artifacts'[x] # artifacts[x] =>
         /\ Typed(artifacts, x) /\ Typed(artifacts', x)
         /\ SubSeq(artifacts'[x].versions, 1, Len(artifacts[x].versions)) = artifacts[x].versions
         /\ artifacts'[x].revision > artifacts[x].revision]_vars

(* What an import leaves is sound, though no file's place is asked about   *)
(* again as its set is drafted: every artifact belongs to the type it sits *)
(* under, every version a type reads is held, and the check of the store   *)
(* finds nothing (examining._places, _faults, judging.unlanded).           *)
ImportsSound ==
  /\ \A x \in Iris : Held(artifacts, x) /\ artifacts[x].kind # TypeOfTypes =>
       Nearest(artifacts, x) = artifacts[x].kind
  /\ \A x \in Iris : Typed(artifacts, x) =>
       \A n \in DOMAIN artifacts[x].versions : \A v \in artifacts[x].versions[n].reads :
         KeptVersion(artifacts, v)
  /\ Everything(artifacts).violations = {}

(* What is skipped is skipped for cause: a file left out that has no error *)
(* is read through a version the directory brings and that is left out, or *)
(* links to an IRI below a type the directory brings and no version of     *)
(* which is held afterwards (skipping.lost, judging.unlanded).             *)
SkippedForCause ==
  [][import.step = "examined" /\ import'.step = "none" /\ ~Refused(import) =>
       LET left_out == import.dir \ Taken(import.dir, import.report)
           lost == {f.id : f \in {g \in left_out : OfType(g) /\ ~Held(artifacts', g.id)}}
       IN \A s \in import.report.skipped :
            \/ \E g \in left_out : Name(g) \in {<<s.file.kind, s.file.version>>} \cup s.file.reads
            \/ \E i \in DOMAIN s.file.links : \E t \in lost : SitsUnder(s.file.links[i].target, t)]_vars

(* A store comes back from its export as it was: the files of any store    *)
(* the calls can make check clean in a fresh one, and leave it holding     *)
(* what the store held (export.files, importing.imported).                 *)
ComesBack ==
  import.step = "none" =>
  LET dir == Exported(artifacts)
      asked == [step |-> "examined", dir |-> dir, skip_errors |-> FALSE, report |-> Report(Fresh, dir)]
  IN ~Refused(asked) /\ Imported(Fresh, asked) = artifacts
=============================================================================
