------------------------------ MODULE Landing ------------------------------
(***************************************************************************)
(* The write path of kb: how a set of operations asked by one caller is     *)
(* drafted, stamped, compared and landed while other callers do the same.  *)
(*                                                                         *)
(* A call drafts its set against the store outside any transaction: each   *)
(* read is a statement of its own (src/kb/edits.py over src/kb/draft.py).  *)
(* It then reads the clock, mints the ids of its entries and hands the set *)
(* to the port, which compares every revision and lands it in one          *)
(* transaction (src/kb/sqlite_store.py).  On a Conflict, or when the draft *)
(* says it must, the call takes SQLite's write lock and does all of it     *)
(* again (src/kb/write.py, land).                                          *)
(***************************************************************************)
EXTENDS Naturals, FiniteSets, Sequences

CONSTANTS
  Calls,     (* The calls being made, each asking for one set.              *)
  Nobody,    (* The holder of a lock nobody holds; who made what came first.*)
  Iris,      (* The IRIs an artifact may be held at.                        *)
  Types,     (* Those of them a type is defined at.                         *)
  TypeOf,    (* The type each other IRI belongs to.                         *)
  Sets,      (* The sets a call may ask for, each a sequence of operations. *)
  Before,    (* The IRIs created, in this order, by the store's first set.  *)
  Moments    (* What the clock may read, again and in any order.            *)

Operation == [op : {"create", "write", "append", "delete"}, id : Iris, expected : Nat]

(* expected is the revision the client says it read; 0 stands for none.    *)
ASSUME SetsAssumption == Sets \subseteq Seq(Operation) \ {<<>>}
(* A create has read no revision to say it expects (edits.created).        *)
ASSUME CreatesAssumption ==
  \A set \in Sets : \A i \in DOMAIN set : set[i].op = "create" => set[i].expected = 0
ASSUME TypesAssumption == Types \subseteq Iris /\ TypeOf \in [Iris \ Types -> Types]
ASSUME CallsAssumption == Nobody \notin Calls
ASSUME BeforeAssumption ==
  /\ Before \in Seq(Iris)
  /\ \A i, j \in DOMAIN Before : Before[i] = Before[j] => i = j
  /\ \A i \in DOMAIN Before : Before[i] \notin Types =>
        \E j \in 1..(i - 1) : Before[j] = TypeOf[Before[i]]
ASSUME MomentsAssumption == Moments \subseteq Nat \ {0}

VARIABLES
  artifacts, (* The table of artifacts: what stands at each IRI.           *)
  entries,   (* The history, one entry for each change landed.             *)
  sets,      (* How many sets have landed.                                 *)
  lock,      (* The call holding SQLite's write lock between statements.   *)
  pc,        (* Where each call is.                                        *)
  asked,     (* The set each call asks for.                                *)
  draft,     (* What each call has drafted and read so far.                *)
  stamps,    (* The ids each call has minted for its entries.              *)
  outcome    (* What each call was answered.                               *)

vars == <<artifacts, entries, sets, lock, pc, asked, draft, stamps, outcome>>
store == <<artifacts, entries, sets>>

-----------------------------------------------------------------------------
(* What is held.  Revision 0 is the code's own way to say nothing is held.  *)
(* An artifact's content is abstracted to the calls whose text is in it:   *)
(* a create or a replace leaves its own, an add leaves its own beside what *)
(* it read.  landed is the number of the set that wrote it (versions.landed).*)
Writers == Calls \cup {Nobody}
Artifact == [revision : Nat, landed : Nat, content : SUBSET Writers]
Nothing == [revision |-> 0, landed |-> 0, content |-> {}]

(* A change as the port takes it: what it leaves, the revision it read the  *)
(* artifact at, and the set that had landed what it read (0 when it read   *)
(* nothing, or what its own set left), which the code does not keep.       *)
Change == [op : {"create", "write", "append", "delete"}, id : Iris, expected : Nat,
           read : Nat, revision : Nat, content : SUBSET Writers, seen : Nat]

EntryId == Nat \X Nat
Entry == [id : EntryId, set : Nat, step : Nat, op : {"create", "write", "append", "delete"},
          artifact : Iris, revision : Nat, by : Writers]

Draft == [put : SUBSET Iris, removed : SUBSET Iris, left : [Iris -> Artifact],
          types : [Iris -> Artifact], current : Artifact, changes : Seq(Change),
          moments : Seq(Nat)]

Blank == [put |-> {}, removed |-> {}, left |-> [x \in Iris |-> Nothing],
          types |-> [x \in Iris |-> Nothing], current |-> Nothing, changes |-> <<>>,
          moments |-> <<>>]

Drafting == {"holds", "expected", "current", "type_holds", "type_read", "free", "check"}
Steps == Drafting \cup {"idle", "mint", "land", "relock", "landed", "done"}
Outcomes == {"none", "landed", "refused", "busy", "escaped", "lost"}

TypeOK ==
  /\ artifacts \in [Iris -> Artifact]
  /\ entries \subseteq Entry
  /\ sets \in Nat
  /\ lock \in Calls \cup {Nobody}
  /\ pc \in [Calls -> Steps]
  /\ asked \in [Calls -> Seq(Operation)]
  /\ draft \in [Calls -> Draft]
  /\ stamps \in [Calls -> Seq(EntryId)]
  /\ outcome \in [Calls -> Outcomes]

Init ==
  /\ artifacts = [x \in Iris |->
       IF \E i \in DOMAIN Before : Before[i] = x
       THEN [revision |-> 1, landed |-> 1, content |-> {Nobody}] ELSE Nothing]
  /\ entries = {[id |-> <<0, i>>, set |-> 1, step |-> i, op |-> "create",
                 artifact |-> Before[i], revision |-> 1, by |-> Nobody] : i \in DOMAIN Before}
  /\ sets = 1
  /\ lock = Nobody
  /\ pc = [c \in Calls |-> "idle"]
  /\ asked = [c \in Calls |-> <<>>]
  /\ draft = [c \in Calls |-> Blank]
  /\ stamps = [c \in Calls |-> <<>>]
  /\ outcome = [c \in Calls |-> "none"]

-----------------------------------------------------------------------------
(* The draft read over the store: what the set put or removed first.       *)
Holds(c, x) ==
  /\ x \notin draft[c].removed
  /\ x \in draft[c].put \/ artifacts[x].revision # 0

(* What Draft.artifact returns: what the set put, a type as first read, or *)
(* what stands in the store as this statement finds it.                    *)
Read(c, x) ==
  IF x \in draft[c].put THEN draft[c].left[x]
  ELSE IF draft[c].types[x] # Nothing THEN draft[c].types[x]
  ELSE artifacts[x]

(* Read raises KeyError on Nothing.                                        *)
Found(c, x) == Read(c, x) # Nothing

(* A type read from the store is kept as first read.                       *)
Kept(c, x) ==
  IF x \in Types /\ x \notin draft[c].put THEN [draft[c].types EXCEPT ![x] = Read(c, x)]
  ELSE draft[c].types

Acting(c) == asked[c][Len(draft[c].changes) + 1]

FirstStep(operation) ==
  IF operation.op # "create" THEN "holds"
  ELSE IF operation.id \in Types THEN "free" ELSE "type_holds"

(* Mutated: a call answered under the write lock keeps it.                 *)
EndsLocked(c, answer) ==
  /\ pc' = [pc EXCEPT ![c] = "done"]
  /\ outcome' = [outcome EXCEPT ![c] = answer]
  /\ draft' = [draft EXCEPT ![c] = Blank]
  /\ stamps' = [stamps EXCEPT ![c] = <<>>]
  /\ UNCHANGED <<artifacts, entries, sets, lock, asked>>

(* The call is answered, giving back the write lock if it holds it and     *)
(* letting go of what it drafted.                                          *)
Ends(c, answer) ==
  /\ pc' = [pc EXCEPT ![c] = "done"]
  /\ outcome' = [outcome EXCEPT ![c] = answer]
  /\ lock' = IF lock = c THEN Nobody ELSE lock
  /\ draft' = [draft EXCEPT ![c] = Blank]
  /\ stamps' = [stamps EXCEPT ![c] = <<>>]
  /\ UNCHANGED <<artifacts, entries, sets, asked>>

Refused(c) == Ends(c, "refused")
Escaped(c) == Ends(c, "escaped")

GoesTo(c, step) ==
  /\ pc' = [pc EXCEPT ![c] = step]
  /\ UNCHANGED <<artifacts, entries, sets, lock, asked, stamps, outcome>>

(* The draft as one operation leaves it: what it makes put over the store, *)
(* or what it removes taken out, and its change the last of the set's.     *)
Drafted(c, kept, change) ==
  LET gone == change.op = "delete"
      left == [revision |-> change.revision, landed |-> 0, content |-> change.content]
  IN [put |-> IF gone THEN draft[c].put ELSE draft[c].put \cup {change.id},
      removed |-> IF gone THEN draft[c].removed \cup {change.id} ELSE draft[c].removed \ {change.id},
      left |-> IF gone THEN draft[c].left ELSE [draft[c].left EXCEPT ![change.id] = left],
      types |-> kept,
      current |-> Nothing,
      changes |-> Append(draft[c].changes, change),
      moments |-> <<>>]

(* One operation acted; then the next one, or the checks of the whole set. *)
Acted(c, kept, read, revision, content, seen) ==
  LET change == [op |-> Acting(c).op, id |-> Acting(c).id, expected |-> Acting(c).expected,
                 read |-> read, revision |-> revision, content |-> content, seen |-> seen]
      next == Len(draft[c].changes) + 2
  IN /\ draft' = [draft EXCEPT ![c] = Drafted(c, kept, change)]
     /\ GoesTo(c, IF next > Len(asked[c]) THEN "check" ELSE FirstStep(asked[c][next]))

(* A replace, an add or a removal acts on what it read last.               *)
Revises(c, kept, current) ==
  LET written == IF Acting(c).op = "append" THEN current.content \cup {c}
                 ELSE IF Acting(c).op = "write" THEN {c} ELSE {}
  IN Acted(c, kept, current.revision, current.revision + 1, written, current.landed)

-----------------------------------------------------------------------------
(* The actions of one call, each one statement or one transaction.         *)

(* A call asks for a set, and its drafting begins.                         *)
Ask(c) ==
  /\ pc[c] = "idle"
  /\ \E set \in Sets :
       /\ asked' = [asked EXCEPT ![c] = set]
       /\ pc' = [pc EXCEPT ![c] = FirstStep(set[1])]
  /\ UNCHANGED <<artifacts, entries, sets, lock, draft, stamps, outcome>>

(* _as_read: a replace, an add or a removal of what is not held is refused.*)
FindsHeld(c) ==
  /\ pc[c] = "holds"
  /\ \/ /\ Holds(c, Acting(c).id)
        /\ GoesTo(c, "expected")
        /\ UNCHANGED draft
     \/ /\ ~Holds(c, Acting(c).id)
        /\ Refused(c)

(* Mutated: the revision the client says it read is compared only while    *)
(* the lock is not held.                                                   *)
ComparesExpectedOnce(c) ==
  LET x == Acting(c).id IN
  /\ pc[c] = "expected"
  /\ \/ /\ ~Found(c, x)
        /\ Escaped(c)
     \/ /\ Found(c, x)
        /\ lock # c /\ Acting(c).expected \notin {0, Read(c, x).revision}
        /\ Refused(c)
     \/ /\ Found(c, x)
        /\ lock = c \/ Acting(c).expected \in {0, Read(c, x).revision}
        /\ draft' = [draft EXCEPT ![c].types = Kept(c, x)]
        /\ GoesTo(c, "current")

(* _as_read: the revision it stands at, compared with the one expected.    *)
ComparesExpected(c) ==
  LET x == Acting(c).id IN
  /\ pc[c] = "expected"
  /\ \/ /\ ~Found(c, x)
        /\ Escaped(c)
     \/ /\ Found(c, x)
        /\ Acting(c).expected \notin {0, Read(c, x).revision}
        /\ Refused(c)
     \/ /\ Found(c, x)
        /\ Acting(c).expected \in {0, Read(c, x).revision}
        /\ draft' = [draft EXCEPT ![c].types = Kept(c, x)]
        /\ GoesTo(c, "current")

(* The artifact read again, as what the change acts on.                    *)
ReadsCurrent(c) ==
  LET x == Acting(c).id IN
  /\ pc[c] = "current"
  /\ \/ /\ ~Found(c, x)
        /\ Escaped(c)
     \/ /\ Found(c, x)
        /\ Acting(c).op = "delete" \/ x \in Types
        /\ Revises(c, Kept(c, x), Read(c, x))
     \/ /\ Found(c, x)
        /\ Acting(c).op # "delete" /\ x \notin Types
        /\ draft' = [draft EXCEPT ![c].current = Read(c, x)]
        /\ GoesTo(c, "type_holds")

(* composition.kept: whether the type of what the operation makes is held. *)
FindsTypeHeld(c) ==
  /\ pc[c] = "type_holds"
  /\ \/ /\ Holds(c, TypeOf[Acting(c).id])
        /\ GoesTo(c, "type_read")
        /\ UNCHANGED draft
     \/ /\ ~Holds(c, TypeOf[Acting(c).id])
        /\ Refused(c)

(* composition.kept: the type read, and kept as first read.                *)
ReadsType(c) ==
  LET type == TypeOf[Acting(c).id] IN
  /\ pc[c] = "type_read"
  /\ \/ /\ ~Found(c, type)
        /\ Escaped(c)
     \/ /\ Found(c, type)
        /\ Acting(c).op = "create"
        /\ draft' = [draft EXCEPT ![c].types = Kept(c, type)]
        /\ GoesTo(c, "free")
     \/ /\ Found(c, type)
        /\ Acting(c).op # "create"
        /\ Revises(c, Kept(c, type), draft[c].current)

(* naming.identity: a create stands under its type, where nothing is held. *)
FindsFree(c) ==
  LET x == Acting(c).id
      fits == (x \notin Types => Holds(c, TypeOf[x])) /\ ~Holds(c, x)
  IN /\ pc[c] = "free"
     /\ \/ fits /\ Acted(c, draft[c].types, 0, 1, {c}, 0)
        \/ ~fits /\ Refused(c)

Changes(c) == draft[c].changes

(* drafting.drafted, locked: a define of a type or a removal of one.       *)
Locked(c) == \E i \in DOMAIN Changes(c) :
  Changes(c)[i].op \in {"create", "delete"} /\ Changes(c)[i].id \in Types

(* The IRIs the set leaves an artifact at.                                 *)
Left(c) == draft[c].put \ draft[c].removed

(* Every change checked against its type as the set leaves it, then the    *)
(* moment of each entry read from the clock.  A set that must land under   *)
(* the lock and was drafted without it is drafted again there.             *)
Checks(c) ==
  LET fits == \A x \in Left(c) \ Types : Holds(c, TypeOf[x]) IN
  /\ pc[c] = "check"
  /\ \/ ~fits /\ Refused(c)
     \/ /\ fits
        /\ \E moments \in [DOMAIN Changes(c) -> Moments] :
             draft' = [draft EXCEPT ![c].moments = moments]
        /\ GoesTo(c, IF Locked(c) /\ lock # c THEN "relock" ELSE "mint")

(* The highest seq the history holds at a moment, 0 when none.             *)
LastSeq(moment) ==
  LET seqs == {e.id[2] : e \in {each \in entries : each.id[1] = moment}} \cup {0}
  IN CHOOSE n \in seqs : \A m \in seqs : m <= n

(* Each moment given the next id free at it, counted on within the set.    *)
Minted(moments) == [i \in DOMAIN moments |->
  <<moments[i], LastSeq(moments[i]) + Cardinality({j \in 1..i : moments[j] = moments[i]})>>]

(* Mutated: the ids minted for a first draft are kept for the second.      *)
MintsOnce(c) ==
  /\ pc[c] = "mint"
  /\ stamps' = [stamps EXCEPT ![c] = IF @ = <<>> THEN Minted(draft[c].moments) ELSE @]
  /\ pc' = [pc EXCEPT ![c] = "land"]
  /\ UNCHANGED <<artifacts, entries, sets, lock, asked, draft, outcome>>

Mints(c) ==
  /\ pc[c] = "mint"
  /\ stamps' = [stamps EXCEPT ![c] = Minted(draft[c].moments)]
  /\ pc' = [pc EXCEPT ![c] = "land"]
  /\ UNCHANGED <<artifacts, entries, sets, lock, asked, draft, outcome>>

-----------------------------------------------------------------------------
(* The landing transaction, and its checks in their order.                 *)

(* Mutated: an id is looked for only among those of its own set.           *)
IdTwice(c) == \E i, j \in DOMAIN stamps[c] : i # j /\ stamps[c][i] = stamps[c][j]

(* _unheld: an entry's id already held, or given twice.                    *)
IdHeld(c) ==
  \/ \E e \in entries : \E i \in DOMAIN stamps[c] : e.id = stamps[c][i]
  \/ \E i, j \in DOMAIN stamps[c] : i # j /\ stamps[c][i] = stamps[c][j]

(* The types the set was read through and leaves as they are.              *)
Through(c) == {t \in {TypeOf[x] : x \in Left(c) \ Types} :
  draft[c].types[t] # Nothing /\ t \notin draft[c].put \cup draft[c].removed}

(* _unmoved: a type read through stands at another revision.               *)
TypeMoved(c) == \E t \in Through(c) : artifacts[t].revision # draft[c].types[t].revision

(* The revision a change leaves its artifact at, 0 for a removal.          *)
LeftAt(change) == IF change.op = "delete" THEN 0 ELSE change.revision

(* The set's changes to one IRI before its i-th change.                    *)
Earlier(c, i) == {j \in 1..(i - 1) : Changes(c)[j].id = Changes(c)[i].id}

(* Whether the i-th change finds its artifact at a revision: the one its   *)
(* own set left it at last, or the one the store holds.                    *)
FindsAt(c, i, revision) ==
  IF Earlier(c, i) = {} THEN artifacts[Changes(c)[i].id].revision = revision
  ELSE \A j \in Earlier(c, i) :
         (\A k \in Earlier(c, i) : k <= j) => LeftAt(Changes(c)[j]) = revision

(* Mutated: whether anything stands is compared, not the revision.         *)
MovedAway(c) == \E i \in DOMAIN Changes(c) : FindsAt(c, i, 0) # (Changes(c)[i].read = 0)

(* Mutated: a change is compared unless it read its artifact at 1.         *)
MovedSince(c) == \E i \in DOMAIN Changes(c) :
  Changes(c)[i].read # 1 /\ ~FindsAt(c, i, Changes(c)[i].read)

(* _compared: an artifact of the set stands at another revision.           *)
Moved(c) == \E i \in DOMAIN Changes(c) : ~FindsAt(c, i, Changes(c)[i].read)

(* Mutated: the artifacts a set changes are not compared.                  *)
ConflictsUncompared(c) == IdHeld(c) \/ TypeMoved(c)

(* port.Conflict.                                                          *)
Conflicts(c) == IdHeld(c) \/ TypeMoved(c) \/ Moved(c)


(* _written: what the set leaves at each IRI.                              *)
Written(c) == [x \in Iris |->
  IF x \in draft[c].removed THEN Nothing
  ELSE IF x \in draft[c].put THEN [draft[c].left[x] EXCEPT !.landed = sets + 1]
  ELSE artifacts[x]]

(* Mutated: links from outside the set into what it removed are not sought.*)
UnsoundInside(c) == \E x \in Left(c) \ Types : Written(c)[TypeOf[x]] = Nothing

(* _integral, of the link every artifact carries to its type: one the set  *)
(* hands whose type is not held, or one from outside the set into a type   *)
(* the set removed.                                                        *)
Unsound(c) ==
  \/ \E x \in Left(c) \ Types : Written(c)[TypeOf[x]] = Nothing
  \/ \E x \in Iris \ (Types \cup draft[c].put \cup draft[c].removed) :
       /\ Written(c)[x] # Nothing
       /\ artifacts[TypeOf[x]] # Nothing
       /\ Written(c)[TypeOf[x]] = Nothing

NewEntries(c) == {[id |-> stamps[c][i], set |-> sets + 1, step |-> i, op |-> Changes(c)[i].op,
                   artifact |-> Changes(c)[i].id, revision |-> Changes(c)[i].revision, by |-> c]
                  : i \in DOMAIN Changes(c)}

Commits(c) ==
  /\ artifacts' = Written(c)
  /\ entries' = entries \cup NewEntries(c)
  /\ sets' = sets + 1
  /\ pc' = [pc EXCEPT ![c] = "landed"]
  /\ lock' = Nobody
  /\ draft' = [draft EXCEPT ![c] = Blank]
  /\ stamps' = [stamps EXCEPT ![c] = <<>>]
  /\ UNCHANGED <<asked, outcome>>

(* port.land, first with a lock of its own, then within the one held.  A   *)
(* Conflict under the lock has nowhere to go but out of the call.          *)
Lands(c) ==
  /\ pc[c] = "land"
  /\ lock \in {Nobody, c}
  /\ \/ /\ Conflicts(c) /\ lock # c
        /\ GoesTo(c, "relock")
        /\ UNCHANGED draft
     \/ Conflicts(c) /\ lock = c /\ Escaped(c)
     \/ ~Conflicts(c) /\ Unsound(c) /\ Refused(c)
     \/ ~Conflicts(c) /\ ~Unsound(c) /\ Commits(c)

(* held.exclusive(): the write lock taken, and the set drafted anew.       *)
Relocks(c) ==
  /\ pc[c] = "relock"
  /\ lock = Nobody
  /\ lock' = c
  /\ draft' = [draft EXCEPT ![c] = Blank]
  /\ pc' = [pc EXCEPT ![c] = FirstStep(asked[c][1])]
  /\ UNCHANGED <<artifacts, entries, sets, asked, stamps, outcome>>

(* Mutated: a call whose set has landed may still be answered busy.        *)
GivesUpLate(c) ==
  /\ pc[c] \in {"land", "relock", "landed"}
  /\ lock \notin {Nobody, c}
  /\ Ends(c, "busy")

(* The wait for the lock ran out: port.Busy.                               *)
GivesUp(c) ==
  /\ pc[c] \in {"land", "relock"}
  /\ lock \notin {Nobody, c}
  /\ Ends(c, "busy")

(* A set landed is answered.                                               *)
Answers(c) ==
  /\ pc[c] = "landed"
  /\ Ends(c, "landed")

(* The calling process is killed: SQLite rolls back and lets its lock go.  *)
Crashes(c) ==
  /\ pc[c] \notin {"idle", "done"}
  /\ Ends(c, "lost")

Step(c) ==
  \/ FindsHeld(c) \/ ComparesExpected(c) \/ ReadsCurrent(c)
  \/ FindsTypeHeld(c) \/ ReadsType(c) \/ FindsFree(c)
  \/ Checks(c) \/ Mints(c) \/ Lands(c) \/ Relocks(c) \/ Answers(c)

(* Every call answered: nothing is left to do.                             *)
AllAnswered == (\A c \in Calls : pc[c] = "done") /\ UNCHANGED vars

Next ==
  \/ \E c \in Calls : Ask(c) \/ Step(c) \/ GivesUp(c) \/ Crashes(c)
  \/ AllAnswered

Spec == Init /\ [][Next]_vars

(* Each caller's thread goes on while it can: no step of a call waits on   *)
(* anything but the lock, and nothing is asked, given up or killed of      *)
(* necessity.                                                              *)
FairSpec == Spec /\ \A c \in Calls : WF_vars(Step(c))

-----------------------------------------------------------------------------
(* What makes the write path right.                                        *)

(* No two entries of the history carry one id, though ids are minted       *)
(* outside any transaction from clocks that may agree or run backwards     *)
(* (journal.minted; sqlite_checks._unheld).                                *)
IdsHeldOnce == \A e, f \in entries : e.id = f.id => e = f

(* The history in the order of landing, whatever moments its entries are   *)
(* stamped with; narrowed to an artifact, its entries, and the last one.   *)
Precedes(e, f) == e.set < f.set \/ (e.set = f.set /\ e.step < f.step)
Told(x) == {e \in entries : e.artifact = x}
LastOf(told) == CHOOSE e \in told : \A f \in told : f = e \/ Precedes(f, e)

(* Each entry of an artifact's history takes up where the one before it    *)
(* left off - created at 1 where nothing stood, else one revision on - and *)
(* the store stands where the last one left it: no set landed over a       *)
(* revision it had not read (sqlite_checks._compared).                     *)
HistoryUnbroken ==
  /\ \A e \in entries :
       LET earlier == {f \in Told(e.artifact) : Precedes(f, e)}
           stood == IF earlier = {} THEN 0 ELSE LeftAt(LastOf(earlier))
       IN e.revision = stood + 1 /\ (e.op = "create" <=> stood = 0)
  /\ \A x \in Iris : artifacts[x].revision =
       IF Told(x) = {} THEN 0 ELSE LeftAt(LastOf(Told(x)))

(* What stands is what the history replayed leaves: of the entries since   *)
(* an artifact was last written whole, every add is in it, and nothing     *)
(* from before is.                                                         *)
NothingLost == \A x \in Iris :
  LET whole == LastOf({e \in Told(x) : e.op \in {"create", "write"}})
      since == {e \in Told(x) : ~Precedes(e, whole)}
  IN artifacts[x].content = IF artifacts[x] = Nothing THEN {} ELSE {e.by : e \in since}

(* A set lands whole or not at all, once however often it was drafted, and *)
(* a call is told it landed only when it did (sqlite_store.land, _saved).  *)
AnsweredAsLanded == \A c \in Calls :
  LET made == {e \in entries : e.by = c}
      whole == /\ Cardinality(made) = Len(asked[c])
               /\ \A e \in made : e.artifact = asked[c][e.step].id /\ e.op = asked[c][e.step].op
               /\ \A e, f \in made : e.set = f.set
  IN /\ pc[c] = "landed" \/ outcome[c] = "landed" => whole
     /\ outcome[c] = "lost" => made = {} \/ whole
     /\ pc[c] # "landed" /\ outcome[c] \notin {"landed", "lost"} => made = {}

(* No artifact is ever held whose type is not, whatever is removed while a *)
(* create through the type is on its way (write.land, sqlite_checks._integral).*)
TypesHeld == \A x \in Iris \ Types :
  artifacts[x] # Nothing => artifacts[TypeOf[x]] # Nothing

Landing(c) == pc[c] = "land" /\ pc'[c] = "landed"

(* A set lands over the very artifacts it was drafted over, and the types  *)
(* it was checked against, not over others that stand at the same revision *)
(* (port.land: "moved since it was read", sqlite_checks._unmoved).         *)
LandsOnWhatItRead == [][\A c \in Calls : Landing(c) =>
  /\ \A i \in DOMAIN Changes(c) : Earlier(c, i) = {} =>
       Changes(c)[i].seen = artifacts[Changes(c)[i].id].landed
  /\ \A t \in Through(c) : draft[c].types[t].landed = artifacts[t].landed]_vars

(* A change that says the revision it read lands over that revision.       *)
ExpectedKept == [][\A c \in Calls : Landing(c) =>
  \A i \in DOMAIN Changes(c) : Changes(c)[i].expected = 0 \/ FindsAt(c, i, Changes(c)[i].expected)]_vars

(* As ExpectedKept, of a set drafted again under the write lock.           *)
ExpectedKeptUnderLock == [][\A c \in Calls : Landing(c) /\ lock = c =>
  \A i \in DOMAIN Changes(c) : Changes(c)[i].expected = 0 \/ FindsAt(c, i, Changes(c)[i].expected)]_vars

(* Under the write lock nothing moves between two reads, nor between the   *)
(* draft and the landing: no read finds its artifact gone, no landing      *)
(* conflicts, so a set is drafted at most twice (write.land).              *)
NothingEscapesTheLock == [][\A c \in Calls : lock = c => outcome'[c] # "escaped"]_vars

(* No change fails with anything but a refusal of kb's own.                *)
NothingEscapes == \A c \in Calls : outcome[c] # "escaped"

(* Every call asked is answered.                                           *)
EveryCallAnswered == \A c \in Calls : pc[c] # "idle" ~> pc[c] = "done"

=============================================================================
