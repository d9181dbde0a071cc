--------------------------- MODULE StagingProofs ---------------------------
(***************************************************************************)
(* Proofs about Staging, for any runs of any kinds: with one start under   *)
(* way at a time the root holds no store or the whole of one, one that was *)
(* answered stays, one refused leaves nothing, and each works on its own.  *)
(***************************************************************************)
EXTENDS Staging, TLAPS

(* Where a run of each kind can be.                                        *)
Kinds ==
  /\ \A r \in Hosts : at[r] \notin Starting \cup {"clearing", "taking"}
  /\ \A r \in Inits : at[r] \notin Opening \cup {"emptying", "staging", "looking", "seeding", "placing",
                                                "clearing", "taking"}
  /\ \A r \in Starters : at[r] = "seeding" => r \in Seeds

(* One start is under way at a time.                                       *)
OneStart == \A r, other \in Starters : UnderWay(r) /\ UnderWay(other) => r = other

(* How far a run has come with what it makes, where it makes it.           *)
Course(r) ==
  /\ at[r] \in {"database", "filling", "marking", "seeding", "placing"} => kb[Place(r)].by = r
  /\ at[r] \in {"marking", "seeding", "placing"} => kb[Place(r)].db = "filled"
  /\ at[r] \in {"seeding", "placing"} => kb[Place(r)].marked
  /\ at[r] = "placing" /\ r \in Seeds => kb[Place(r)].seeded

IInv ==
  /\ TypeOK
  /\ Kinds
  /\ Alone => OneStart /\ (\A r \in Starters : Course(r)) /\ RootWhole
LEMMA Start == Init => IInv
<1> SUFFICES ASSUME Init PROVE IInv
  OBVIOUS
<1>1. TypeOK
  BY DEF Init, TypeOK, Nothing, Made, Dirs
<1>2. /\ \A r \in Runs : at[r] = "idle"
      /\ Starters \subseteq Runs /\ Inits \subseteq Runs /\ Hosts \subseteq Runs
  BY DEF Init, Runs, Starters, Staged
<1>3. Kinds
  BY <1>2 DEF Kinds, Starting, Opening
<1>4. OneStart /\ \A r \in Starters : Course(r)
  BY <1>2 DEF OneStart, UnderWay, Course, Busy, Starting, Opening
<1>5. RootWhole
  BY NobodyAssumption, <1>2 DEF RootWhole, Init, Nothing, Made, Starters
<1> QED
  BY <1>1, <1>3, <1>4, <1>5 DEF IInv

(* A directory changed in one of its fields is one still.                  *)
LEMMA FieldTyped ==
  ASSUME NEW dir \in Dirs
  PROVE  /\ \A db \in {"made", "filled"} : [dir EXCEPT !.db = db] \in Dirs
         /\ \A r \in Runs \cup {Nobody} : [dir EXCEPT !.owner = r] \in Dirs
         /\ [dir EXCEPT !.marked = TRUE] \in Dirs /\ [dir EXCEPT !.seeded = TRUE] \in Dirs
         /\ [dir EXCEPT !.named = TRUE] \in Dirs /\ [dir EXCEPT !.changed = TRUE] \in Dirs
BY DEF Dirs

(* What every step of a run does to the state is typed.                    *)
LEMMA StartTyped ==
  ASSUME TypeOK, NEW r \in Runs, StartStep(r), UNCHANGED together
  PROVE  TypeOK'
<1> USE DEF TypeOK, Steps, Says, Fails, Goes, Busy, Starting, Opening, Place
<1>1. Nothing \in Dirs /\ Made(r) \in Dirs
  BY DEF Nothing, Made, Dirs
<1>0. Place(r) \in {"root", "stage"} /\ kb[Place(r)] \in Dirs /\ kb["stage"] \in Dirs
  OBVIOUS
<1>2. CASE Empties(r) \/ MakesStage(r) \/ CannotStage(r) \/ LooksInside(r)
  <2>1. CASE Empties(r)
    BY <1>1, <2>1 DEF Empties
  <2>2. CASE MakesStage(r)
    BY <2>2 DEF MakesStage
  <2>3. CASE CannotStage(r)
    BY <2>3 DEF CannotStage
  <2>4. CASE LooksInside(r)
    BY <2>4 DEF LooksInside
  <2> QED
    BY <1>2, <2>1, <2>2, <2>3, <2>4
<1>3. CASE MakesDir(r) \/ CannotMakeDir(r) \/ Breaks(r)
  BY <1>1, <1>3 DEF MakesDir, CannotMakeDir, Breaks
<1>4. CASE MakesDatabase(r) \/ Fills(r) \/ Conflicts(r)
  <2>1. [kb[Place(r)] EXCEPT !.db = "made"] \in Dirs /\ [kb[Place(r)] EXCEPT !.db = "filled"] \in Dirs
    BY <1>0, FieldTyped
  <2>2. kb' \in [{"root", "stage"} -> Dirs]
    BY <1>0, <2>1, <1>4, Zenon DEF MakesDatabase, Fills, Conflicts
  <2> QED
    BY <1>4, <2>2, Zenon DEF MakesDatabase, Fills, Conflicts
<1>5. CASE Marks(r)
  BY <1>5, FieldTyped DEF Marks
<1>6. CASE Sows(r) \/ Unsown(r)
  <2>1. [kb["stage"] EXCEPT !.seeded = TRUE] \in Dirs
    BY <1>0, FieldTyped
  <2>2. kb' \in [{"root", "stage"} -> Dirs]
    BY <2>1, <1>6, Zenon DEF Sows, Unsown
  <2>3. (Steps(r, "seeding", "placing") \/ Fails(r, "seeding")) /\ UNCHANGED stage
    BY <1>6, Zenon DEF Sows, Unsown
  <2> QED
    BY <2>2, <2>3
<1>7. CASE Places(r) \/ CannotPlace(r) \/ Clears(r)
  <2>1. CASE Places(r)
    <3>1. kb' = [kb EXCEPT !["root"] = kb["stage"], !["stage"] = Nothing]
      BY <2>1, Zenon DEF Places, Put
    <3>2. kb' \in [{"root", "stage"} -> Dirs]
      BY <1>0, <1>1, <3>1
    <3> QED
      BY <2>1, <3>2 DEF Places, Put
  <2>2. CASE CannotPlace(r)
    BY <2>2 DEF CannotPlace
  <2>3. CASE Clears(r)
    <3>1. kb' \in [{"root", "stage"} -> Dirs] /\ stage' = FALSE
      BY <1>1, <2>3 DEF Clears
    <3>2. Steps(r, "clearing", "checking") \/ Steps(r, "clearing", "ended")
      BY <2>3, Zenon DEF Clears, Cleared
    <3> QED
      BY <3>1, <3>2
  <2> QED
    BY <1>7, <2>1, <2>2, <2>3
<1> QED
  BY <1>2, <1>3, <1>4, <1>5, <1>6, <1>7 DEF StartStep

LEMMA FreedTyped ==
  ASSUME TypeOK, NEW r \in Runs
  PROVE  Freed(r) \in [{"root", "stage"} -> Dirs] /\ (NamedBy(r) => kb' \in [{"root", "stage"} -> Dirs])
<1>1. \A p \in {"root", "stage"} : kb[p] \in Dirs
  BY DEF TypeOK
<1>2. \A p \in {"root", "stage"} : [kb[p] EXCEPT !.owner = Nobody] \in Dirs /\ [kb[p] EXCEPT !.named = TRUE] \in Dirs
  BY <1>1, FieldTyped
<1> QED
  BY <1>1, <1>2, Zenon DEF Freed, NamedBy

LEMMA ServeTyped ==
  ASSUME TypeOK, NEW r \in Runs, ServeStep(r), UNCHANGED together
  PROVE  TypeOK'
<1> USE DEF TypeOK, Steps, Says, GivesBack, Goes, Busy, Starting, Opening
<1>1. CASE Checks(r) \/ CannotServe(r) \/ FindsServed(r) \/ FindsUnnamed(r)
  BY <1>1 DEF Checks, CannotServe, FindsServed, FindsUnnamed
<1>2. CASE Owns(r)
  <2>1. [kb["root"] EXCEPT !.owner = r] \in Dirs
    BY FieldTyped
  <2>2. kb' \in [{"root", "stage"} -> Dirs]
    BY <2>1, <1>2, Zenon DEF Owns
  <2>3. Steps(r, "owning", "binding") /\ UNCHANGED stage
    BY <1>2, Zenon DEF Owns
  <2> QED
    BY <2>2, <2>3
<1>3. CASE Binds(r) \/ CannotBind(r) \/ Stops(r)
  BY <1>3, FreedTyped DEF Binds, CannotBind, Stops
<1>4. CASE Takes(r) \/ CannotTake(r)
  <2>1. Nothing \in Dirs /\ kb["root"] \in Dirs
    BY DEF Nothing, Made, Dirs
  <2> QED
    BY <1>4, <2>1 DEF Takes, CannotTake
<1> QED
  BY <1>1, <1>2, <1>3, <1>4 DEF ServeStep

(* Which starts are made at once no step changes: all but a change asked of *)
(* the store go somewhere.                                                 *)
LEMMA TogetherKept == [Next]_vars => UNCHANGED together
<1> SUFFICES ASSUME [Next]_vars PROVE UNCHANGED together
  OBVIOUS
<1> USE DEF Steps, Says, Fails, GivesBack, Goes
<1>1. CASE UNCHANGED vars \/ Changes
  BY <1>1 DEF vars, Changes
<1>2. ASSUME NEW r \in Runs, Looks(r) \/ Interrupted(r) \/ Killed(r)
      PROVE  UNCHANGED together
  BY <1>2, Zenon DEF Looks, Interrupted, Killed
<1>3. ASSUME NEW r \in Runs, StartStep(r)
      PROVE  UNCHANGED together
  <2>1. CASE Empties(r) \/ MakesStage(r) \/ CannotStage(r) \/ LooksInside(r)
    BY <2>1, Zenon DEF Empties, MakesStage, CannotStage, LooksInside
  <2>2. CASE MakesDir(r) \/ CannotMakeDir(r) \/ MakesDatabase(r) \/ Fills(r) \/ Conflicts(r) \/ Breaks(r)
    BY <2>2, Zenon DEF MakesDir, CannotMakeDir, MakesDatabase, Fills, Conflicts, Breaks
  <2>3. CASE Marks(r) \/ Sows(r) \/ Unsown(r)
    BY <2>3 DEF Marks, Sows, Unsown
  <2>4. CASE Places(r) \/ CannotPlace(r) \/ Clears(r)
    BY <2>4 DEF Places, Put, CannotPlace, Clears, Cleared
  <2> QED
    BY <1>3, <2>1, <2>2, <2>3, <2>4 DEF StartStep
<1>4. ASSUME NEW r \in Runs, ServeStep(r)
      PROVE  UNCHANGED together
  <2>1. CASE Checks(r) \/ CannotServe(r) \/ Owns(r) \/ FindsServed(r) \/ FindsUnnamed(r)
    BY <2>1, Zenon DEF Checks, CannotServe, Owns, FindsServed, FindsUnnamed
  <2>2. CASE Binds(r) \/ CannotBind(r) \/ Stops(r) \/ Takes(r) \/ CannotTake(r)
    BY <2>2, Zenon DEF Binds, CannotBind, Stops, Takes, CannotTake
  <2> QED
    BY <1>4, <2>1, <2>2 DEF ServeStep
<1> QED
  BY <1>1, <1>2, <1>3, <1>4 DEF Next

LEMMA Typed == TypeOK /\ [Next]_vars => TypeOK'
<1> SUFFICES ASSUME TypeOK, [Next]_vars PROVE TypeOK'
  OBVIOUS
<1>1. CASE UNCHANGED vars
  BY <1>1 DEF TypeOK, vars
<1>2. CASE Changes
  BY <1>2, FieldTyped DEF Changes, TypeOK
<1>3. ASSUME NEW r \in Runs, Looks(r), UNCHANGED together
      PROVE  TypeOK'
  BY <1>3 DEF Looks, TypeOK, Steps, Says, Goes, Busy, Starting, Opening
<1>4. ASSUME NEW r \in Runs, Interrupted(r) \/ Killed(r), UNCHANGED together
      PROVE  TypeOK'
  BY <1>4, FreedTyped DEF Interrupted, Killed, TypeOK, Steps, Says, GivesBack, Goes, Busy, Starting, Opening
<1> QED
  BY <1>1, <1>2, <1>3, <1>4, StartTyped, ServeTyped, TogetherKept DEF Next

(* Every state of every run, place and staging place is typed.             *)
THEOREM TypeCorrect == Spec => []TypeOK
<1>1. Init => TypeOK
  BY Start DEF IInv
<1> QED
  BY <1>1, Typed, PTL DEF Spec

-----------------------------------------------------------------------------
(* Runs of one kind keep to the steps of that kind.                        *)
LEMMA KindsKept == TypeOK /\ Kinds /\ [Next]_vars => Kinds'
<1> SUFFICES ASSUME TypeOK, Kinds, [Next]_vars PROVE Kinds'
  OBVIOUS
<1> USE DEF Kinds, Starting, Opening
<1>0. /\ Hosts \cap mine = {} /\ Inits \cap mine = {} /\ at \in [Runs -> Busy \cup {"idle", "serving", "ended", "killed"}]
      /\ Starters \subseteq Runs /\ Inits \subseteq Starters /\ Hosts \subseteq Runs /\ Starters \cap Hosts = {}
  BY KindsAssumption DEF TypeOK, Runs, Starters, Staged
<1>1. CASE UNCHANGED at
  BY <1>1
<1>2. ASSUME NEW r \in Runs, Looks(r)
      PROVE  Kinds'
  BY <1>0, <1>2, KindsAssumption DEF Looks, Steps, Says, Goes, Starters, Staged
<1>3. ASSUME NEW r \in Runs, StartStep(r)
      PROVE  Kinds'
  <2> USE <1>0 DEF Steps, Says, Fails, Goes
  <2>1. CASE Empties(r) \/ MakesStage(r) \/ CannotStage(r) \/ LooksInside(r)
    BY <2>1 DEF Empties, MakesStage, CannotStage, LooksInside
  <2>2. CASE MakesDir(r) \/ CannotMakeDir(r) \/ MakesDatabase(r) \/ Fills(r) \/ Conflicts(r) \/ Breaks(r)
    BY <2>2 DEF MakesDir, CannotMakeDir, MakesDatabase, Fills, Conflicts, Breaks
  <2>3. CASE Marks(r) \/ Sows(r) \/ Unsown(r)
    BY <2>3 DEF Marks, Sows, Unsown
  <2>4. CASE Places(r) \/ CannotPlace(r) \/ Clears(r)
    BY <2>4 DEF Places, Put, CannotPlace, Clears, Cleared
  <2> QED
    BY <1>3, <2>1, <2>2, <2>3, <2>4 DEF StartStep
<1>4. ASSUME NEW r \in Runs, ServeStep(r) \/ Interrupted(r) \/ Killed(r)
      PROVE  Kinds'
  <2> USE <1>0 DEF Steps, Says, GivesBack, Goes
  <2>1. CASE Checks(r) \/ CannotServe(r) \/ Owns(r) \/ FindsServed(r) \/ FindsUnnamed(r)
    BY <2>1 DEF Checks, CannotServe, Owns, FindsServed, FindsUnnamed
  <2>2. CASE Binds(r) \/ CannotBind(r) \/ Stops(r) \/ Takes(r) \/ CannotTake(r)
    BY <2>2 DEF Binds, CannotBind, Stops, Takes, CannotTake
  <2>3. CASE Interrupted(r) \/ Killed(r)
    BY <2>3 DEF Interrupted, Killed, Busy
  <2> QED
    BY <1>4, <2>1, <2>2, <2>3 DEF ServeStep
<1> QED
  BY <1>1, <1>2, <1>3, <1>4 DEF Next, Changes, vars
-----------------------------------------------------------------------------
(* With one start under way at a time.                                     *)

(* Whoever takes a step of a start is the one start under way.             *)
LEMMA OnlyOne ==
  ASSUME IInv, Alone, NEW r \in Runs, at[r] \in Starting \cup {"clearing", "taking"}
  PROVE  r \in Starters /\ \A other \in Starters \ {r} : at[other] \notin Busy
BY DEF IInv, Kinds, OneStart, UnderWay, Runs, Busy, Starting

LEMMA OneStartKept == IInv /\ Alone /\ [Next]_vars => OneStart'
<1> SUFFICES ASSUME IInv, Alone, [Next]_vars PROVE OneStart'
  OBVIOUS
<1>0. at \in [Runs -> Busy \cup {"idle", "serving", "ended", "killed"}] /\ Starters \subseteq Runs
  BY DEF IInv, TypeOK, Runs
<1>1. CASE UNCHANGED at
  BY <1>1 DEF IInv, OneStart, UnderWay
<1>2. ASSUME NEW r \in Runs, Looks(r)
      PROVE  OneStart'
  <2>1. r \notin Starters \/ \A other \in Starters \ {r} : ~UnderWay(other)
    BY <1>0, <1>2 DEF Looks, Waits, Alone
  <2>2. \A other \in Runs \ {r} : at'[other] = at[other]
    BY <1>0, <1>2 DEF Looks, Steps, Says, Goes
  <2> QED
    BY <1>0, <2>1, <2>2 DEF IInv, OneStart, UnderWay
<1>3. ASSUME NEW r \in Runs, \E from \in Busy \cup {"serving"}, to \in Busy \cup {"serving", "ended", "killed"} :
               Goes(r, from, to) /\ (from = "serving" => to \notin Busy)
      PROVE  OneStart'
  <2>1. \A other \in Runs : UnderWay(other)' => UnderWay(other)
    BY <1>0, <1>3 DEF Goes, UnderWay, Busy, Starting, Opening
  <2> QED
    BY <1>0, <2>1 DEF IInv, OneStart
<1>4. ASSUME NEW r \in Runs, StartStep(r) \/ ServeStep(r) \/ Interrupted(r) \/ Killed(r)
      PROVE  \E from \in Busy \cup {"serving"}, to \in Busy \cup {"serving", "ended", "killed"} :
               Goes(r, from, to) /\ (from = "serving" => to \notin Busy)
  <2> USE DEF Steps, Says, Fails, GivesBack, Busy, Starting, Opening
  <2>1. CASE Empties(r) \/ MakesStage(r) \/ CannotStage(r) \/ LooksInside(r)
    BY <2>1 DEF Empties, MakesStage, CannotStage, LooksInside
  <2>2. CASE MakesDir(r) \/ CannotMakeDir(r) \/ MakesDatabase(r) \/ Fills(r) \/ Conflicts(r) \/ Breaks(r)
    BY <2>2 DEF MakesDir, CannotMakeDir, MakesDatabase, Fills, Conflicts, Breaks
  <2>3. CASE Marks(r) \/ Sows(r) \/ Unsown(r)
    BY <2>3 DEF Marks, Sows, Unsown
  <2>4. CASE Places(r) \/ CannotPlace(r) \/ Clears(r)
    BY <2>4 DEF Places, Put, CannotPlace, Clears, Cleared
  <2>5. CASE Checks(r) \/ CannotServe(r) \/ Owns(r) \/ FindsServed(r) \/ FindsUnnamed(r)
    BY <2>5 DEF Checks, CannotServe, Owns, FindsServed, FindsUnnamed
  <2>6. CASE Binds(r) \/ CannotBind(r) \/ Stops(r) \/ Takes(r) \/ CannotTake(r)
    BY <2>6 DEF Binds, CannotBind, Stops, Takes, CannotTake
  <2>7. CASE Interrupted(r) \/ Killed(r)
    BY <2>7 DEF Interrupted, Killed
  <2> QED
    BY <1>4, <2>1, <2>2, <2>3, <2>4, <2>5, <2>6, <2>7 DEF StartStep, ServeStep
<1> QED
  BY <1>1, <1>2, <1>3, <1>4 DEF Next, Changes, vars
(* A directory changed in one field keeps the others.                      *)
LEMMA Refilled ==
  ASSUME NEW dir \in Dirs, NEW db, NEW new, new = [dir EXCEPT !.db = db]
  PROVE  new.db = db /\ new.by = dir.by /\ new.marked = dir.marked /\ new.seeded = dir.seeded
BY DEF Dirs

LEMMA Remarked ==
  ASSUME NEW dir \in Dirs, NEW new, new = [dir EXCEPT !.marked = TRUE]
  PROVE  new.marked /\ new.by = dir.by /\ new.db = dir.db /\ new.seeded = dir.seeded
BY DEF Dirs

LEMMA Resown ==
  ASSUME NEW dir \in Dirs, NEW new, new = [dir EXCEPT !.seeded = TRUE]
  PROVE  new.seeded /\ new.by = dir.by /\ new.db = dir.db /\ new.marked = dir.marked
BY DEF Dirs

SameMaking(old, new) ==
  new.by = old.by /\ new.db = old.db /\ new.marked = old.marked /\ new.seeded = old.seeded

LEMMA ServingFields ==
  ASSUME NEW dir \in Dirs, NEW r \in Runs \cup {Nobody}
  PROVE  /\ SameMaking(dir, [dir EXCEPT !.owner = r])
         /\ SameMaking(dir, [dir EXCEPT !.named = TRUE])
         /\ SameMaking(dir, [dir EXCEPT !.changed = TRUE])
BY DEF Dirs, SameMaking

Kept == \A p \in {"root", "stage"} : SameMaking(kb[p], kb'[p])

(* Serving a store and changing it leaves what was made as it was made.    *)
LEMMA ServingKeeps ==
  ASSUME TypeOK, NEW r \in Runs \cup {Nobody},
         UNCHANGED kb \/ kb' = [kb EXCEPT !["root"].owner = r] \/ kb' = Freed(r) \/ NamedBy(r)
           \/ kb' = [kb EXCEPT !["root"].changed = TRUE]
  PROVE  Kept
<1>1. kb["root"] \in Dirs /\ kb["stage"] \in Dirs /\ kb \in [{"root", "stage"} -> Dirs]
  BY DEF TypeOK
<1>2. \A p \in {"root", "stage"} :
        /\ SameMaking(kb[p], [kb[p] EXCEPT !.owner = r]) /\ SameMaking(kb[p], [kb[p] EXCEPT !.owner = Nobody])
        /\ SameMaking(kb[p], [kb[p] EXCEPT !.named = TRUE]) /\ SameMaking(kb[p], [kb[p] EXCEPT !.changed = TRUE])
        /\ SameMaking(kb[p], kb[p])
  BY <1>1, ServingFields DEF SameMaking
<1>3. CASE UNCHANGED kb
  BY <1>2, <1>3 DEF Kept
<1>4. CASE kb' = Freed(r) \/ NamedBy(r)
  BY <1>1, <1>2, <1>4, Zenon DEF Kept, Freed, NamedBy
<1>5. CASE kb' = [kb EXCEPT !["root"].owner = r]
  BY <1>1, <1>2, <1>5, Zenon DEF Kept
<1>6. CASE kb' = [kb EXCEPT !["root"].changed = TRUE]
  BY <1>1, <1>2, <1>6, Zenon DEF Kept
<1> QED
  BY <1>3, <1>4, <1>5, <1>6

Making == {"database", "filling", "marking", "seeding", "placing"}

(* A step that keeps what was made, by a run that makes nothing after it.  *)
LEMMA QuietStep ==
  ASSUME IInv, Alone, Kept, \A o \in Starters : at'[o] = at[o] \/ at'[o] \notin Making
  PROVE  (\A o \in Starters : Course(o)') /\ RootWhole'
<1>1. \A o \in Starters : Course(o)'
  BY DEF IInv, Kept, SameMaking, Making, Course, Place
<1>2. RootWhole'
  BY DEF IInv, Kept, SameMaking, RootWhole, Whole
<1> QED
  BY <1>1, <1>2

LEMMA NothingWhole == Nothing.by \notin Staged /\ ~Nothing.marked
BY NobodyAssumption DEF Nothing, Made, Runs, Starters
-----------------------------------------------------------------------------
(* The one start under way, as it makes a store and puts it in place.      *)

LEMMA MakingStep ==
  ASSUME IInv, Alone, NEW r \in Runs, StartStep(r) \/ Takes(r) \/ CannotTake(r)
  PROVE  (\A o \in Starters : Course(o)') /\ RootWhole'
<1>0. /\ at \in [Runs -> Busy \cup {"idle", "serving", "ended", "killed"}]
      /\ kb \in [{"root", "stage"} -> Dirs] /\ kb["root"] \in Dirs /\ kb["stage"] \in Dirs
      /\ Starters \subseteq Runs /\ Place(r) \in {"root", "stage"} /\ kb[Place(r)] \in Dirs
  BY DEF IInv, TypeOK, Runs, Place
<1>1. PICK from \in Starting \cup {"clearing", "taking"}, to \in Busy \cup {"ended"} : Goes(r, from, to)
  <2> USE DEF Steps, Says, Fails, Busy, Starting, Opening
  <2>1. CASE Empties(r) \/ MakesStage(r) \/ CannotStage(r) \/ LooksInside(r)
    BY <2>1 DEF Empties, MakesStage, CannotStage, LooksInside
  <2>2. CASE MakesDir(r) \/ CannotMakeDir(r) \/ MakesDatabase(r) \/ Fills(r) \/ Conflicts(r) \/ Breaks(r)
    BY <2>2 DEF MakesDir, CannotMakeDir, MakesDatabase, Fills, Conflicts, Breaks
  <2>3. CASE Marks(r) \/ Sows(r) \/ Unsown(r)
    BY <2>3 DEF Marks, Sows, Unsown
  <2>4. CASE Places(r) \/ CannotPlace(r) \/ Clears(r) \/ Takes(r) \/ CannotTake(r)
    BY <2>4 DEF Places, Put, CannotPlace, Clears, Cleared, Takes, CannotTake
  <2> QED
    BY <2>1, <2>2, <2>3, <2>4 DEF StartStep
<1>2. r \in Starters /\ \A o \in Starters \ {r} : at'[o] = at[o] /\ at'[o] \notin Making
  BY <1>0, <1>1, OnlyOne DEF Goes, Making, Busy, Starting
<1>3. ASSUME Course(r)' PROVE \A o \in Starters : Course(o)'
  BY <1>2, <1>3 DEF Course, Making
<1>4. Course(r) /\ RootWhole
  BY <1>2 DEF IInv
<1>5. r \in Inits => Place(r) = "root" /\ r \notin Staged
  BY KindsAssumption DEF Place
<1>6. r \notin Inits => Place(r) = "stage" /\ r \in Staged
  BY <1>2 DEF Place, Starters
<1>7. CASE Empties(r) \/ Clears(r)
  <2>1. at'[r] \notin Making /\ kb'["root"] = kb["root"]
    BY <1>0, <1>7, Zenon DEF Empties, Clears, Cleared, Steps, Goes, Making
  <2> QED
    BY <1>3, <1>4, <2>1 DEF Course, RootWhole, Making
<1>8. CASE MakesDir(r)
  <2>1. at'[r] = "database" /\ kb'[Place(r)] = Made(r) /\ (r \notin Inits => kb'["root"] = kb["root"])
    BY <1>0, <1>6, <1>8, Zenon DEF MakesDir, Steps, Goes
  <2>2. Made(r).by = r /\ ~Made(r).marked
    BY DEF Made
  <2> QED
    BY <1>3, <1>4, <1>5, <1>6, <2>1, <2>2 DEF Course, RootWhole, Place
<1>9. ASSUME NEW db, kb' = [kb EXCEPT ![Place(r)].db = db]
      PROVE  /\ kb'[Place(r)].db = db /\ kb'[Place(r)].by = kb[Place(r)].by
             /\ kb'[Place(r)].marked = kb[Place(r)].marked /\ kb'[Place(r)].seeded = kb[Place(r)].seeded
             /\ r \notin Inits => kb'["root"] = kb["root"]
  <2>1. kb'[Place(r)] = [kb[Place(r)] EXCEPT !.db = db] /\ (r \notin Inits => kb'["root"] = kb["root"])
    BY <1>0, <1>6, <1>9, Zenon
  <2> QED
    <3>1. ASSUME NEW dir \in Dirs, NEW new, new = [dir EXCEPT !.db = db]
          PROVE  new.db = db /\ new.by = dir.by /\ new.marked = dir.marked /\ new.seeded = dir.seeded
      BY <3>1, Refilled, Zenon
    <3> QED
      BY <1>0, <2>1, <3>1, Zenon
<1>10. CASE MakesDatabase(r)
  <2>1. kb' = [kb EXCEPT ![Place(r)].db = "made"] /\ at[r] = "database" /\ at'[r] = "filling" /\ kb[Place(r)].db = "none"
    BY <1>0, <1>10, Zenon DEF MakesDatabase, Steps, Goes
  <2>2. /\ kb'[Place(r)].by = kb[Place(r)].by /\ kb'[Place(r)].marked = kb[Place(r)].marked
        /\ (r \notin Inits => kb'["root"] = kb["root"])
    BY <1>9, <2>1
  <2>3. /\ at[r] = "database" /\ at'[r] = "filling" /\ kb[Place(r)].db = "none"
    BY <2>1
  <2> QED
    BY <1>3, <1>4, <1>5, <2>2, <2>3 DEF Course, RootWhole, Whole, Place
<1>11. CASE Fills(r)
  <2>1. /\ kb' = [kb EXCEPT ![Place(r)].db = "filled"] /\ at[r] = "filling" /\ at'[r] = "marking"
        /\ (r \in Inits => kb[Place(r)].db = "made" \/ r \in Restores)
    BY <1>0, <1>11, Zenon DEF Fills, Steps, Goes
  <2>2. /\ kb'[Place(r)].by = kb[Place(r)].by /\ kb'[Place(r)].marked = kb[Place(r)].marked
        /\ kb'[Place(r)].db = "filled" /\ (r \notin Inits => kb'["root"] = kb["root"])
    BY <1>9, <2>1
  <2>3. at[r] = "filling" /\ at'[r] = "marking" /\ (r \in Inits => kb[Place(r)].db = "made")
    BY <2>1, <1>5 DEF Staged
  <2> QED
    BY <1>3, <1>4, <1>5, <2>2, <2>3 DEF Course, RootWhole, Whole, Place
<1>12. CASE Marks(r)
  <2>1. /\ kb'[Place(r)] = [kb[Place(r)] EXCEPT !.marked = TRUE] /\ (r \notin Inits => kb'["root"] = kb["root"])
        /\ at[r] = "marking"
    BY <1>0, <1>6, <1>12, Zenon DEF Marks, Says, Steps, Goes
  <2>2. /\ at'[r] \in {"seeding", "placing", "ended"} /\ (at'[r] = "placing" => r \notin Seeds)
    BY <1>0, <1>12 DEF Marks, Says, Steps, Goes
  <2>3. /\ kb'[Place(r)].by = kb[Place(r)].by /\ kb'[Place(r)].marked /\ kb'[Place(r)].db = kb[Place(r)].db
    BY <1>0, <2>1, Remarked, Zenon
  <2>4. (r \notin Inits => kb'["root"] = kb["root"]) /\ at[r] = "marking"
    BY <2>1
  <2> QED
    BY <1>3, <1>4, <1>5, <2>2, <2>3, <2>4 DEF Course, RootWhole, Whole, Place, Staged
<1>13. CASE Sows(r)
  <2>1. /\ kb'["stage"] = [kb["stage"] EXCEPT !.seeded = TRUE] /\ kb'["root"] = kb["root"]
        /\ kb["stage"].marked /\ kb["stage"].db = "filled" /\ at[r] = "seeding" /\ at'[r] = "placing"
    BY <1>0, <1>13, Zenon DEF Sows, Steps, Goes
  <2>2. /\ kb'["stage"].by = kb["stage"].by /\ kb'["stage"].marked /\ kb'["stage"].db = "filled" /\ kb'["stage"].seeded
    BY <1>0, <2>1, Resown, Zenon
  <2>3. kb'["root"] = kb["root"] /\ at[r] = "seeding" /\ at'[r] = "placing" /\ r \notin Inits
    BY <1>2, <2>1 DEF IInv, Kinds
  <2> QED
    BY <1>3, <1>4, <1>6, <2>2, <2>3 DEF Course, RootWhole
<1>14. CASE Breaks(r)
  <2>1. at'[r] \notin Making /\ kb'[Place(r)] = Nothing /\ (r \notin Inits => kb'["root"] = kb["root"])
    BY <1>0, <1>6, <1>14 DEF Breaks, Fails, Says, Goes, Making
  <2> QED
    BY <1>3, <1>4, <1>5, <2>1, NothingWhole DEF Course, RootWhole, Making
<1>15. CASE Places(r)
  <2>1. at'[r] \notin Making /\ kb'["root"] = kb["stage"] /\ at[r] = "placing" /\ r \notin Inits
    <3>1. kb'["root"] = kb["stage"]
      BY <1>0, <1>15, Zenon DEF Places, Put
    <3>2. at[r] = "placing" /\ at'[r] = "clearing"
      BY <1>0, <1>15, Zenon DEF Places, Put, Says, Goes
    <3> QED
      BY <1>2, <3>1, <3>2 DEF Making, IInv, Kinds
  <2> QED
    BY <1>3, <1>4, <1>6, <2>1 DEF Course, RootWhole, Whole, Making
<1>16. CASE Takes(r)
  <2>1. kb'["root"] = Nothing /\ at'[r] = "clearing"
    BY <1>0, <1>16, Zenon DEF Takes, Steps, Goes
  <2> QED
    BY <1>3, <2>1, NothingWhole DEF Course, RootWhole
<1>17. CASE MakesStage(r) \/ CannotStage(r) \/ LooksInside(r) \/ CannotMakeDir(r) \/ Conflicts(r)
              \/ Unsown(r) \/ CannotPlace(r) \/ CannotTake(r)
  <2>1. at'[r] \notin Making /\ UNCHANGED kb
    BY <1>0, <1>17 DEF MakesStage, CannotStage, LooksInside, CannotMakeDir, Conflicts, Unsown, CannotPlace,
       CannotTake, Steps, Says, Fails, Goes, Making
  <2> QED
    BY <1>3, <1>4, <2>1 DEF Course, RootWhole, Making
<1> QED
  BY <1>7, <1>8, <1>10, <1>11, <1>12, <1>13, <1>14, <1>15, <1>16, <1>17 DEF StartStep

LEMMA Step == IInv /\ [Next]_vars => IInv'
<1> SUFFICES ASSUME IInv, [Next]_vars PROVE IInv'
  OBVIOUS
<1>1. TypeOK' /\ Kinds' /\ (Alone' <=> Alone)
  BY Typed, KindsKept, TogetherKept DEF IInv, Alone
<1>2. ASSUME Alone PROVE (\A o \in Starters : Course(o)') /\ RootWhole'
  <2>0. at \in [Runs -> Busy \cup {"idle", "serving", "ended", "killed"}] /\ Starters \subseteq Runs /\ TypeOK
    BY DEF IInv, TypeOK, Runs
  <2>1. CASE UNCHANGED vars
    BY <1>2, <2>1 DEF IInv, vars, Course, RootWhole
  <2>2. CASE Changes
    <3>1. kb' = [kb EXCEPT !["root"].changed = TRUE] /\ UNCHANGED at
      BY <2>2, Zenon DEF Changes
    <3>2. Kept
      BY <2>0, <3>1, ServingKeeps, Zenon
    <3> QED
      BY <1>2, <3>1, <3>2, QuietStep
  <2>3. ASSUME NEW r \in Runs, StartStep(r) \/ Takes(r) \/ CannotTake(r)
        PROVE  (\A o \in Starters : Course(o)') /\ RootWhole'
    BY <1>2, <2>3, MakingStep
  <2>4. ASSUME NEW r \in Runs, Looks(r)
        PROVE  (\A o \in Starters : Course(o)') /\ RootWhole'
    <3>1. UNCHANGED kb /\ \A o \in Starters : at'[o] = at[o] \/ at'[o] \notin Making
      BY <2>0, <2>4 DEF Looks, Steps, Says, Goes, Making
    <3> QED
      BY <1>2, <2>0, <3>1, ServingKeeps, QuietStep
  <2>5. ASSUME NEW r \in Runs, Checks(r) \/ CannotServe(r) \/ FindsServed(r) \/ FindsUnnamed(r)
                                 \/ Owns(r) \/ Binds(r) \/ CannotBind(r) \/ Stops(r) \/ Interrupted(r) \/ Killed(r)
        PROVE  (\A o \in Starters : Course(o)') /\ RootWhole'
    <3>1. \A o \in Starters : at'[o] = at[o] \/ at'[o] \notin Making
      BY <2>0, <2>5 DEF Checks, CannotServe, FindsServed, FindsUnnamed, Owns, Binds, CannotBind, Stops,
         Interrupted, Killed, Steps, Says, GivesBack, Goes, Making
    <3>2. UNCHANGED kb \/ kb' = [kb EXCEPT !["root"].owner = r] \/ kb' = Freed(r) \/ NamedBy(r)
      BY <2>5, Zenon DEF Checks, CannotServe, FindsServed, FindsUnnamed, Owns, Binds, CannotBind, Stops,
         Interrupted, Killed
    <3>3. Kept
      BY <2>0, <3>2, ServingKeeps, Zenon
    <3> QED
      BY <1>2, <3>1, <3>3, QuietStep
  <2> QED
    BY <2>1, <2>2, <2>3, <2>4, <2>5 DEF Next, ServeStep
<1>3. Alone => OneStart'
  BY OneStartKept
<1> QED
  BY <1>1, <1>2, <1>3 DEF IInv

(* PlacedWhole, however many runs there are of each kind: alone, the root  *)
(* holds no store or the whole of one, whatever fails or is killed.        *)
THEOREM RootIsWhole == Spec => []PlacedWhole
<1>1. IInv => PlacedWhole
  BY DEF IInv, PlacedWhole
<1> QED
  BY <1>1, Start, Step, PTL DEF Spec

-----------------------------------------------------------------------------
(* What a start alone leaves in the root, and what stays there.            *)

(* A store made in the root is marked last, its database made before.      *)
Unmade(r) ==
  /\ at[r] \in {"database", "filling", "marking"} => ~kb["root"].marked
  /\ at[r] = "filling" => kb["root"].db = "made"

(* Where a run is, and what it has said, while what is in the root is its. *)
Claim(r) ==
  kb["root"].by = r =>
    \/ at[r] = "killed"
    \/ r \in Inits /\ (at[r] \in {"database", "filling", "marking"} \/ (at[r] = "ended" /\ said[r] \in {"done", "stopped"}))
    \/ r \in Seeds \cup Restores /\ at[r] \in {"clearing", "ended"} /\ said[r] = "done"
    \/ r \in mine /\ at[r] \in {"clearing", "checking", "owning", "binding"} /\ said[r] = "nothing"
    \/ r \in mine /\ at[r] \in {"emptying", "staging", "taking"}
    \/ r \in Serves /\ at[r] \in {"serving", "clearing", "ended"} /\ said[r] \in {"done", "served", "broken"}

(* A run has a store of its own to serve from its placing on, which it did *)
(* over no other; before that it has said nothing.                         *)
Placed(r) ==
  /\ at[r] = "taking" => r \in mine
  /\ r \in mine => at[r] \in {"clearing", "checking", "owning", "binding", "emptying", "staging", "taking",
                              "ended", "killed"}
  /\ r \in mine /\ UnderWay(r) => \A o \in Starters : said[o] # "done"
  /\ r \notin mine /\ at[r] \in Starting \cup {"idle"} => said[r] = "nothing"

(* What a run is about to serve is a store.                                *)
Opened(r) == at[r] \in {"owning", "binding"} => kb["root"].marked

Answered(r) == said[r] = "done" => kb["root"].marked /\ (r \notin Serves => kb["root"].by = r)

(* Only a run that serves comes to open a store, or takes it back.         *)
ForServing == Opening \cup {"taking"}

RootInv ==
  /\ \A r \in Inits : Unmade(r)
  /\ \A r \in Starters : Claim(r) /\ Answered(r)
  /\ \A r \in Serves : Placed(r) /\ Opened(r)
  /\ \A r \in Starters \ Serves : at[r] \notin ForServing

(* A step of one run leaves every other where it is.                       *)
OthersSame(r) ==
  \A o \in Runs \ {r} : at'[o] = at[o] /\ said'[o] = said[o] /\ (o \in mine' <=> o \in mine)

LEMMA StepsAlone ==
  ASSUME TypeOK, NEW r \in Runs,
         Looks(r) \/ StartStep(r) \/ ServeStep(r) \/ Interrupted(r) \/ Killed(r)
  PROVE  OthersSame(r)
<1> USE DEF Steps, Says, Fails, GivesBack, Goes
<1>0. at \in [Runs -> Busy \cup {"idle", "serving", "ended", "killed"}]
      /\ said \in [Runs -> {"nothing", "done", "refused", "escaped", "served", "stopped", "broken"}]
  BY DEF TypeOK
<1>1. /\ \E to : at' = [at EXCEPT ![r] = to]
      /\ UNCHANGED said \/ \E answer : said' = [said EXCEPT ![r] = answer]
      /\ mine' \in {mine, mine \cup {r}, mine \ {r}}
  <2>1. CASE Looks(r) \/ Interrupted(r) \/ Killed(r)
    BY <2>1 DEF Looks, Interrupted, Killed
  <2>2. CASE StartStep(r)
    <3>1. CASE Empties(r) \/ MakesStage(r) \/ CannotStage(r) \/ LooksInside(r)
      BY <3>1 DEF Empties, MakesStage, CannotStage, LooksInside
    <3>2. CASE MakesDir(r) \/ CannotMakeDir(r) \/ MakesDatabase(r) \/ Fills(r) \/ Conflicts(r) \/ Breaks(r)
      BY <3>2 DEF MakesDir, CannotMakeDir, MakesDatabase, Fills, Conflicts, Breaks
    <3>3. CASE Marks(r) \/ Sows(r) \/ Unsown(r)
      BY <3>3 DEF Marks, Sows, Unsown
    <3>4. CASE Places(r) \/ CannotPlace(r) \/ Clears(r)
      BY <3>4 DEF Places, Put, CannotPlace, Clears, Cleared
    <3> QED
      BY <2>2, <3>1, <3>2, <3>3, <3>4 DEF StartStep
  <2>3. CASE ServeStep(r)
    <3>1. CASE Checks(r) \/ CannotServe(r) \/ Owns(r) \/ FindsServed(r) \/ FindsUnnamed(r)
      BY <3>1 DEF Checks, CannotServe, Owns, FindsServed, FindsUnnamed
    <3>2. CASE Binds(r) \/ CannotBind(r) \/ Stops(r) \/ Takes(r) \/ CannotTake(r)
      BY <3>2 DEF Binds, CannotBind, Stops, Takes, CannotTake
    <3> QED
      BY <2>3, <3>1, <3>2 DEF ServeStep
  <2> QED
    BY <2>1, <2>2, <2>3
<1> QED
  BY <1>0, <1>1 DEF OthersSame

(* What a run may do to the root and to itself, for what is claimed of the *)
(* root to go on: it puts there nothing but its own, does so over no store *)
(* whose start was answered, and touches it as the one start under way.    *)
LEMMA RootGoesOn ==
  ASSUME IInv, RootInv, Alone, NEW r \in Starters, OthersSame(r),
         kb'["root"].by \in {kb["root"].by, r, Nobody},
         \/ kb'["root"].marked /\ kb'["root"].by = kb["root"].by
         \/ kb'["root"].marked = kb["root"].marked /\ kb'["root"].by = kb["root"].by
         \/ \A o \in Starters : said[o] # "done",
         UnderWay(r) \/ SameMaking(kb["root"], kb'["root"]),
         said'[r] = "done" => said[r] = "done" \/ UnderWay(r),
         r \in Inits => Unmade(r)',
         Claim(r)', Answered(r)',
         r \in Serves => Placed(r)' /\ Opened(r)',
         r \notin Serves => at'[r] \notin ForServing
  PROVE  RootInv'
<1>1. /\ \A o \in Starters \ {r} : at'[o] = at[o] /\ said'[o] = said[o] /\ (o \in mine' <=> o \in mine)
      /\ Inits \subseteq Starters /\ Serves \subseteq Starters /\ Starters \subseteq Runs
      /\ r # Nobody /\ Nobody \notin Starters
  BY NobodyAssumption DEF OthersSame, Runs, Starters, Staged
<1>2. ASSUME NEW o \in Starters \ {r} PROVE (o \in Inits => Unmade(o)')
  BY <1>1, <1>2, OnlyOne DEF RootInv, Unmade, SameMaking, IInv, OneStart, UnderWay, Busy, Starting
<1>3. ASSUME NEW o \in Starters \ {r} PROVE Claim(o)'
  BY <1>1 DEF RootInv, Claim
<1>4. ASSUME NEW o \in Starters \ {r} PROVE Answered(o)'
  BY <1>1 DEF RootInv, Answered
<1>5. ASSUME NEW o \in Serves \ {r} PROVE Placed(o)'
  <2>1. UnderWay(o)' <=> UnderWay(o)
    BY <1>1 DEF UnderWay
  <2>2. o \in mine /\ UnderWay(o) => \A p \in Starters : said'[p] # "done"
    <3>1. UnderWay(o) => ~UnderWay(r)
      BY <1>1 DEF IInv, OneStart
    <3> QED
      BY <1>1, <3>1 DEF RootInv, Placed
  <2> QED
    BY <1>1, <2>1, <2>2 DEF RootInv, Placed
<1>6. ASSUME NEW o \in Serves \ {r} PROVE Opened(o)'
  <2>1. at[o] \in {"owning", "binding"} => ~UnderWay(r)
    BY <1>1 DEF IInv, OneStart, UnderWay, Busy, Opening
  <2> QED
    BY <1>1, <2>1 DEF RootInv, Opened, SameMaking
<1>7. \A o \in Starters \ Serves : at'[o] \notin ForServing
  BY <1>1 DEF RootInv
<1> QED
  BY <1>1, <1>2, <1>3, <1>4, <1>5, <1>6, <1>7 DEF RootInv

(* A step that leaves what was made in the root as it was made.            *)
LEMMA RootUntouched ==
  ASSUME IInv, RootInv, Alone, NEW r \in Starters, OthersSame(r), SameMaking(kb["root"], kb'["root"]),
         said'[r] = "done" => UnderWay(r) \/ said[r] = "done",
         r \in Inits => Unmade(r)',
         Claim(r)', Answered(r)',
         r \in Serves => Placed(r)' /\ Opened(r)',
         r \notin Serves => at'[r] \notin ForServing
  PROVE  RootInv'
BY RootGoesOn DEF SameMaking

(* Before a store is made, out of sight or in place.                       *)
LEMMA RootLooking ==
  ASSUME IInv, RootInv, Alone, NEW r \in Starters,
         Looks(r) \/ Empties(r) \/ MakesStage(r) \/ CannotStage(r) \/ LooksInside(r) \/ CannotMakeDir(r)
  PROVE  RootInv'
<1>0. /\ at \in [Runs -> Busy \cup {"idle", "serving", "ended", "killed"}] /\ r \in Runs
      /\ said \in [Runs -> {"nothing", "done", "refused", "escaped", "served", "stopped", "broken"}]
      /\ kb \in [{"root", "stage"} -> Dirs] /\ mine \subseteq Serves
  BY DEF IInv, TypeOK, Runs
<1>1. OthersSame(r)
  BY <1>0, StepsAlone DEF IInv, StartStep
<1>2. kb'["root"] = kb["root"]
  BY <1>0 DEF Looks, Empties, MakesStage, CannotStage, LooksInside, CannotMakeDir
<1>3. /\ mine' = mine
      /\ \/ at[r] = "idle" /\ at'[r] \in {"making", "emptying"} /\ said'[r] = said[r]
         \/ at[r] = "idle" /\ at'[r] = "checking" /\ said'[r] = said[r] /\ r \in Serves
         \/ at[r] = "emptying" /\ at'[r] = "staging" /\ said'[r] = said[r]
         \/ at[r] = "staging" /\ at'[r] = "taking" /\ said'[r] = said[r] /\ r \in mine
         \/ at[r] = "staging" /\ at'[r] \in {"making", "looking"} /\ said'[r] = said[r] /\ r \notin mine
         \/ at[r] = "staging" /\ at'[r] = "ended" /\ said'[r] = "broken" /\ r \in mine
         \/ at[r] = "staging" /\ at'[r] = "ended" /\ said'[r] = "refused" /\ r \notin mine
         \/ at[r] = "looking" /\ at'[r] = "making" /\ said'[r] = said[r]
         \/ at[r] \in {"idle", "looking", "making"} /\ at'[r] \in {"ended", "clearing"} /\ said'[r] = "refused"
  <2> USE DEF Steps, Says, Fails, Goes
  <2>1. CASE Looks(r)
    <3>1. r \notin Hosts
      BY KindsAssumption DEF Starters, Staged
    <3> QED
      BY <1>0, <2>1, <3>1 DEF Looks
  <2>2. CASE Empties(r)
    BY <1>0, <2>2 DEF Empties
  <2>3. CASE MakesStage(r)
    BY <1>0, <2>3 DEF MakesStage
  <2>4. CASE CannotStage(r)
    BY <1>0, <2>4 DEF CannotStage
  <2>5. CASE LooksInside(r) \/ CannotMakeDir(r)
    BY <1>0, <2>5 DEF LooksInside, CannotMakeDir
  <2> QED
    BY <2>1, <2>2, <2>3, <2>4, <2>5
<1>4. /\ r \in Inits => Unmade(r)
      /\ Claim(r) /\ Answered(r) /\ (r \in Serves => Placed(r) /\ Opened(r))
  BY DEF RootInv
<1>5. r \in Inits => Unmade(r)'
  BY <1>3 DEF Unmade
<1>6. Claim(r)'
  BY <1>0, <1>2, <1>3, <1>4 DEF Claim
<1>7. Answered(r)'
  BY <1>2, <1>3, <1>4 DEF Answered
<1>8. r \in Serves => Placed(r)' /\ Opened(r)'
  <2>1. ASSUME r \in mine, UnderWay(r)' PROVE \A o \in Starters : said'[o] # "done"
    <3>1. UnderWay(r) /\ \A o \in Starters : said[o] # "done"
      BY <1>0, <1>3, <1>4, <2>1 DEF Placed, UnderWay, Busy, Starting
    <3>2. \A o \in Starters \ {r} : said'[o] = said[o]
      BY <1>1 DEF OthersSame, Runs
    <3> QED
      BY <1>3, <3>1, <3>2
  <2> QED
    BY <1>3, <1>4, <2>1 DEF Placed, Opened, Starting
<1>9. SameMaking(kb["root"], kb'["root"]) /\ (r \notin Serves => at'[r] \notin ForServing)
  BY <1>0, <1>2, <1>3 DEF SameMaking, Opening, ForServing
<1> QED
  BY <1>1, <1>3, <1>5, <1>6, <1>7, <1>8, <1>9, RootUntouched

(* As it is made: in the root by one that starts a store there, a database *)
(* at a time, and marked last.                                             *)
LEMMA RootMaking ==
  ASSUME IInv, RootInv, Alone, NEW r \in Starters,
         MakesDir(r) \/ MakesDatabase(r) \/ Fills(r) \/ Conflicts(r) \/ Marks(r) \/ Breaks(r) \/ Sows(r)
           \/ Unsown(r) \/ CannotPlace(r)
  PROVE  RootInv'
<1>0. /\ at \in [Runs -> Busy \cup {"idle", "serving", "ended", "killed"}] /\ r \in Runs /\ Nobody # r
      /\ said \in [Runs -> {"nothing", "done", "refused", "escaped", "served", "stopped", "broken"}]
      /\ kb \in [{"root", "stage"} -> Dirs] /\ mine \subseteq Serves /\ kb["root"] \in Dirs
      /\ (r \in Inits => Place(r) = "root") /\ (r \notin Inits => Place(r) = "stage") /\ "root" # "stage"
      /\ r \in Inits => r \notin Staged /\ r \notin Serves /\ r \notin Restores /\ r \notin Seeds /\ r \notin mine
      /\ Serves \subseteq Staged
  BY NobodyAssumption, KindsAssumption DEF IInv, TypeOK, Runs, Place, Staged
<1>1. OthersSame(r)
  BY <1>0, StepsAlone DEF IInv, StartStep
<1>2. /\ r \in Inits => Unmade(r)
      /\ Claim(r) /\ Answered(r) /\ (r \in Serves => Placed(r) /\ Opened(r))
      /\ Course(r)
  BY DEF RootInv, IInv
<1>3. /\ mine' = mine
      /\ \/ /\ at[r] \in {"making", "database", "filling", "marking", "seeding"} /\ said'[r] = said[r]
            /\ at'[r] \in {"database", "filling", "marking", "seeding", "placing"}
         \/ /\ r \in Inits /\ at[r] = "marking" /\ at'[r] = "ended" /\ said'[r] = "done"
         \/ /\ at[r] \in {"database", "filling", "marking", "seeding", "placing"}
            /\ at'[r] = (IF r \in Inits THEN "ended" ELSE "clearing") /\ said'[r] = "refused"
  <2> USE DEF Steps, Says, Fails, Goes
  <2>1. CASE MakesDir(r) \/ MakesDatabase(r) \/ Fills(r) \/ Sows(r)
    BY <1>0, <2>1, Zenon DEF MakesDir, MakesDatabase, Fills, Sows
  <2>2. CASE Conflicts(r) \/ Unsown(r) \/ CannotPlace(r) \/ Breaks(r)
    BY <1>0, <2>2, Zenon DEF Conflicts, Unsown, CannotPlace, Breaks
  <2>3. CASE Marks(r)
    BY <1>0, <2>3, Zenon DEF Marks
  <2> QED
    BY <2>1, <2>2, <2>3
<1>4. UnderWay(r) /\ r \notin mine /\ (r \notin Serves => at'[r] \notin ForServing)
  <2>1. at[r] \in {"making", "database", "filling", "marking", "seeding", "placing"}
    BY <1>3
  <2>2. r \in mine => r \in Serves /\ Placed(r)
    BY <1>0, <1>2
  <2>3. r \notin mine
    BY <2>1, <2>2 DEF Placed
  <2>4. UnderWay(r)
    BY <2>1 DEF UnderWay, Busy, Starting
  <2>5. at'[r] \in {"database", "filling", "marking", "seeding", "placing", "ended", "clearing"}
    BY <1>3
  <2> QED
    BY <2>3, <2>4, <2>5 DEF Opening, ForServing
<1>5. r \in Serves => Placed(r)' /\ Opened(r)'
  BY <1>0, <1>2, <1>3, <1>4 DEF Placed, Opened, Starting
<1>6. CASE r \notin Inits
  <2>1. kb'["root"] = kb["root"]
    BY <1>0, <1>6, Zenon DEF MakesDir, MakesDatabase, Fills, Conflicts, Marks, Breaks, Sows, Unsown, CannotPlace
  <2>2. kb["root"].by # r
    BY <1>0, <1>2, <1>3, <1>4, <1>6 DEF Claim
  <2>3. Claim(r)' /\ Answered(r)' /\ SameMaking(kb["root"], kb'["root"])
    BY <1>2, <1>3, <1>6, <2>1, <2>2 DEF Claim, Answered, SameMaking
  <2> QED
    BY <1>1, <1>4, <1>5, <1>6, <2>3, RootUntouched
<1>7. CASE r \in Inits
  <2>0. /\ Place(r) = "root" /\ r \notin Serves /\ r \notin mine /\ r \notin Seeds \cup Restores
        /\ Unmade(r) /\ (at[r] \in {"database", "filling", "marking"} => kb["root"].by = r)
        /\ at[r] = "marking" => kb["root"].db = "filled"
    BY <1>0, <1>2, <1>7 DEF Course
  <2>1. CASE MakesDir(r)
    <3>1. at[r] = "making" /\ at'[r] = "database" /\ said'[r] = said[r] /\ kb["root"] = Nothing /\ kb'["root"] = Made(r)
      BY <1>0, <2>0, <2>1, Zenon DEF MakesDir, Steps, Goes
    <3>2. ~kb["root"].marked /\ kb'["root"].by = r /\ ~kb'["root"].marked
      BY <3>1 DEF Nothing, Made
    <3>3. \A o \in Starters : said[o] # "done"
      BY <3>2 DEF RootInv, Answered
    <3>4. Unmade(r)' /\ Claim(r)' /\ Answered(r)'
      BY <1>7, <3>1, <3>2, <3>3 DEF Unmade, Claim, Answered
    <3> QED
      BY <1>1, <1>4, <2>0, <3>1, <3>2, <3>3, <3>4, RootGoesOn
  <2>2. CASE MakesDatabase(r) \/ Fills(r)
    <3>1. /\ at[r] \in {"database", "filling"} /\ said'[r] = said[r]
          /\ at'[r] = (IF at[r] = "database" THEN "filling" ELSE "marking")
          /\ kb'["root"] = [kb["root"] EXCEPT !.db = IF at[r] = "database" THEN "made" ELSE "filled"]
      <4>1. CASE MakesDatabase(r)
        BY <1>0, <2>0, <4>1, Zenon DEF MakesDatabase, Steps, Goes
      <4>2. CASE Fills(r)
        BY <1>0, <2>0, <4>2, Zenon DEF Fills, Steps, Goes
      <4> QED
        BY <2>2, <4>1, <4>2
    <3>2. /\ kb'["root"].by = kb["root"].by /\ kb'["root"].marked = kb["root"].marked
          /\ kb'["root"].db = IF at[r] = "database" THEN "made" ELSE "filled"
      BY <1>0, <3>1, Refilled
    <3>3. Unmade(r)' /\ Claim(r)' /\ Answered(r)'
      BY <1>2, <1>7, <2>0, <3>1, <3>2 DEF Unmade, Claim, Answered
    <3> QED
      BY <1>1, <1>4, <2>0, <3>1, <3>2, <3>3, RootGoesOn
  <2>3. CASE Marks(r)
    <3>1. /\ at[r] = "marking" /\ at'[r] = "ended" /\ said'[r] = "done"
          /\ kb'["root"] = [kb["root"] EXCEPT !.marked = TRUE]
      BY <1>0, <1>7, <2>0, <2>3, Zenon DEF Marks, Says, Goes
    <3>2. kb'["root"].by = r /\ kb'["root"].marked /\ kb["root"].by = r
      BY <1>0, <2>0, <3>1, Remarked
    <3>3. Unmade(r)' /\ Claim(r)' /\ Answered(r)'
      BY <1>7, <3>1, <3>2 DEF Unmade, Claim, Answered
    <3> QED
      BY <1>1, <1>4, <2>0, <3>1, <3>2, <3>3, RootGoesOn
  <2>4. CASE Breaks(r)
    <3>1. /\ at[r] \in {"database", "filling", "marking"} /\ at'[r] = "ended" /\ said'[r] = "refused"
          /\ kb'["root"] = Nothing
      BY <1>0, <1>7, <2>0, <2>4, Zenon DEF Breaks, Fails, Says, Goes
    <3>2. ~kb["root"].marked /\ kb'["root"].by = Nobody /\ Nobody # r
      BY <1>0, <2>0, <3>1 DEF Nothing, Made, Unmade
    <3>3. \A o \in Starters : said[o] # "done"
      BY <3>2 DEF RootInv, Answered
    <3>4. Unmade(r)' /\ Claim(r)' /\ Answered(r)'
      BY <3>1, <3>2 DEF Unmade, Claim, Answered
    <3> QED
      BY <1>1, <1>4, <2>0, <3>1, <3>2, <3>3, <3>4, RootGoesOn
  <2>5. ~(Conflicts(r) \/ Sows(r) \/ Unsown(r) \/ CannotPlace(r))
    <3>1. Conflicts(r) => at[r] = "filling" /\ kb["root"].db = "filled"
      BY <2>0, Zenon DEF Conflicts, Fails, Says, Goes
    <3>2. Sows(r) \/ Unsown(r) \/ CannotPlace(r) => at[r] \in {"seeding", "placing"}
      BY DEF Sows, Unsown, CannotPlace, Steps, Fails, Says, Goes
    <3> QED
      BY <1>7, <2>0, <3>1, <3>2 DEF Unmade, IInv, Kinds
  <2> QED
    BY <2>1, <2>2, <2>3, <2>4, <2>5
<1> QED
  BY <1>6, <1>7

(* Put in place, cleared up after, and taken back out.                     *)
LEMMA RootMoving ==
  ASSUME IInv, RootInv, Alone, NEW r \in Starters, Places(r) \/ Clears(r) \/ Takes(r) \/ CannotTake(r)
  PROVE  RootInv'
<1>0. /\ at \in [Runs -> Busy \cup {"idle", "serving", "ended", "killed"}] /\ r \in Runs /\ Nobody # r
      /\ said \in [Runs -> {"nothing", "done", "refused", "escaped", "served", "stopped", "broken"}]
      /\ kb \in [{"root", "stage"} -> Dirs] /\ mine \subseteq Serves /\ kb["root"] \in Dirs
      /\ "root" # "stage" /\ r \in Inits \cup Seeds \cup Restores \cup Serves
  BY NobodyAssumption DEF IInv, TypeOK, Runs, Starters, Staged
<1>1. OthersSame(r)
  BY <1>0, StepsAlone DEF IInv, StartStep, ServeStep
<1>2. /\ r \in Inits => Unmade(r)
      /\ Claim(r) /\ Answered(r) /\ (r \in Serves => Placed(r) /\ Opened(r)) /\ (r \in mine => r \in Serves)
      /\ Course(r) /\ (r \in Inits => at[r] \notin {"placing", "clearing", "taking"})
      /\ r \notin Serves => at[r] \notin ForServing
  BY <1>0 DEF RootInv, IInv, Kinds
<1>3. CASE Places(r)
  <2>1. /\ at[r] = "placing" /\ at'[r] = "clearing" /\ kb'["root"] = kb["stage"] /\ Vacant(kb["root"])
        /\ IF r \in Serves THEN said'[r] = said[r] /\ r \in mine' ELSE said'[r] = "done" /\ mine' = mine
    BY <1>0, <1>3, Zenon DEF Places, Put, Says, Goes
  <2>2. kb'["root"].by = r /\ kb'["root"].marked /\ r \notin Inits /\ UnderWay(r)
    <3>1. r \notin Inits /\ Place(r) = "stage"
      BY <1>2, <2>1 DEF Place
    <3>2. kb["stage"].by = r /\ kb["stage"].marked
      BY <1>2, <2>1, <3>1 DEF Course
    <3> QED
      BY <2>1, <3>1, <3>2 DEF UnderWay, Busy, Starting
  <2>3. ~kb["root"].marked
    BY <2>1 DEF Vacant, Nothing, Made
  <2>4. \A o \in Starters : said[o] # "done"
    BY <2>3 DEF RootInv, Answered
  <2>5. r \in Serves => said[r] = "nothing"
    <3>1. r \notin mine
      BY <1>2, <2>1 DEF Placed
    <3> QED
      BY <1>2, <2>1, <3>1 DEF Placed, Starting
  <2>6. Claim(r)' /\ Answered(r)'
    BY <1>0, <2>1, <2>2, <2>5 DEF Claim, Answered
  <2>7. r \in Serves => Placed(r)' /\ Opened(r)'
    <3>1. r \in Serves => \A o \in Starters : said'[o] # "done"
      BY <1>1, <2>1, <2>4 DEF OthersSame, Runs
    <3> QED
      BY <2>1, <3>1 DEF Placed, Opened
  <2> QED
    BY <1>1, <2>1, <2>2, <2>4, <2>6, <2>7, RootGoesOn DEF Opening, ForServing
<1>4. CASE Clears(r)
  <2>1. /\ at[r] = "clearing" /\ kb'["root"] = kb["root"] /\ said'[r] = said[r] /\ mine' = mine
        /\ at'[r] = (IF r \in mine /\ said[r] = "nothing" THEN "checking" ELSE "ended")
    BY <1>0, <1>4, Zenon DEF Clears, Cleared, Steps, Goes
  <2>2. Claim(r)' /\ Answered(r)' /\ SameMaking(kb["root"], kb'["root"]) /\ r \notin Inits
    BY <1>0, <1>2, <2>1 DEF Claim, Answered, SameMaking
  <2>3. r \in Serves => Placed(r)' /\ Opened(r)'
    <3>1. r \in mine => \A o \in Starters : said'[o] # "done"
      <4>1. UnderWay(r)
        BY <2>1 DEF UnderWay, Busy
      <4> QED
        BY <1>1, <1>2, <2>1, <4>1 DEF OthersSame, Runs, Placed
    <3> QED
      BY <1>2, <2>1, <3>1 DEF Placed, Opened, Starting
  <2>4. r \notin Serves => at'[r] \notin ForServing
    BY <1>0, <1>2, <2>1 DEF Opening, ForServing
  <2> QED
    BY <1>1, <2>1, <2>2, <2>3, <2>4, RootUntouched
<1>5. CASE Takes(r)
  <2>1. /\ at[r] = "taking" /\ at'[r] = "clearing" /\ said'[r] = said[r] /\ mine' = mine
        /\ kb'["root"] = Nothing
    BY <1>0, <1>5, Zenon DEF Takes, Steps, Goes
  <2>2. UnderWay(r) /\ kb'["root"].by = Nobody /\ r \notin Inits
    BY <1>2, <2>1 DEF UnderWay, Busy, Nothing, Made
  <2>3. r \in Serves
    BY <1>2, <2>1 DEF ForServing
  <2>4. \A o \in Starters : said[o] # "done" /\ said'[o] # "done"
    <3>1. \A o \in Starters : said[o] # "done"
      BY <1>2, <2>1, <2>2, <2>3 DEF Placed
    <3> QED
      BY <1>1, <2>1, <3>1 DEF OthersSame, Runs
  <2>5. Claim(r)' /\ Answered(r)' /\ Placed(r)' /\ Opened(r)'
    BY <1>0, <1>2, <2>1, <2>2, <2>3, <2>4 DEF Claim, Answered, Placed, Opened, Starting
  <2> QED
    BY <1>1, <2>1, <2>2, <2>3, <2>4, <2>5, RootGoesOn DEF Opening, ForServing
<1>6. CASE CannotTake(r)
  <2>1. /\ at[r] = "taking" /\ at'[r] = "clearing" /\ said'[r] = "broken" /\ mine' = mine
        /\ kb' = kb
    BY <1>0, <1>6, Zenon DEF CannotTake, Says, Goes
  <2>2. UnderWay(r) /\ r \notin Inits
    BY <1>2, <2>1 DEF UnderWay, Busy
  <2>3. r \in Serves => \A o \in Starters : said'[o] # "done"
    BY <1>1, <1>2, <2>1, <2>2 DEF OthersSame, Runs, Placed
  <2>4. Claim(r)' /\ Answered(r)' /\ (r \in Serves => Placed(r)' /\ Opened(r)')
    BY <1>0, <1>2, <2>1, <2>2, <2>3 DEF Claim, Answered, Placed, Opened, Starting
  <2>5. SameMaking(kb["root"], kb'["root"]) /\ at'[r] \notin ForServing
    BY <2>1 DEF SameMaking, Opening, ForServing
  <2> QED
    BY <1>1, <2>1, <2>2, <2>4, <2>5, RootUntouched
<1> QED
  BY <1>3, <1>4, <1>5, <1>6

(* Serving a store, failing to, being stopped or killed: what was made is  *)
(* as it was made.                                                         *)
LEMMA KeptAs ==
  ASSUME TypeOK, NEW r \in Runs,
         Looks(r) \/ Checks(r) \/ CannotServe(r) \/ Owns(r) \/ FindsServed(r) \/ FindsUnnamed(r) \/ Binds(r)
           \/ CannotBind(r) \/ Stops(r) \/ CannotTake(r) \/ Interrupted(r) \/ Killed(r)
  PROVE  SameMaking(kb["root"], kb'["root"]) /\ SameMaking(kb["stage"], kb'["stage"])
<1>1. UNCHANGED kb \/ kb' = [kb EXCEPT !["root"].owner = r] \/ kb' = Freed(r) \/ NamedBy(r)
  BY Zenon DEF Looks, Checks, CannotServe, Owns, FindsServed, FindsUnnamed, Binds, CannotBind, Stops,
     CannotTake, Interrupted, Killed
<1> QED
  BY <1>1, ServingKeeps, Zenon DEF Kept

LEMMA RootServing ==
  ASSUME IInv, RootInv, Alone, NEW r \in Starters,
         Checks(r) \/ CannotServe(r) \/ Owns(r) \/ FindsServed(r) \/ FindsUnnamed(r) \/ Binds(r)
           \/ CannotBind(r) \/ Stops(r) \/ Interrupted(r) \/ Killed(r)
  PROVE  RootInv'
<1>0. /\ at \in [Runs -> Busy \cup {"idle", "serving", "ended", "killed"}] /\ r \in Runs
      /\ said \in [Runs -> {"nothing", "done", "refused", "escaped", "served", "stopped", "broken"}]
      /\ mine \subseteq Serves /\ r \in Inits \cup Seeds \cup Restores \cup Serves
      /\ (r \in Inits => r \notin Serves) /\ TypeOK
  BY KindsAssumption DEF IInv, TypeOK, Runs, Starters, Staged
<1>1. OthersSame(r) /\ SameMaking(kb["root"], kb'["root"])
  BY <1>0, StepsAlone, KeptAs DEF ServeStep
<1>2. /\ kb'["root"].by = kb["root"].by /\ kb'["root"].marked = kb["root"].marked
      /\ kb'["root"].db = kb["root"].db
  BY <1>1 DEF SameMaking
<1>3. /\ r \in Inits => Unmade(r)
      /\ Claim(r) /\ Answered(r) /\ (r \in Serves => Placed(r) /\ Opened(r)) /\ (r \in mine => r \in Serves)
      /\ r \notin Serves => at[r] \notin ForServing
      /\ r \in Inits => at[r] \notin Opening \cup {"emptying", "staging", "looking", "seeding", "placing"}
  BY <1>0 DEF RootInv, IInv, Kinds
<1>4. (r \in mine /\ UnderWay(r)) \/ UnderWay(r)' => UnderWay(r)
  BY <1>0 DEF Checks, CannotServe, Owns, FindsServed, FindsUnnamed, Binds, CannotBind, Stops, Interrupted,
     Killed, Steps, Says, GivesBack, Goes, UnderWay, Busy, Starting, Opening
<1>5. /\ mine' \subseteq mine
      /\ \/ /\ at[r] = "checking" /\ at'[r] = "owning" /\ said'[r] = said[r] /\ mine' = mine
            /\ kb["root"].marked
         \/ at[r] = "owning" /\ at'[r] = "binding" /\ said'[r] = said[r] /\ mine' = mine
         \/ at[r] = "owning" /\ at'[r] = "ended" /\ said'[r] = "served" /\ r \notin mine'
         \/ at[r] = "binding" /\ at'[r] = "serving" /\ said'[r] = "done" /\ r \notin mine'
         \/ /\ at[r] \in Opening /\ said'[r] \in {"refused", "escaped", "stopped"} /\ mine' = mine
            /\ at'[r] = IF r \in mine THEN "emptying" ELSE "ended"
         \/ at[r] = "serving" /\ at'[r] = "ended" /\ said'[r] = said[r] /\ mine' = mine
         \/ /\ at[r] \in Starting \ {"emptying", "staging"} /\ said'[r] = "stopped" /\ mine' = mine
            /\ at'[r] = IF r \in Inits THEN "ended" ELSE "clearing"
         \/ at[r] \in Busy \cup {"serving"} /\ at'[r] = "killed" /\ said'[r] = said[r] /\ mine' = mine
  <2> USE DEF Steps, Says, GivesBack, Goes
  <2>1. CASE Checks(r) \/ Owns(r) \/ Stops(r)
    BY <1>0, <2>1, Zenon DEF Checks, Owns, Stops
  <2>2. CASE FindsServed(r) \/ Binds(r)
    BY <1>0, <2>2 DEF FindsServed, Binds
  <2>3. CASE CannotServe(r) \/ FindsUnnamed(r) \/ CannotBind(r)
    BY <1>0, <2>3 DEF CannotServe, FindsUnnamed, CannotBind, Opening
  <2>4. CASE Interrupted(r)
    BY <1>0, <2>4 DEF Interrupted
  <2>5. CASE Killed(r)
    BY <1>0, <2>5 DEF Killed
  <2> QED
    BY <2>1, <2>2, <2>3, <2>4, <2>5
<1>6. r \in Inits => Unmade(r)'
  BY <1>2, <1>3, <1>5 DEF Unmade
<1>7. r \notin Serves => at'[r] \notin ForServing
  BY <1>0, <1>3, <1>5 DEF ForServing, Opening
<1>8. Claim(r)'
  BY <1>0, <1>2, <1>3, <1>5 DEF Claim, Opening, ForServing, Starting
<1>9. Answered(r)'
  BY <1>2, <1>3, <1>5 DEF Answered, Opened, ForServing, Opening
<1>10. r \in Serves => Placed(r)' /\ Opened(r)'
  <2>1. r \in mine' /\ UnderWay(r)' => \A o \in Starters : said'[o] # "done"
    <3>1. r \in mine' /\ UnderWay(r)' => \A o \in Starters : said[o] # "done"
      BY <1>0, <1>3, <1>4, <1>5 DEF Placed
    <3>2. \A o \in Starters \ {r} : said'[o] = said[o]
      BY <1>1 DEF OthersSame, Runs
    <3> QED
      BY <1>5, <3>1, <3>2
  <2>2. r \in Serves => Opened(r)'
    BY <1>2, <1>3, <1>5 DEF Opened
  <2> QED
    BY <1>0, <1>3, <1>5, <2>1, <2>2 DEF Placed, Starting, Opening
<1>11. said'[r] = "done" => UnderWay(r) \/ said[r] = "done"
  BY <1>5 DEF UnderWay, Busy, Opening
<1> QED
  BY <1>1, <1>6, <1>7, <1>8, <1>9, <1>10, <1>11, RootUntouched

(* Runs that start nothing claim nothing, and take nothing away.           *)
LEMMA RootHosted ==
  ASSUME IInv, RootInv, Alone, NEW r \in Runs \ Starters,
         Looks(r) \/ StartStep(r) \/ ServeStep(r) \/ Interrupted(r) \/ Killed(r)
  PROVE  RootInv'
<1>1. \A o \in Starters : at'[o] = at[o] /\ said'[o] = said[o] /\ (o \in mine' <=> o \in mine)
  BY StepsAlone DEF IInv, OthersSame, Runs
<1>2. SameMaking(kb["root"], kb'["root"])
  <2>1. at[r] \notin Starting \cup {"clearing", "taking"}
    BY OnlyOne
  <2>2. ~StartStep(r) /\ ~Takes(r) /\ ~CannotTake(r)
    BY <2>1 DEF StartStep, Empties, MakesStage, CannotStage, LooksInside, MakesDir, CannotMakeDir,
       MakesDatabase, Fills, Conflicts, Marks, Breaks, Sows, Unsown, Places, Put, CannotPlace, Clears, Cleared,
       Takes, CannotTake, Steps, Says, Fails, Goes, Starting
  <2> QED
    BY <2>2, KeptAs DEF IInv, ServeStep
<1>3. Inits \subseteq Starters /\ Serves \subseteq Starters
  BY DEF Starters, Staged
<1> QED
  BY <1>1, <1>2, <1>3 DEF RootInv, Unmade, Claim, Answered, Placed, Opened, UnderWay, SameMaking

LEMMA RootKept == IInv /\ (Alone => RootInv) /\ [Next]_vars => (Alone => RootInv)'
<1> SUFFICES ASSUME IInv, Alone, RootInv, [Next]_vars PROVE RootInv'
  BY TogetherKept DEF Alone
<1>1. CASE UNCHANGED vars
  BY <1>1 DEF vars, RootInv, Unmade, Claim, Answered, Placed, Opened, UnderWay
<1>2. CASE Changes
  <2>1. SameMaking(kb["root"], kb'["root"]) /\ UNCHANGED <<at, said, mine>>
    <3>1. kb' = [kb EXCEPT !["root"].changed = TRUE] /\ UNCHANGED <<at, said, mine>>
      BY <1>2, Zenon DEF Changes
    <3> QED
      BY <3>1, ServingKeeps, Zenon DEF Kept, IInv
  <2> QED
    BY <2>1 DEF RootInv, Unmade, Claim, Answered, Placed, Opened, UnderWay, SameMaking
<1>3. ASSUME NEW r \in Starters, Looks(r) \/ StartStep(r) \/ ServeStep(r) \/ Interrupted(r) \/ Killed(r)
      PROVE  RootInv'
  BY <1>3, RootLooking, RootMaking, RootMoving, RootServing DEF StartStep, ServeStep
<1>4. ASSUME NEW r \in Runs \ Starters, Looks(r) \/ StartStep(r) \/ ServeStep(r) \/ Interrupted(r) \/ Killed(r)
      PROVE  RootInv'
  BY <1>4, RootHosted
<1> QED
  BY <1>1, <1>2, <1>3, <1>4 DEF Next

-----------------------------------------------------------------------------
(* The staging place, with one start under way at a time.                  *)

(* Where a run is while the staging place is its.                          *)
InStage == {"looking", "making", "database", "filling", "marking", "seeding", "placing", "taking", "clearing"}

StageInv ==
  /\ ~stage => kb["stage"] = Nothing
  /\ \A r \in Staged : at[r] = "staging" => ~stage
  /\ \A r \in Staged : at[r] \in {"looking", "making"} => kb["stage"] = Nothing
  /\ stage => \E r \in Staged : at[r] \in InStage \cup {"killed"}

(* What a run may do to the staging place: it makes it, works in it and    *)
(* removes it as the one start under way.                                  *)
LEMMA StageGoesOn ==
  ASSUME IInv, StageInv, Alone, NEW r \in Runs, OthersSame(r),
         ~stage' => kb'["stage"] = Nothing,
         r \in Staged /\ at'[r] = "staging" => ~stage',
         r \in Staged /\ at'[r] \in {"looking", "making"} => kb'["stage"] = Nothing,
         stage' => \/ r \in Staged /\ at'[r] \in InStage \cup {"killed"}
                   \/ stage /\ ~(r \in Staged /\ at[r] \in InStage \cup {"killed"}),
         UnderWay(r) \/ (stage' = stage /\ (kb["stage"] = Nothing => kb'["stage"] = Nothing))
  PROVE  StageInv'
<1>1. \A o \in Staged \ {r} : at'[o] = at[o] /\ o \in Starters
  BY DEF OthersSame, Runs, Starters
<1>2. ASSUME NEW o \in Staged \ {r}, at[o] \in {"staging", "looking", "making"} PROVE ~UnderWay(r)
  BY <1>1, <1>2 DEF IInv, OneStart, UnderWay, Busy, Starting
<1>3. \A o \in Staged : at'[o] = "staging" => ~stage'
  BY <1>1, <1>2 DEF StageInv
<1>4. \A o \in Staged : at'[o] \in {"looking", "making"} => kb'["stage"] = Nothing
  BY <1>1, <1>2 DEF StageInv
<1>5. stage' => \E o \in Staged : at'[o] \in InStage \cup {"killed"}
  BY <1>1 DEF StageInv
<1> QED
  BY <1>3, <1>4, <1>5 DEF StageInv

LEMMA StageStarting ==
  ASSUME IInv, StageInv, Alone, NEW r \in Runs, StartStep(r)
  PROVE  StageInv'
<1>0. /\ at \in [Runs -> Busy \cup {"idle", "serving", "ended", "killed"}] /\ stage \in BOOLEAN
      /\ kb \in [{"root", "stage"} -> Dirs] /\ "root" # "stage"
  BY DEF IInv, TypeOK
<1>1. OthersSame(r)
  BY StepsAlone DEF IInv
<1>2. at[r] \in Starting \cup {"clearing"}
  BY DEF StartStep, Empties, MakesStage, CannotStage, LooksInside, MakesDir, CannotMakeDir, MakesDatabase,
     Fills, Conflicts, Marks, Breaks, Sows, Unsown, Places, Put, CannotPlace, Clears, Cleared, Steps, Says,
     Fails, Goes, Starting
<1>3. r \in Starters /\ UnderWay(r)
  BY <1>2, OnlyOne DEF UnderWay, Busy
<1>4. CASE r \in Inits
  <2>1. kb'["stage"] = kb["stage"] /\ UNCHANGED stage
    <3>1. Place(r) = "root" /\ at[r] \notin {"emptying", "staging", "looking", "seeding", "placing", "clearing"}
      BY <1>4 DEF Place, IInv, Kinds
    <3>2. MakesDir(r) \/ CannotMakeDir(r) \/ MakesDatabase(r) \/ Fills(r) \/ Conflicts(r) \/ Marks(r) \/ Breaks(r)
      BY <3>1, Zenon DEF StartStep, Empties, MakesStage, CannotStage, LooksInside, Sows, Unsown, Places, Put,
         CannotPlace, Clears, Cleared, Steps, Says, Fails, Goes
    <3> QED
      BY <1>0, <3>1, <3>2, Zenon DEF MakesDir, CannotMakeDir, MakesDatabase, Fills, Conflicts, Marks, Breaks
  <2>2. r \notin Staged
    BY <1>4, KindsAssumption
  <2> QED
    BY <1>1, <1>3, <2>1, <2>2, StageGoesOn DEF StageInv
<1>5. CASE r \in Staged
  <2>0. r \notin Inits /\ Place(r) = "stage" /\ r # Nobody
    BY <1>5, KindsAssumption, NobodyAssumption DEF Place, Runs, Starters
  <2>1. CASE Empties(r) \/ Clears(r)
    <3>1. ~stage' /\ kb'["stage"] = Nothing
      BY <1>0, <2>1, Zenon DEF Empties, Clears
    <3> QED
      BY <1>1, <1>3, <3>1, StageGoesOn
  <2>2. CASE MakesStage(r)
    <3>1. ~stage /\ stage' /\ kb' = kb /\ at'[r] \in {"taking", "making", "looking"}
      BY <1>0, <2>2 DEF MakesStage, Steps, Goes
    <3>2. kb'["stage"] = Nothing
      BY <3>1 DEF StageInv
    <3> QED
      BY <1>1, <1>3, <1>5, <3>1, <3>2, StageGoesOn DEF InStage
  <2>3. CASE CannotStage(r)
    <3>1. at[r] = "staging" /\ at'[r] = "ended" /\ UNCHANGED <<stage, kb>>
      BY <1>0, <2>3, Zenon DEF CannotStage, Says, Goes
    <3>2. ~stage
      BY <1>5, <3>1 DEF StageInv
    <3> QED
      BY <1>1, <1>3, <3>1, <3>2, StageGoesOn DEF StageInv
  <2>4. CASE LooksInside(r)
    <3>1. /\ UNCHANGED <<stage, kb>>
          /\ \/ at'[r] = "making" /\ kb["stage"] = Nothing
             \/ at'[r] = "clearing"
      BY <1>0, <2>0, <2>4, Zenon DEF LooksInside, Steps, Fails, Says, Goes
    <3> QED
      BY <1>1, <1>3, <1>5, <3>1, StageGoesOn DEF StageInv, InStage
  <2>5. CASE MakesDir(r)
    <3>1. stage /\ stage' /\ at'[r] = "database"
      BY <1>0, <1>5, <2>5, Zenon DEF MakesDir, Steps, Goes
    <3> QED
      BY <1>1, <1>3, <1>5, <3>1, StageGoesOn DEF InStage
  <2>6. CASE CannotMakeDir(r)
    <3>1. UNCHANGED <<stage, kb>> /\ at'[r] = "clearing"
      BY <1>0, <2>0, <2>6, Zenon DEF CannotMakeDir, Fails, Says, Goes
    <3> QED
      BY <1>1, <1>3, <1>5, <3>1, StageGoesOn DEF StageInv, InStage
  <2>7. CASE \/ MakesDatabase(r) \/ Fills(r) \/ Conflicts(r) \/ Marks(r) \/ Breaks(r) \/ Sows(r) \/ Unsown(r)
             \/ Places(r) \/ CannotPlace(r)
    <3>1. /\ at[r] \in {"database", "filling", "marking", "seeding", "placing"} /\ UNCHANGED stage
          /\ at'[r] \in {"filling", "marking", "seeding", "placing", "clearing"}
      <4> USE DEF Steps, Fails, Says, Goes
      <4>1. CASE MakesDatabase(r) \/ Fills(r) \/ Sows(r)
        BY <1>0, <4>1, Zenon DEF MakesDatabase, Fills, Sows
      <4>2. CASE Conflicts(r) \/ Breaks(r) \/ Unsown(r) \/ CannotPlace(r)
        BY <1>0, <2>0, <4>2, Zenon DEF Conflicts, Breaks, Unsown, CannotPlace
      <4>3. CASE Marks(r)
        BY <1>0, <2>0, <4>3, Zenon DEF Marks
      <4>4. CASE Places(r)
        BY <1>0, <4>4, Zenon DEF Places, Put
      <4> QED
        BY <2>7, <4>1, <4>2, <4>3, <4>4
    <3>2. kb["stage"].by = r
      BY <1>3, <2>0, <3>1 DEF IInv, Course
    <3>3. stage
      BY <2>0, <3>2 DEF StageInv, Nothing, Made
    <3> QED
      BY <1>0, <1>1, <1>3, <1>5, <3>1, <3>3, StageGoesOn DEF InStage
  <2> QED
    BY <2>1, <2>2, <2>3, <2>4, <2>5, <2>6, <2>7 DEF StartStep
<1> QED
  BY <1>3, <1>4, <1>5 DEF Starters

LEMMA StageServing ==
  ASSUME IInv, StageInv, Alone, NEW r \in Runs,
         Looks(r) \/ ServeStep(r) \/ Interrupted(r) \/ Killed(r)
  PROVE  StageInv'
<1>0. /\ at \in [Runs -> Busy \cup {"idle", "serving", "ended", "killed"}] /\ stage \in BOOLEAN
      /\ kb \in [{"root", "stage"} -> Dirs] /\ "root" # "stage" /\ r # Nobody
      /\ Inits \cap Staged = {}
  BY NobodyAssumption, KindsAssumption DEF IInv, TypeOK
<1>1. OthersSame(r)
  BY StepsAlone DEF IInv
<1>2. CASE Takes(r)
  <2>1. stage /\ stage' /\ at[r] = "taking" /\ at'[r] = "clearing"
    BY <1>0, <1>2, Zenon DEF Takes, Steps, Goes
  <2>2. r \in Staged /\ UnderWay(r)
    BY <2>1 DEF IInv, Kinds, Runs, Starters, UnderWay, Busy
  <2> QED
    BY <1>1, <2>1, <2>2, StageGoesOn DEF InStage
<1>3. CASE ~Takes(r)
  <2>1. stage' = stage /\ (kb["stage"] = Nothing => kb'["stage"] = Nothing)
    <3>1. Nothing.owner = Nobody
      BY DEF Nothing, Made
    <3>2. UNCHANGED stage
      BY <1>3, Zenon DEF Looks, ServeStep, Checks, CannotServe, Owns, FindsServed, FindsUnnamed, Binds, CannotBind,
         Stops, CannotTake, Interrupted, Killed
    <3>3. UNCHANGED kb \/ kb' = [kb EXCEPT !["root"].owner = r] \/ kb' = Freed(r) \/ NamedBy(r)
      BY <1>3, Zenon DEF Looks, ServeStep, Checks, CannotServe, Owns, FindsServed, FindsUnnamed, Binds, CannotBind,
         Stops, CannotTake, Interrupted, Killed
    <3> QED
      BY <1>0, <3>1, <3>2, <3>3, Zenon DEF Freed, NamedBy
  <2>2. /\ at'[r] \in {"making", "looking"} => r \in Inits
        /\ at'[r] # "staging"
        /\ r \in Staged /\ at[r] \in InStage => at'[r] \in {"clearing", "killed"}
        /\ at[r] # "killed"
    BY <1>0, <1>3 DEF Looks, ServeStep, Checks, CannotServe, Owns, FindsServed, FindsUnnamed, Binds, CannotBind,
       Stops, CannotTake, Interrupted, Killed, Steps, Says, GivesBack, Goes, InStage, Starting, Opening, Busy
  <2> QED
    BY <1>0, <1>1, <2>1, <2>2, StageGoesOn DEF StageInv, InStage
<1> QED
  BY <1>2, <1>3

LEMMA StageKept == IInv /\ (Alone => StageInv) /\ [Next]_vars => (Alone => StageInv)'
<1> SUFFICES ASSUME IInv, Alone, StageInv, [Next]_vars PROVE StageInv'
  BY TogetherKept DEF Alone
<1>1. CASE UNCHANGED vars
  BY <1>1 DEF vars, StageInv
<1>2. CASE Changes
  <2>1. kb'["stage"] = kb["stage"] /\ UNCHANGED <<at, stage>>
    BY <1>2 DEF Changes, IInv, TypeOK
  <2> QED
    BY <2>1 DEF StageInv
<1> QED
  BY <1>1, <1>2, StageStarting, StageServing DEF Next

-----------------------------------------------------------------------------
(* What these come to.                                                     *)

LEMMA AloneStart == Init => (Alone => RootInv) /\ (Alone => StageInv)
<1> SUFFICES ASSUME Init PROVE RootInv /\ StageInv
  OBVIOUS
<1>1. /\ \A r \in Runs : at[r] = "idle" /\ said[r] = "nothing"
      /\ mine = {} /\ kb["root"] = Nothing /\ kb["stage"] = Nothing /\ ~stage
      /\ Starters \subseteq Runs /\ Inits \subseteq Runs /\ Serves \subseteq Runs /\ Staged \subseteq Runs
  BY DEF Init, Runs, Starters, Staged
<1>2. kb["root"].by = Nobody /\ \A r \in Starters : r # Nobody
  BY <1>1, NobodyAssumption DEF Nothing, Made
<1>3. RootInv
  BY <1>1, <1>2 DEF RootInv, Unmade, Claim, Answered, Placed, Opened, ForServing, Opening
<1>4. StageInv
  BY <1>1 DEF StageInv
<1> QED
  BY <1>3, <1>4

LEMMA AloneHolds == Spec => [](IInv /\ (Alone => RootInv) /\ (Alone => StageInv))
BY Start, Step, AloneStart, RootKept, StageKept, PTL DEF Spec

(* Alone, a start that was refused or failed, or was interrupted out of    *)
(* sight, has left nothing of its own in the root: what it had made there  *)
(* is removed, and what it placed and could not serve is taken back        *)
(* (staging.py, store.start).                                              *)
THEOREM RootLeftAsFound == Spec => []LeftAsFound
<1>1. IInv /\ (Alone => RootInv) => LeftAsFound
  <2> SUFFICES ASSUME IInv, RootInv, NEW r \in Starters, kb["root"].by = r, at[r] = "ended",
                      said[r] \in {"refused", "escaped"} \cup (IF r \in Staged THEN {"stopped"} ELSE {})
               PROVE  FALSE
    BY DEF LeftAsFound
  <2>1. Claim(r)
    BY DEF RootInv
  <2>2. r \in mine => r \in Serves
    BY DEF IInv, TypeOK
  <2>3. r \in Inits => said[r] # "stopped"
    BY KindsAssumption
  <2> QED
    BY <2>1, <2>2, <2>3 DEF Claim
<1> QED
  BY <1>1, AloneHolds, PTL

(* Alone, a staged start works in a place that was cleared for it, on      *)
(* nothing but what it made; and the staging place is there only while one *)
(* is under way, or after one was killed in it (staging.py).               *)
THEOREM WorksOnItsOwn == Spec => []OwnWork
<1>1. IInv /\ (Alone => StageInv) => OwnWork
  <2> SUFFICES ASSUME IInv, StageInv, Alone
               PROVE  /\ \A r \in Staged \ mine :
                           /\ at[r] = "staging" => ~stage
                           /\ at[r] \in {"looking", "making"} => kb["stage"] = Nothing
                           /\ at[r] \in {"database", "filling", "marking", "seeding", "placing"} => kb["stage"].by = r
                      /\ stage => \E r \in Staged : UnderWay(r) \/ at[r] = "killed"
    BY DEF OwnWork
  <2>1. \A r \in Staged : r \in Starters /\ Place(r) = "stage"
    BY KindsAssumption DEF Starters, Place
  <2>2. \A r \in Staged : at[r] \in {"database", "filling", "marking", "seeding", "placing"} => kb["stage"].by = r
    BY <2>1 DEF IInv, Course
  <2>3. \A r \in Staged : at[r] \in InStage => UnderWay(r)
    BY <2>1 DEF UnderWay, InStage, Busy, Starting
  <2> QED
    BY <2>2, <2>3 DEF StageInv
<1> QED
  BY <1>1, AloneHolds, PTL

(* Alone, a store whose start was answered is there from then on: no later *)
(* start, refusal, server or kill takes it from the root (cli.py).         *)
THEOREM AnsweredStays == Spec => []StartedStays
<1>1. (Alone => RootInv) => StartedStays
  BY DEF RootInv, Answered, StartedStays
<1> QED
  BY <1>1, AloneHolds, PTL

(* Of starts made at once, those that start in place are not under way     *)
(* unless they are among them; and only a run that placed a store takes it.*)
Apart ==
  /\ together \cap Inits = {} /\ ~Alone => \A r \in Inits : at[r] = "idle"
  /\ \A r \in Starters : at[r] = "taking" => r \in mine

LEMMA ApartKept == IInv /\ Apart /\ [Next]_vars => Apart'
<1> SUFFICES ASSUME IInv, Apart, [Next]_vars PROVE Apart'
  OBVIOUS
<1>0. /\ at \in [Runs -> Busy \cup {"idle", "serving", "ended", "killed"}] /\ TypeOK
      /\ UNCHANGED together /\ Inits \subseteq Runs /\ Starters \subseteq Runs
      /\ Inits \cap Hosts = {} /\ Inits \cap Serves = {}
  BY TogetherKept, KindsAssumption DEF IInv, TypeOK, Runs, Starters, Staged
<1>1. CASE UNCHANGED vars \/ Changes
  BY <1>0, <1>1 DEF vars, Changes, Apart, Alone
<1>2. ASSUME NEW r \in Runs, Looks(r) \/ StartStep(r) \/ ServeStep(r) \/ Interrupted(r) \/ Killed(r)
      PROVE  Apart'
  <2>1. OthersSame(r)
    BY <1>0, <1>2, StepsAlone
  <2>2. r \in Inits /\ together \cap Inits = {} /\ ~Alone => at[r] # "idle" \/ at'[r] = "idle"
    <3>1. CASE Looks(r)
      BY <3>1 DEF Looks, Waits, Alone, Starters
    <3>2. CASE ~Looks(r)
      <4>1. CASE StartStep(r)
        BY <4>1 DEF StartStep, Empties, MakesStage, CannotStage, LooksInside, MakesDir, CannotMakeDir, MakesDatabase,
           Fills, Conflicts, Marks, Breaks, Sows, Unsown, Places, Put, CannotPlace, Clears, Cleared, Steps, Says,
           Fails, Goes
      <4>2. CASE ServeStep(r) \/ Interrupted(r) \/ Killed(r)
        BY <4>2 DEF ServeStep, Checks, CannotServe, Owns, FindsServed, FindsUnnamed, Binds, CannotBind, Stops,
           Takes, CannotTake, Interrupted, Killed, Steps, Says, GivesBack, Goes, Starting, Opening, Busy
      <4> QED
        BY <1>2, <3>2, <4>1, <4>2
    <3> QED
      BY <3>1, <3>2
  <2>3. at'[r] = "taking" => r \in mine /\ r \in mine'
    <3>1. CASE MakesStage(r)
      BY <1>0, <3>1 DEF MakesStage, Steps, Goes
    <3>2. CASE ~MakesStage(r)
      <4>1. CASE StartStep(r)
        BY <1>0, <3>2, <4>1 DEF StartStep, Empties, CannotStage, LooksInside, MakesDir, CannotMakeDir, MakesDatabase,
           Fills, Conflicts, Marks, Breaks, Sows, Unsown, Places, Put, CannotPlace, Clears, Cleared, Steps, Says,
           Fails, Goes
      <4>2. CASE Looks(r) \/ ServeStep(r) \/ Interrupted(r) \/ Killed(r)
        BY <1>0, <4>2 DEF Looks, ServeStep, Checks, CannotServe, Owns, FindsServed, FindsUnnamed, Binds, CannotBind,
           Stops, Takes, CannotTake, Interrupted, Killed, Steps, Says, GivesBack, Goes, Starting, Opening, Busy
      <4> QED
        BY <1>2, <4>1, <4>2
    <3> QED
      BY <3>1, <3>2
  <2> QED
    BY <1>0, <2>1, <2>2, <2>3 DEF Apart, OthersSame, Alone
<1> QED
  BY <1>1, <1>2 DEF Next

(* One step puts nothing over a store, nor takes it but to take it back.   *)
LEMMA OverNone ==
  ASSUME IInv, Alone => RootInv, Apart, together \cap Inits = {}, [Next]_vars,
         kb["root"].marked, kb'["root"].by # kb["root"].by
  PROVE  kb'["root"] = Nothing /\ \E r \in mine : at[r] = "taking"
<1>0. /\ at \in [Runs -> Busy \cup {"idle", "serving", "ended", "killed"}] /\ TypeOK
      /\ kb \in [{"root", "stage"} -> Dirs] /\ "root" # "stage" /\ kb["root"] \in Dirs
  BY DEF IInv, TypeOK
<1>1. ~UNCHANGED vars
  BY DEF vars
<1>2. ~Changes
  <2>1. Changes => SameMaking(kb["root"], kb'["root"])
    <3> SUFFICES ASSUME Changes PROVE SameMaking(kb["root"], kb'["root"])
      OBVIOUS
    <3>1. kb' = [kb EXCEPT !["root"].changed = TRUE]
      BY Zenon DEF Changes
    <3> QED
      BY <1>0, <3>1, ServingKeeps, Zenon DEF Kept
  <2> QED
    BY <2>1 DEF SameMaking
<1>3. PICK r \in Runs : Looks(r) \/ StartStep(r) \/ ServeStep(r) \/ Interrupted(r) \/ Killed(r)
  BY <1>1, <1>2 DEF Next
<1>4. CASE Takes(r)
  <2>1. kb'["root"] = Nothing /\ at[r] = "taking"
    BY <1>0, <1>4, Zenon DEF Takes, Steps, Goes
  <2>2. r \in mine
    BY <2>1 DEF Apart, IInv, Kinds, Runs
  <2> QED
    BY <2>1, <2>2
<1>5. CASE StartStep(r)
  <2>1. CASE r \in Inits
    <3>0. Place(r) = "root" /\ at[r] \notin {"emptying", "staging", "looking", "seeding", "placing", "clearing"}
      BY <2>1 DEF Place, IInv, Kinds
    <3>1. MakesDir(r) \/ CannotMakeDir(r) \/ MakesDatabase(r) \/ Fills(r) \/ Conflicts(r) \/ Marks(r) \/ Breaks(r)
      BY <1>5, <3>0, Zenon DEF StartStep, Empties, MakesStage, CannotStage, LooksInside, Sows, Unsown, Places, Put,
         CannotPlace, Clears, Cleared, Steps, Says, Fails, Goes
    <3>2. ~MakesDir(r)
      BY <3>0 DEF MakesDir, Nothing, Made
    <3>3. ~Breaks(r)
      <4>1. Breaks(r) => at[r] \in {"database", "filling", "marking"}
        BY Zenon DEF Breaks, Fails, Says, Goes
      <4>2. at[r] \in {"database", "filling", "marking"} => Alone /\ ~kb["root"].marked
        BY <2>1 DEF Apart, RootInv, Unmade
      <4> QED
        BY <4>1, <4>2
    <3>4. ~(CannotMakeDir(r) \/ Conflicts(r))
      BY DEF CannotMakeDir, Conflicts
    <3>5. CASE MakesDatabase(r) \/ Fills(r)
      <4>1. kb'["root"] \in {[kb["root"] EXCEPT !.db = "made"], [kb["root"] EXCEPT !.db = "filled"]}
        BY <1>0, <3>0, <3>5, Zenon DEF MakesDatabase, Fills
      <4> QED
        BY <1>0, <4>1, Refilled
    <3>6. CASE Marks(r)
      <4>1. kb'["root"] = [kb["root"] EXCEPT !.marked = TRUE]
        BY <1>0, <3>0, <3>6, Zenon DEF Marks
      <4> QED
        BY <1>0, <4>1, Remarked
    <3> QED
      BY <3>1, <3>2, <3>3, <3>4, <3>5, <3>6
  <2>2. CASE r \notin Inits
    <3>1. Place(r) = "stage"
      BY <2>2 DEF Place
    <3>2. Places(r)
      <4>1. ~Places(r) => kb'["root"] = kb["root"]
        BY <1>0, <1>5, <3>1, Zenon DEF StartStep, Empties, MakesStage, CannotStage, LooksInside, MakesDir,
           CannotMakeDir, MakesDatabase, Fills, Conflicts, Marks, Breaks, Sows, Unsown, CannotPlace, Clears
      <4> QED
        BY <4>1
    <3> QED
      BY <3>2 DEF Places, Vacant, Nothing, Made
  <2> QED
    BY <2>1, <2>2
<1>6. CASE ~Takes(r) /\ ~StartStep(r)
  <2>1. SameMaking(kb["root"], kb'["root"])
    BY <1>0, <1>3, <1>6, KeptAs DEF ServeStep
  <2> QED
    BY <2>1 DEF SameMaking
<1> QED
  BY <1>4, <1>5, <1>6

(* A store is never started over another by starts made one at a time, or  *)
(* by staged ones at once, one rename each: only its own start takes it    *)
(* out (store.py).  A start in place among those made at once is what run  *)
(* staging_over shows.                                                     *)
THEOREM StartedOverNone == Spec /\ together \cap Inits = {} => NeverOver
<1>1. Init => Apart
  BY DEF Init, Apart, Runs, Starters
<1>2. Spec => []Apart
  BY <1>1, AloneHolds, ApartKept, PTL DEF Spec
<1>3. together \cap Inits = {} /\ [Next]_vars => (together \cap Inits = {})'
  BY TogetherKept
<1>4. Spec /\ together \cap Inits = {} => [](together \cap Inits = {})
  BY <1>3, PTL DEF Spec
<1>5. IInv /\ (Alone => RootInv) /\ Apart /\ together \cap Inits = {} /\ [Next]_vars
      => [kb["root"].marked /\ kb'["root"].by # kb["root"].by =>
            kb'["root"] = Nothing /\ \E r \in mine : at[r] = "taking"]_vars
  BY OverNone
<1> QED
  BY <1>2, <1>4, <1>5, AloneHolds, PTL DEF Spec, NeverOver
=============================================================================
