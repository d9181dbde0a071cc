------------------------------ MODULE Staging ------------------------------
(***************************************************************************)
(* Stores started inside a root (kb.staging, kb.store): in place (kb init),*)
(* or out of sight in <root>/.kb-starting and put in place by one rename   *)
(* (kb seed, kb restore, kb serve --start), the last taken back out should *)
(* the server not then serve it.  Each step is an operation on files, at   *)
(* which a run may fail, be interrupted, be killed, or meet another run.   *)
(* Removing a tree is one step; the lock on a store moves with the store.  *)
(***************************************************************************)
EXTENDS Naturals

CONSTANTS
  Inits,    (* Runs of kb init, once each, as all runs are.                *)
  Seeds,    (* Runs of kb seed.                                            *)
  Restores, (* Runs of kb restore.                                         *)
  Serves,   (* Runs of kb serve --start.                                   *)
  Hosts,    (* Runs of kb serve, starting nothing.                         *)
  Together, (* The sets of starts made at once; {} for one after another.  *)
  Nobody

Staged == Seeds \cup Restores \cup Serves
Starters == Inits \cup Staged
Runs == Starters \cup Hosts

ASSUME TogetherAssumption == Together \subseteq SUBSET Starters
ASSUME NobodyAssumption == Nobody \notin Runs
ASSUME KindsAssumption ==
  /\ Inits \cap (Staged \cup Hosts) = {}
  /\ Seeds \cap (Restores \cup Serves \cup Hosts) = {}
  /\ Restores \cap (Serves \cup Hosts) = {}
  /\ Serves \cap Hosts = {}

VARIABLES
  kb,     (* The directory kb/ in the root and in the staging place.       *)
  stage,  (* Whether the staging place is there.                           *)
  at,     (* Where each run is.                                            *)
  said,   (* What each has answered.                                       *)
  mine,   (* The runs that placed a store for themselves to serve, unkept. *)
  together (* The starts made at once and no others, or {} for one by one.   *)

vars == <<kb, stage, at, said, mine, together>>

Dirs == [by: Runs \cup {Nobody}, db: {"none", "made", "filled"}, marked: BOOLEAN, seeded: BOOLEAN,
         owner: Runs \cup {Nobody}, named: BOOLEAN, changed: BOOLEAN]

Made(r) == [by |-> r, db |-> "none", marked |-> FALSE, seeded |-> FALSE,
            owner |-> Nobody, named |-> FALSE, changed |-> FALSE]

(* No directory there: each one that is was made by a run.                 *)
Nothing == Made(Nobody)

Starting == {"emptying", "staging", "looking", "making", "database", "filling", "marking", "seeding", "placing"}
Opening == {"checking", "owning", "binding"}
Busy == Starting \cup Opening \cup {"clearing", "taking"}

(* Every run is somewhere in its course, and every place holds a directory *)
(* or none; the staging place holds none while it is not there.            *)
TypeOK ==
  /\ kb \in [{"root", "stage"} -> Dirs]
  /\ stage \in BOOLEAN
  /\ at \in [Runs -> Busy \cup {"idle", "serving", "ended", "killed"}]
  /\ said \in [Runs -> {"nothing", "done", "refused", "escaped", "served", "stopped", "broken"}]
  /\ mine \subseteq Serves
  /\ together \in Together

Init ==
  /\ kb = [p \in {"root", "stage"} |-> Nothing]
  /\ stage = FALSE
  /\ at = [r \in Runs |-> "idle"]
  /\ said = [r \in Runs |-> "nothing"]
  /\ mine = {}
  /\ together \in Together

-----------------------------------------------------------------------------
(* Where a run goes.                                                       *)

UnderWay(r) == r \in Starters /\ at[r] \in Busy

Place(r) == IF r \in Inits THEN "root" ELSE "stage"

Goes(r, from, to) == at[r] = from /\ at' = [at EXCEPT ![r] = to] /\ UNCHANGED together

(* A run that goes on having said nothing, having made nothing of its own. *)
Steps(r, from, to) == Goes(r, from, to) /\ UNCHANGED <<said, mine>>

Says(r, from, to, answer) ==
  /\ Goes(r, from, to)
  /\ said' = [said EXCEPT ![r] = answer]

(* A start refused: a staged one's place is cleared on its way out.        *)
Fails(r, from) ==
  /\ Says(r, from, IF r \in Inits THEN "ended" ELSE "clearing", "refused")
  /\ UNCHANGED mine

(* A run that will not serve: what it placed is taken back first.          *)
GivesBack(r, from, answer) ==
  /\ Says(r, from, IF r \in mine THEN "emptying" ELSE "ended", answer)
  /\ UNCHANGED mine

Freed(r) == [p \in {"root", "stage"} |-> IF kb[p].owner = r THEN [kb[p] EXCEPT !.owner = Nobody] ELSE kb[p]]

-----------------------------------------------------------------------------
(* Where a store would go is looked at; a staged start clears and makes    *)
(* the staging place, and looks again as a store is started there.         *)

Waits(r) ==
  r \in Starters /\ IF together = {} THEN \E other \in Runs \ {r} : UnderWay(other) ELSE r \notin together

Looks(r) ==
  /\ ~Waits(r)
  /\ \/ /\ r \in Hosts \/ (r \in Serves /\ kb["root"].marked)
        /\ Steps(r, "idle", "checking")
     \/ /\ r \in Starters /\ kb["root"] = Nothing
        /\ Steps(r, "idle", IF r \in Inits THEN "making" ELSE "emptying")
     \/ /\ r \in Starters \ Serves \/ (r \in Serves /\ ~kb["root"].marked)
        /\ Says(r, "idle", "ended", "refused")
        /\ UNCHANGED mine
  /\ UNCHANGED <<kb, stage>>

(* Mutated: what an earlier run left is cleared only when one ends.        *)
EmptiesNothing(r) ==
  /\ Steps(r, "emptying", "staging")
  /\ UNCHANGED <<kb, stage>>

Empties(r) ==
  /\ Steps(r, "emptying", "staging")
  /\ stage' = FALSE
  /\ kb' = [kb EXCEPT !["stage"] = Nothing]

MakesStage(r) ==
  /\ ~stage
  /\ Steps(r, "staging", IF r \in mine THEN "taking" ELSE IF r \in Restores THEN "making" ELSE "looking")
  /\ stage' = TRUE
  /\ UNCHANGED kb

(* It is there again by now, or the disk refuses.                          *)
CannotStage(r) ==
  /\ Says(r, "staging", "ended", IF r \in mine THEN "broken" ELSE "refused")
  /\ UNCHANGED <<kb, stage, mine>>

(* vacant, of the staging place: refused inside a store, or over anything. *)
LooksInside(r) ==
  /\ \/ ~kb["root"].marked /\ kb["stage"] = Nothing /\ Steps(r, "looking", "making")
     \/ Fails(r, "looking")
  /\ UNCHANGED <<kb, stage>>

-----------------------------------------------------------------------------
(* A store made where the run makes it.                                    *)

MakesDir(r) ==
  /\ kb[Place(r)] = Nothing
  /\ r \in Staged => stage
  /\ Steps(r, "making", "database")
  /\ kb' = [kb EXCEPT ![Place(r)] = Made(r)]
  /\ UNCHANGED stage

(* Raised before what removes the place: what is there is left.            *)
CannotMakeDir(r) ==
  /\ Fails(r, "making")
  /\ UNCHANGED <<kb, stage>>

MakesDatabase(r) ==
  /\ kb[Place(r)] # Nothing /\ kb[Place(r)].db = "none"
  /\ Steps(r, "database", "filling")
  /\ kb' = [kb EXCEPT ![Place(r)].db = "made"]
  /\ UNCHANGED stage

(* A restore's copy is written over what the database holds.               *)
Fills(r) ==
  /\ kb[Place(r)].db \in (IF r \in Restores THEN {"made", "filled"} ELSE {"made"})
  /\ Steps(r, "filling", "marking")
  /\ kb' = [kb EXCEPT ![Place(r)].db = "filled"]
  /\ UNCHANGED stage

(* The first artifact is there already: a conflict, which removes nothing. *)
Conflicts(r) ==
  /\ r \notin Restores /\ kb[Place(r)].db = "filled"
  /\ Fails(r, "filling")
  /\ UNCHANGED <<kb, stage>>

Marks(r) ==
  /\ kb[Place(r)] # Nothing
  /\ kb' = [kb EXCEPT ![Place(r)].marked = TRUE]
  /\ IF r \in Inits
       THEN Says(r, "marking", "ended", "done") /\ UNCHANGED mine
       ELSE Steps(r, "marking", IF r \in Seeds THEN "seeding" ELSE "placing")
  /\ UNCHANGED stage

(* Mutated: an error in the making leaves what was made.                   *)
BreaksLeaving(r) ==
  /\ \E step \in {"database", "filling", "marking"} : Fails(r, step)
  /\ UNCHANGED <<kb, stage>>

(* The database or the marker cannot be made: the place is removed.        *)
Breaks(r) ==
  /\ \E step \in {"database", "filling", "marking"} : Fails(r, step)
  /\ kb' = [kb EXCEPT ![Place(r)] = Nothing]
  /\ UNCHANGED stage

(* The seed's import, one set landed in the store just started, or none.   *)
Sows(r) ==
  /\ kb["stage"].marked /\ kb["stage"].db = "filled"
  /\ Steps(r, "seeding", "placing")
  /\ kb' = [kb EXCEPT !["stage"].seeded = TRUE]
  /\ UNCHANGED stage

(* Mutated: placed whatever the import answered.                           *)
UnsownPlaced(r) ==
  /\ Steps(r, "seeding", "placing")
  /\ UNCHANGED <<kb, stage>>

Unsown(r) ==
  /\ Fails(r, "seeding")
  /\ UNCHANGED <<kb, stage>>

-----------------------------------------------------------------------------
(* It is put in place by one rename, which goes over an empty directory    *)
(* too; the staging place is removed whatever came of the start.           *)

Vacant(dir) == dir = Nothing \/ (dir.db = "none" /\ ~dir.marked /\ ~dir.named /\ dir.owner = Nobody)

Put(r) ==
  /\ kb' = [kb EXCEPT !["root"] = kb["stage"], !["stage"] = Nothing]
  /\ IF r \in Serves
       THEN Goes(r, "placing", "clearing") /\ mine' = mine \cup {r} /\ UNCHANGED said
       ELSE Says(r, "placing", "clearing", "done") /\ UNCHANGED mine
  /\ UNCHANGED stage

(* Mutated: moved over whatever is there.                                  *)
PlacesOver(r) == kb["stage"] # Nothing /\ Put(r)

Places(r) == kb["stage"] # Nothing /\ Vacant(kb["root"]) /\ Put(r)

CannotPlace(r) ==
  /\ Fails(r, "placing")
  /\ UNCHANGED <<kb, stage>>

Cleared(r) == Steps(r, "clearing", IF r \in mine /\ said[r] = "nothing" THEN "checking" ELSE "ended")

Clears(r) ==
  /\ Cleared(r)
  /\ stage' = FALSE
  /\ kb' = [kb EXCEPT !["stage"] = Nothing]

-----------------------------------------------------------------------------
(* A server's start over the root, given outright (Serving tells its lock  *)
(* apart); what it placed and could not serve goes out as it came in.      *)

Checks(r) ==
  /\ kb["root"].marked /\ kb["root"].db = "filled"
  /\ Steps(r, "checking", "owning")
  /\ UNCHANGED <<kb, stage>>

(* No store there by now, or none that can be opened and read.             *)
CannotServe(r) ==
  /\ ~kb["root"].marked \/ kb["root"].db # "filled"
  /\ GivesBack(r, "checking", "refused")
  /\ UNCHANGED <<kb, stage>>

Owns(r) ==
  /\ kb["root"] # Nothing /\ kb["root"].owner = Nobody
  /\ Steps(r, "owning", "binding")
  /\ kb' = [kb EXCEPT !["root"].owner = r]
  /\ UNCHANGED stage

(* Refused as served: the store is its server's, placed by this run or not.*)
FindsServed(r) ==
  /\ kb["root"].owner # Nobody /\ kb["root"].named
  /\ Says(r, "owning", "ended", "served")
  /\ mine' = mine \ {r}
  /\ UNCHANGED <<kb, stage>>

(* No file to lock, or one that names nobody yet: raised, but not refused. *)
FindsUnnamed(r) ==
  /\ kb["root"] = Nothing \/ (kb["root"].owner # Nobody /\ ~kb["root"].named)
  /\ GivesBack(r, "owning", "escaped")
  /\ UNCHANGED <<kb, stage>>

NamedBy(r) ==
  kb' = [p \in {"root", "stage"} |-> IF kb[p].owner = r THEN [kb[p] EXCEPT !.named = TRUE] ELSE kb[p]]

(* Mutated: the store it serves not kept.                                  *)
BindsUnkept(r) ==
  /\ GivesBack(r, "binding", "done")
  /\ NamedBy(r)
  /\ UNCHANGED stage

(* Bound, named and answering: the store is kept.                          *)
Binds(r) ==
  /\ Says(r, "binding", "serving", "done")
  /\ NamedBy(r)
  /\ mine' = mine \ {r}
  /\ UNCHANGED stage

CannotBind(r) ==
  /\ GivesBack(r, "binding", "refused")
  /\ kb' = Freed(r)
  /\ UNCHANGED stage

Stops(r) ==
  /\ Steps(r, "serving", "ended")
  /\ kb' = Freed(r)
  /\ UNCHANGED stage

(* _taken_back: out to the staging place by one rename, and removed.       *)
Takes(r) ==
  /\ kb["root"] # Nothing /\ stage /\ Vacant(kb["stage"])
  /\ Steps(r, "taking", "clearing")
  /\ kb' = [kb EXCEPT !["root"] = Nothing, !["stage"] = kb["root"]]
  /\ UNCHANGED stage

CannotTake(r) ==
  /\ Says(r, "taking", "clearing", "broken")
  /\ UNCHANGED <<kb, stage, mine>>

-----------------------------------------------------------------------------
(* What happens to any run.                                                *)

(* Ctrl-C: no error a start's making answers, so an init leaves what it    *)
(* made; a staged run is cleared, and a store not served yet taken back.   *)
Interrupted(r) ==
  /\ \/ /\ \E step \in Starting \ {"emptying", "staging"} :
             Says(r, step, IF r \in Inits THEN "ended" ELSE "clearing", "stopped")
        /\ UNCHANGED mine
     \/ \E step \in Opening : GivesBack(r, step, "stopped")
  /\ kb' = Freed(r)
  /\ UNCHANGED stage

(* The process killed, or interrupted as it takes back or clears up.       *)
Killed(r) ==
  /\ \E step \in Busy \cup {"serving"} : Steps(r, step, "killed")
  /\ kb' = Freed(r)
  /\ UNCHANGED stage

(* A change asked of the store directly, by no run of these.               *)
Changes ==
  /\ kb["root"].marked /\ kb["root"].owner = Nobody /\ ~kb["root"].changed
  /\ kb' = [kb EXCEPT !["root"].changed = TRUE]
  /\ UNCHANGED <<stage, at, said, mine, together>>

StartStep(r) ==
  \/ Empties(r) \/ MakesStage(r) \/ CannotStage(r) \/ LooksInside(r)
  \/ MakesDir(r) \/ CannotMakeDir(r) \/ MakesDatabase(r) \/ Fills(r) \/ Conflicts(r)
  \/ Marks(r) \/ Breaks(r) \/ Sows(r) \/ Unsown(r) \/ Places(r) \/ CannotPlace(r) \/ Clears(r)

ServeStep(r) ==
  \/ Checks(r) \/ CannotServe(r) \/ Owns(r) \/ FindsServed(r) \/ FindsUnnamed(r)
  \/ Binds(r) \/ CannotBind(r) \/ Stops(r) \/ Takes(r) \/ CannotTake(r)

Next ==
  \/ \E r \in Runs : Looks(r) \/ StartStep(r) \/ ServeStep(r) \/ Interrupted(r) \/ Killed(r)
  \/ Changes

Spec == Init /\ [][Next]_vars

-----------------------------------------------------------------------------
(* What a start promises, with no other start under way.                   *)

Alone == together = {}

Whole(dir) == dir.marked /\ dir.db = "filled" /\ (dir.by \in Seeds => dir.seeded)

(* The root holds no store or the whole of one (staging.py:3):              *)
(* what a staged run put there is whole, and nothing there is marked as a  *)
(* store before it is one, whatever failed, or was stopped, on the way.    *)
RootWhole ==
  /\ kb["root"].by \in Staged => Whole(kb["root"])
  /\ kb["root"].marked => Whole(kb["root"])

PlacedWhole == Alone => RootWhole

(* A start that was refused, failed, or was interrupted out of sight left  *)
(* nothing of its own in the root (staging.py:36, store.py:123): not what  *)
(* it had made, and not the store it placed and could not serve.           *)
LeftAsFound == Alone =>
  \A r \in Starters :
    at[r] = "ended" /\ said[r] \in {"refused", "escaped"} \cup (IF r \in Staged THEN {"stopped"} ELSE {})
      => kb["root"].by # r

(* A staged start works on nothing but what it made: what a killed run left*)
(* is removed before it looks, and blocks no start after it (staging.py:6);*)
(* and the staging place is gone once no start is under way, placed or     *)
(* refused (staging.py:7), but where a run was killed in it.               *)
OwnWork == Alone =>
  /\ \A r \in Staged \ mine :
       /\ at[r] = "staging" => ~stage
       /\ at[r] \in {"looking", "making"} => kb["stage"] = Nothing
       /\ at[r] \in {"database", "filling", "marking", "seeding", "placing"} => kb["stage"].by = r
  /\ stage => \E r \in Staged : UnderWay(r) \/ at[r] = "killed"

(* A store whose start was answered stays (staging.py:34, cli.py:130): no  *)
(* later start, refusal or server takes it from the root.                  *)
StartedStays == Alone =>
  \A r \in Starters : said[r] = "done" => kb["root"].marked /\ (r \notin Serves => kb["root"].by = r)

(* "A store is never started over another" (store.py:153), by starts staged*)
(* at once either: a store in the root leaves it only by the start that    *)
(* placed it to serve it, and no other takes its place meanwhile.          *)
NeverOver ==
  [][kb["root"].marked /\ kb'["root"].by # kb["root"].by =>
       kb'["root"] = Nothing /\ \E r \in mine : at[r] = "taking"]_vars

(* "... another server owning the store, which leaves the store to the     *)
(* server that owns it" (staging.py:37): a run that finds the store it     *)
(* placed owned by another server leaves it there, however it is told so.  *)
LeftToItsServer ==
  [][\A r \in mine : at[r] = "owning" /\ kb["root"].owner # Nobody
       => said'[r] \in {"nothing", "stopped"} \/ r \notin mine']_vars

(* "leaving root as it found it" (staging.py:36): a store taken back has   *)
(* had no change landed in it by anyone else.                              *)
ChangesStay == [][kb["root"].changed => kb'["root"].changed]_vars
=============================================================================
