# kb, specified

TLA+ specifications of kb (`src/`), the schema-typed, graph-shaped artifact store over SQLite, with the
configurations TLC checks them under and the proofs TLAPS checks of them. Every definition is translated from the
Python under `src/src/kb/`; the documents under `src/spec/` and `src/README.md` are used only to say what the code is
meant to do.

## The system

A *store* is a directory `kb/` holding one SQLite database (WAL) with tables of artifacts, their versions, their links
and parts, the types and their versions, the sets that landed and the history's entries. *Artifacts* are named by IRIs;
an artifact's IRI sits under its type's; a type is an artifact itself. A *change* is asked as a set of operations of one
kind (create, replace, add, remove), each landing whole or not at all.

| part | source | state | operations | hard about it |
| --- | --- | --- | --- | --- |
| write path | `write` `draft` `drafting` `edits` `naming` `composition` | the draft of one call | `land`, `checked`, `record` | drafted by reads outside any transaction; drafted again under the write lock on a conflict |
| SQLite port | `port` `sqlite_store` `sqlite_checks` `sqlite_reads` `sqlite_types` | the database, SQLite's write lock | `land`, `exclusive`, `at_one_moment` | revisions compared inside the transaction; waits for the lock that run out |
| integrity | `sqlite_checks` `handing` `links` `standing` `validation` | links, parts, kinds, links that wait | the checks of a landing | a link is judged by the draft, then again by the landing, over what landed between |
| journal | `journal` | entry ids | `stamps`, `minted`, `change`, `snapshot` | ids minted outside the transaction from clocks that may agree |
| serving | `server` `served` `network` `client` `boundary` | the `flock` on `kb/served.yaml`, its text, tickets, workers | `owned`, `mark`, `unserved`, `InOrder`, `stop` | probes, starts, direct callers and remote callers race; a server killed or stopping |
| starting and staging | `staging` `starting` `store` `cli` `backups` | the files under a root | `started`, `seeded`, `restored`, `serving`, `start` | several file operations, each a place to be killed or met by another start |
| backup, export, snapshots | `sqlite_backup` `backups` `export` `boundary` `write.record` | a file, a stream, an entry | `copied`, `copied_out`, `taken`, `streamed`, `record` | one moment of the store across many reads; a copy cut short |
| import | `importing` `examining` `comparing` `skipping` `judging` `offers` `item_names` | a directory, what its check found | `imported`, `examined`, `skipped`, `lost` | what the check passes must land; a file that leads to a broken one, by any chain |
| reads | `read` `query` `search` `sqlite_search` `check` `versions` | the rows a search reads | `walk`, `read`, `found`, `placeholders`, `everything` | cycles, depth, links to nothing held; search rows kept in step |
| clients, finding a store | `client` `store` `roots` `network` | none | `locate`, `locate_from`, `where`, `vacant` | upward search and marker read apart, over a tree that changes |
| contract and conversions | `contract/` `requests` `responses` `values` `canonical` `signatures` `metaschema` `keywords` and others | none | conversions | generated code and formatting: not modelled |

Interactions: a client finds a store or a connection above it (`client`, `store`); over a store it calls the servicer in
its own process, over a connection the one a server hosts; every call goes through `boundary`, which opens the store for
that call alone; a change runs the write path over the port; the operator's commands start, seed, restore, back up,
export and import stores and serve them.

What makes each part right: the write path loses no change, lands a set whole and once and over what it read; the
history is unbroken and its ids unique; links land on what they may; a store is served by one server at a time, which
takes changes in order; a root holds no store or the whole of one; a backup and an export are of one moment.

## Modules

### Landing (`Landing.tla`, checked through `MCLanding.tla`)

One action for each statement or transaction of a call: the draft's reads (`FindsHeld`, `ComparesExpected`,
`ReadsCurrent`, `FindsTypeHeld`, `ReadsType`, `FindsFree`), the checks of the whole set (`Checks`), the minting of ids
(`Mints`), the landing transaction with its checks in the code's order (`Lands`), the write lock taken and the set
drafted anew (`Relocks`), a wait that runs out (`GivesUp`), the answer, and a process killed anywhere (`Crashes`).
SQLite's connection is in autocommit mode (`sqlite_store.opened`), so every read of a draft is a moment of its own;
that is what the model interleaves.

What is abstracted. An artifact's content is the set of the calls whose text is in it: a create or a replace leaves its
own, an add leaves its own beside what it read, which is all that losing a change or applying one twice can show. A type
is the revision it was read at; one outcome, conforming or not, stands for its schema. Ids are a moment and a number
within it, as `journal.minted` makes them, over clocks that may agree, repeat or run backwards (`Moments`). Each read of
the draft is a statement; two reads of one row in one statement are one. A set is refused at its first fault: the code
gathers a set's faults, which changes the wording only. Links other than the one to an artifact's type, parts and
placement are left to `Integrity`, imports to `Importing`, snapshots to `Moments`; dry runs (`write.checked`) land
nothing and are not in it.

`SerialStore.tla` is the abstract specification: every set lands as if asked alone of the store as it stands, or is
refused because it could not be applied to it, or fails having written nothing. `LandingSerial.tla` holds the refinement
mapping; the property `LandsSerially` is the abstract specification under it. Run `landing` checks it of sets that expect
no revision, and `LandsAsIfAlone` proves it of such sets. Where a change expects the revision that an earlier change of its own set is to leave, a set may be refused
by what a read before another's landing said, although it could be applied as the store stands when it is refused.

### InOrder and Turns (`InOrder.tla`, checked through `MCInOrder.tla`)

`server.InOrder`, the lock a server's changes are taken under, wake-up by wake-up: a ticket is drawn under the
condition's mutex, a thread sleeps until woken, and a woken thread goes in only if its ticket is the one being served.
`Turns.tla` is what it promises, a queue; `FirstComeFirstIn` is that specification, with its fairness, under the mapping
in `InOrder`. `Last` bounds the tickets drawn in a run.

### Serving (`Serving.tla`)

Three kinds of actor over one store: servers (`Server.__init__`, `start`, `stop`, and a kill at any point), calls asked
of a server over the network (changes, and streamed exports that hold a worker until their readers close them), and
changes asked of the store directly (`served.unserved`). `text` is what `kb/served.yaml` says, `owner` and `shared` its
`flock`, `queue` the turns of each server's lock, which is `Turns`. `flock` and grpc are modelled from how the code uses
them: an exclusive lock asked for without waiting, a pool of `Workers`, a stop that cancels what is in flight after the
grace while the workers go on. A server's binding and the emptying of the file are one step, and so are its mark and
the start of answering: nothing outside reads between them what it does not read before or after.

### Staging (`Staging.tla`)

Five kinds of run over one root, each once: `kb init` in place; `kb seed`, `kb restore` and `kb serve --start` staged in
`.kb-starting` and placed by one rename; and `kb serve`, starting nothing. `kb` is the directory `kb/` in the root and in
the staging place - who made it, how far its database has come, its marker, whether its seed landed, who holds the lock
on its `served.yaml` and whether that file names anyone, whether a direct change has landed in it - and a rename moves
all of that, the lock with it. Each action is one operation on files; each may fail (`Cannot...`, `Breaks`, `Conflicts`,
`Unsown`), be interrupted by Ctrl-C (`Interrupted`) or be killed (`Killed`). What a failing step leaves and removes is
the code's: `store.start` removes the place for the errors it catches and for nothing else, and the staging place is
removed as `_staged` ends. `shutil.rmtree` is one step; an interrupt while something is being removed is a kill.

`together` is chosen at the start of a behaviour from the constant `Together`: `{}` is a root whose operator makes one
start at a time, in any order and number; a set of starts is those starts made at once. The code has no lock between
starts, and what it promises with one at a time it does not keep with two; `NeverOver` holds for staged starts at once
too.

### Drafts and Integrity (`Drafts.tla`, `Integrity.tla`, checked through `MCIntegrity.tla`)

`Drafts` is what the code makes of a set of changes over a store, as functions of the store: the nearest held type above
an IRI, what a draft makes of each change (`Drafted`, `Draft`), the checks of the whole set (`Accepts`, `Conform`), what it
hands the port (`Handed`), the port's comparison and checks inside the transaction (`Moved`, `Integral`), what the set
writes (`Put`) and the check of a whole store (`Everything`). Nothing in it is a step. `Integrity` makes it steps: a call judges its set
by one store, hands it by another, lands it over a third, and is drafted anew under the write lock when it conflicts. An
artifact is its revision, the type and the version of it that it conforms to, its links, its parts' places and, of a
type, the versions kept of it with what each reads; a draft's many reads are two moments, the one it is judged at and
the one it is handed at, which is what the two halves of the code's draft can tell apart. How one row is read, stamped
and compared is `Landing`'s.

### Items and Importing (`Items.tla`, `Importing.tla`, checked through `MCImporting.tla`)

`Items` gives the items of a collection their names, at every depth, as `item_names` does: from the title or the place, a
number added when the name is taken, kept afterwards, refused when handed back otherwise. `Importing` takes a directory
of files under one hold of the write lock: `Report` is the examination - files with errors, files that differ from what is
held, files that lead to a broken one - and `Lands` refuses the directory or lands what is left, as one set of `Drafts`.
`Exported` is the directory a store is exported as. Sets and revisions others ask for land between imports (`Changes`,
`Revises`). A file is told by what it says of its artifact, whether it reads as one there, and whether its text and its
content are as kb and its type would have them.

### Queries and Moments (`Queries.tla`, `Moments.tla`, checked through `MCMoments.tla`)

`Queries` is what is asked of a store: walks (`Walked`), lists, reads whole and at a glance (`ReadWhole`, `ReadSummary`),
what waits, and searches over the rows `sqlite_search` keeps (`Searchable`, `Unsearched`, `Found`). `Moments` asks it of a
store others change: a list, a streamed export or a snapshot reads one artifact at a time within a transaction whose
first read fixes what it sees; a snapshot's entry lands after that, or does not; a backup looks at its place, creates the
file, copies the database in one step, checks the copy and marks it last, and fails or is killed in between. `past` is
every moment the store passed through, so what a call was given can be compared with one. Sets land in one step here;
how they do is `Landing`'s. Words are values with a folding (`Folded`) and what a match takes for them (`Alike`), of which
it is assumed that what a match takes alike folds alike.

### Finding (`Finding.tla`, checked through `MCFinding.tla`)

What a call reaches: the search upward one directory at a time (`Searches`), what `KB_ROOT` or the root a client was
readied with makes of it (`Chooses`), what the place found is by then (`Reaches`, or `Tells` for `kb where`), the opening of
its store (`Opens`) and the answer; a start's looking above its directory, its making of its place and its marking,
which are `Staging`'s in detail; connections arranged and removed; stores taken away; directories removed. `still` says
of a call whether the tree stayed as it was while it was made: what a call should reach can only be said of one for
which it did.

## Runs

| run | instance | states | shows |
| --- | --- | --- | --- |
| `landing` | 3 calls, a type and two IRIs below it, eight sets, one moment | 326,914 | serial landing, nothing lost, whole and once, over what was read, ids unique |
| `landing_reused` | 2 calls, a type and an IRI, removed and created again, two moments, expected revisions, fairness | 31,755 | history unbroken, no artifact without its type, expected revisions kept under the lock, every call answered |
| `landing_stale` | 3 calls, IRIs created again | | finding: a change lands over an artifact it never read |
| `in_order` | 4 threads, seven tickets, fairness | 6,298 | queue, exclusion, no lost wake-up, everyone goes in |
| `serving` | 2 servers, 2 changes, 1 stream, 1 direct change, 2 workers, fairness | 303,001 | changes under the lock, the file names the server, answers are true, all answered, a stop lets go |
| `staging` | one run of each kind, one at a time, or seed with serve, or seed with restore, at once | 710,655 | root whole or empty, refused starts leave nothing, each works on its own, started stores stay, none over another |
| `staging_served` | a serve --start and a serve | | finding: a store taken from under the server that owns it |
| `links` | 2 calls, 20 sets over seven IRIs, two types one below the other, revisions to 2 | 350,177 | artifacts belong where they sit, types that are read are held, the check finds nothing, links landed stay, what waits waited before, what lands would be accepted |
| `links_reads` | 2 calls, 3 sets | | finding: a type lands reading a version no longer held |
| `importing` | 280 directories, items nested two deep, skipping errors or not, five sets and five revisions by others | 184,008 | what an import passes lands, held artifacts are kept, skips have causes, stores stay sound and come back from their export |
| `reading` | 2 calls over a store of three moments, three artifacts linked in loops, two places | 781,331 | one moment, backups whole, shortest walks, reads and searches that tell all and only what there is |
| `finding` | 1 caller, three directories in one another and one beside them, three changes of the tree | 2,950,879 | calls go where they mean, stores stay apart |

Why the bounds are enough. A race of the write path needs a caller drafting, one landing beneath it and, for the
second draft under the lock, a third that would get in between: three calls, of sets of one and two operations, reach
every conflict, relock and refusal. Where IRIs and types are created again, two callers reach every way a revision number
comes round, since each asks for set after set; `MCLandingThree.cfg` checks the same safety with three. Two moments let
two ids share one, follow and precede each other. In serving, two servers are needed for one to start, be refused or
take over while the other stops; two changes and a stream over two workers put every worker in use with a change
waiting. In staging each kind of run appears once, and an earlier run's leavings are met by every later kind; starts of
one kind differ only in name. In `links` a set is judged, handed and landed at three moments, and one other caller can
land any number of sets in between; two nested types and an IRI below both is the least in which an IRI changes its
owner, and `MaxRevision` 2 lets every artifact be changed once after it was read. In `importing` the chains a file may be
skipped by have two links; two items deep is the least in which one collection's names must stay apart from another's.
In `reading` walks go three steps, further than the longest shortest route. In `finding` three directories deep lets a
store stand above, at and below the place in question; three changes are the least in which a store is arranged, left
and replaced under one call. `MaxChanges`, `MaxMoments`, `MaxRevision`, `Deepest` and `Last` are bounds and nothing of the
code's; so are, in `Integrity`, that a set changes an artifact once and, there and in `Moments`, that no import brings revision 0,
at which the port takes nothing to be held. Callers and calls are symmetric in the safety runs of `Landing`, `Integrity` and `Moments`; no run that checks
liveness uses symmetry.

Fairness. `Landing.FairSpec`: each caller's thread goes on while it can, its steps waiting for nothing but SQLite's lock,
which its holder gives back; giving up and being killed are never forced. `InOrder.FairSpec`: a thread woken runs, and
one inside comes out. `Serving.FairSpec`: a server's process and a worker's thread run on; a reader of a stream closes
it in the end, which no deadline of kb's ensures - that is an assumption about clients, without which a stream keeps its
worker for good. A server is never bound to be started, stopped or killed. The other modules claim no liveness: what
they model ends by itself, or waits only for the write lock, which `Landing` shows given back.

Deadlock is checked everywhere but in `Staging`, where runs are over once each has ended or been killed.

## What the code does against what it says

Listed as findings, each shown by a run:

- `landing_stale`: the landing compares revision numbers only, so an artifact removed and created again is taken for the
  one that was read.
- `staging_served`: a server that owns the store but has not written its address makes `owned` raise `TypeError`, not
  `Refused`, so `serving` takes the store back from under it.
- `links_reads`: what a new version of a type reads is found again as the change is handed, passing over what is no longer
  held, so a type removed between the judging and the handing is compared with nothing.

Shown by configurations kept beside the runs (`tlc -config <cfg> <module>`), each violating the property named:

| configuration | module | property | what it shows |
| --- | --- | --- | --- |
| `MCLandingExpected.cfg` | `MCLanding` | `ExpectedKept` | the revision a change expects and the revision it is made over are two reads |
| `MCLandingRetyped.cfg` | `MCLanding` | `LandsOnWhatItRead` | as `landing_stale`, of a type: a set lands after the type it was checked against was removed and defined again |
| `MCLandingTorn.cfg` | `MCLanding` | `NothingEscapes` | `holds` and `artifact` are two statements; a removal between them escapes the draft as an error of no rule |
| `MCServingDirect.cfg` | `Serving` | `DirectRefusedWhileOwned` | a direct change probed before a server took the store lands after it did; the landing itself is whole, relying on SQLite's lock |
| `MCServingStart.cfg` | `Serving` | `StartRefusedByAServer` | a direct change's probe holds the lock shared for a moment, and a start met by it is refused as if the store were served |
| `MCStagingTogether.cfg` | `Staging` | `RootWhole` | two seeds at once share the staging place, and one places what the other has half made |
| `MCStagingOver.cfg` | `Staging` | `NeverOver` | an init in place that fails removes the store a seed renamed onto its empty `kb/` |
| `MCStagingChanges.cfg` | `Staging` | `ChangesStay` | a store taken back takes with it a change landed in it meanwhile |
| `MCIntegrityUnder.cfg` | `MCIntegrity` | `LinksLand` | `_vouched` asks only whether something is held above an IRI, so a link lands under an artifact that took the place of the type that vouched for it (`sqlite_checks.py:76` says a type must be) |
| `MCIntegrityRemade.cfg` | `MCIntegrity` | `BelongsWhereItSits` | as `landing_stale`: an artifact replaced after it was removed and a type defined in its place at the revision read, which makes the type an artifact again, with what was made under it left there |
| `MCImportingNothing.cfg` | `MCImporting` | `ComesBack` | an item of an artifact written whole whose title leaves nothing is named by nothing (`item_names.py:53`); its export is then refused by an import. `features/name-artifacts-and-items.feature:127-135` has such a title refused, of an item added |
| `MCFindingNested.cfg` | `MCFinding` | `NeverNested` | a start looks for a store above its directory, never below (`store.py:156`), so a store may be started above one; `spec/index.md:28` and `features/operate-a-store.feature:31` say stores never nest |

`MCLandingThree.cfg` (`MCLanding`) passes: three callers, IRIs and types created again, with `TypeOK`, `IdsHeldOnce`,
`HistoryUnbroken`, `TypesHeld`, `ExpectedKeptUnderLock` and `NothingEscapesTheLock` (1,434,152 states).

An init interrupted in place leaves `kb/` unmarked (`Interrupted`), which `vacant` refuses from then on until someone
removes it; so does one killed. A file whose link names a held target of a wrong kind is skipped, rather than found at
fault, when a type that would not land stands above that target (`judging.py:28`).

## Proofs

Each theorem holds for every value of the constants that the named assumptions allow, and for any number of callers,
threads, servers, runs or directories.

- `LandingProofs`: `TypeCorrect` (`[]TypeOK`) and `IdsUnique` (`[]IdsHeldOnce`). The invariant is `TypeInv`: `TypeOK`,
  `Placed` - where a call is says how much of its set it has drafted, and that its stamps number its changes - and
  `IdsBounded` - the numbers used at a moment are bounded, without which the highest of them, which the next is minted
  above, could not be shown to exist. `IdsUnique` then follows step by step: a landing adds entries only when each id
  is new and given once.
- `LandingProofs`, of the history: `TypesKept` (`[]TypesHeld`), `HistoryKept` (`[]HistoryUnbroken`) and `AnswersTrue`
  (`[]AnsweredAsLanded`). That types are held needs nothing of the draft but its shape, since the landing checks them
  again. The history rests on `DraftInv`: a draft's changes are those asked, each one revision on from what it read, a
  create and only a create read nothing, and what it puts and removes is what its last change to each IRI leaves. With
  the entries `Numbered`, each artifact's history has a last entry, and the landing compares with it. An answer rests on
  `AnswerInv`: a call's entries are all its changes, or none until it lands, so that a second draft never lands beside a
  first. `CreatesAssumption` - a create expects no revision, as `edits.created` makes it - is assumed for these.
- `LandingProofs`, of what is read: under the write lock, `ExpectedUnderLock` and `NothingEscapesHeld`, by `LockInv`: what the holder
  has read is what stands, each of its changes finds what it read, and the ids it minted stay free. Without it,
  `NothingLostAfresh` (`[]NothingLost`) and `LandsOnItsReads` (`LandsOnWhatItRead`) under the hypothesis `[]CreatedOnce`:
  no IRI is created twice. The hypothesis is what run `landing` is an instance of, and without it `LandsOnWhatItRead` is
  false: that is the finding `landing_stale`. Revisions then only rise (`Rising`), so what stands at a revision a call
  read is what it read, and `Based` says that every change of a draft is made over what the first of its artifact read,
  with the call's own beside it.
- `LandingProofs`, of the refinement: `LandsAsIfAlone` (`LandsSerially`), that `Landing` implements `SerialStore`. That a set lands as
  its operations would one after another rests on what each leaves: `LeavesAfter` says of the store after the first so
  many of them that an IRI they did not touch is as it stands, and any other as the draft's last change to it has it
  (`LandingLeaves`), and so each finds what its draft read (`LandingFinds`) and is allowed (`LandingAllows`). `TypingInv`, the
  invariant added for this, says that each change was drafted where its type was held, by the set's own changes or in the store;
  that it still is where the set lands is what the landing compares. That no set is refused that fits (`RefusedUnfit`) rests on the
  draft holding, at each of its reads, just what its operations so far would leave of the store as it stands then
  (`HoldsStands`). The function by which `Applied` recurs is shown to exist and to be what its equation says (`AppliedIs`).
  Beside `[]CreatedOnce` it takes `SaysNoRevision`, since a change that says the revision it read may land over another one
  (`MCLandingExpected.cfg`) or be refused on a read that is stale; and `KeepsWhatItMakes`, no set removes an IRI it
  creates, since the type of what such a set makes and removes is not looked at when it lands. The sets of run `landing`
  keep to both.
- `InOrderProofs`: `TicketsHeld`, `Exclusion` (`[]OneAtATime`), `NoWakeUpLost` (`[]NoneSleepsThrough`) and `TakenInOrder`,
  that the lock of tickets implements the queue of `Turns`. The invariant `Held` says that whoever is not out holds a
  ticket drawn and not passed, that no two hold one, and that whoever is inside holds the one being served; for the
  queue, also that no ticket is lost (`NoneMissing`), so that the queue has a place for each and one thread for each
  place (`QueueOfHolders`). Every step is then a step of the queue or leaves it as it was. That is `TurnsTaken`, the safety half
  of `FirstComeFirstIn`; its fairness is TLC's.
- `ServingProofs`: `MadeUnderTheLock` (`[]ChangesUnderTheLock`), `NamedWhileServing` (`[]NamesItsServer`), `ToldSo`
  (`[]ToldTruly`) and `TypeCorrect`. The invariant: a server is up exactly while it owns the store (`UpOwns`), a call on a
  worker belongs to a server still up (`Hosted`), and whoever makes its change is first in its server's queue
  (`FirstIn`). `Told` adds that a change lands only on its way from its worker's making of it to its end, and that an
  answer other than the loss of the server is given at that end.
- `StagingProofs`: `RootIsWhole` (`[]PlacedWhole`), `RootLeftAsFound` (`[]LeftAsFound`), `WorksOnItsOwn` (`[]OwnWork`),
  `AnsweredStays` (`[]StartedStays`), `StartedOverNone` (`NeverOver`) and `TypeCorrect`. The invariant: a run of each kind
  keeps to its own course (`Kinds`), with one start at a time one start is under way (`OneStart`), and how far it has
  come says what its place holds (`Course`): made by it, then filled, then marked, then sown. Whatever else happens leaves
  those fields alone (`ServingKeeps`). `RootInv` says where the run that made what is in the root can be and what it has
  said (`Claim`), `StageInv` that the staging place is there only for a run in it or one killed there. `StartedOverNone`
  takes `together \cap Inits = {}`: starts one at a time or staged ones at once. A start in place among several does put
  itself over another's, as `MCStagingOver.cfg` shows.
- `FindingProofs`: `KeptApart` (`StoresApart`) and `GoesThere` (`[]GoesWhereMeant`). `UpFrom`, the directories from one
  up, is a recursive function over the tree; what it is at each directory is derived from `ForestAssumption` - of any
  directories, one is in none of the others - by taking the topmost at which it would be otherwise. `Reached` says how
  far a search can have come and `StillAlone` what a start alone found above it. For a tree that stays, `OnItsWay` says of
  each step what it leaves true of where the call can only be going: nothing passed was marked, what stopped the search
  is nearest, what is gone to is all that is nearest or named.
- `DraftsProofs` holds no theorem but the lemmas the next two share: that a function that recurs over the numbers, or over
  the first of them, exists and is what its equation says (`RecursionThere`, `RecursionTo`), and what the operators of
  `Drafts` that recur make of a set - the counting of links told alike (`Told`), the types read through one another
  (`ReadThrough`), what a set leaves (`Put`). Each is derived by taking the least number at which it would be otherwise.
- `IntegrityProofs`: `TypeCorrect` (`[]TypeOK`), `WaitsNoMore` (`OnlyWhatWaitedWaits`) and `LinksStay` (`LandedStays`). `TypeInv` adds to `TypeOK` that what a call has drafted is of its own set, change for
  change (`OnItsWay`). `WaitsNoMore` rests on a link being told by itself and its place among the like (`ToldApart`), so that
  as many as wait afterwards are told as waiting before (`NoMoreCopies`). `LinksStay` rests on every change stamping its artifact with a
  revision it did not have (`Stamped`): what is as it was is what no set changed, and nothing it lands on was removed or
  lost the part (`NoneLinked`). `BelongsThere` (`[]BelongsWhereItSits`) rests on the nearest held type being the one an IRI
  sits under with none held between (`NearestIs`), and on `BelongInv`: of what a call drafted, what it replaces stays held
  and of its kind (`Keeps`), what it makes sits under its type (`Sited`), and once handed the port compares that nothing is
  held between (`Guarded`), so that a type defined meanwhile is met. A set drafted anew under the lock is followed
  operation by operation: the first type in it to stand nearer to something held would have been refused (`NowBelongs`).
  Its hypothesis is `ReplacedStays`, that no set removes what another replaces: the sets of run `links` keep to it
  (`LinkingAssumption`), and without it the property is false (`MCIntegrityRemade.cfg`). `ReadTypesKept` (`[]ReadTypesHeld`)
  rests on `ReadInv`: what a replacement leaves is what its operation would make of the artifact as it stands, while it
  stands at the revision read (`AsMade`); a version kept of a type stays kept until the type is removed (`LandingKeeps`);
  and what a version that is about to land reads is kept still (`ReadsKept`) - because no set removes it, or because the
  set was drafted under the lock, where the draft refuses the removal of what it has read and the landing finds the readers of
  a type that goes. Besides `ReplacedStays` it takes `ReadStays`, that what a set's types read no set removes unless that set is
  drafted under the lock, without which the property is false (run `links_reads`), and `ReadAsTypes`, that what is read is
  made nothing but a type; the sets of run `links` keep to all three. `NothingToFind` (`[]CheckFindsNothing`) rests on
  `CheckInv`: the version each artifact conforms to is kept (`VersionsHeld`) and each link held lands or waits as it may
  (`LinksFit`). For the first, what a call leaves conforms to a version kept where it was judged, which stays kept while it
  is drafted and lands (`ConformsStays`), or its type's revision is one the port compares; a removal at a revision it
  read finds the versions it read, because the revision counts them (`RemovedCount`). For the second, a link to an IRI not
  held was handed with a type over it and with nothing held between (`VouchesFor`), which the port compares again; a link
  that waited already goes on belonging to its type, since a set that defines a type or removes one is followed change for
  change under the lock (`WaitsNow`), a type nearer being refused, and any other set makes and removes no type that a link
  may be under (`WaitsBefore`). Beside the three hypotheses it takes `LinkedAsTypes`, that what a link may land under is
  made nothing but a type (`MCIntegrityUnder.cfg` shows the other case), and `RemovedCounted`, that the revision of a type
  some set removes is the number of its versions, as it is unless an import brings it at another. It takes from
  `OneKindAssumption` that a set holds changes of one kind, as each of the operations of `changes` and an import makes
  them, and from `BeforeAssumption` that the check finds nothing at first. `LandsAsDrafted` (`LandsAsJudged`) takes the
  same. Drafted anew over the store it lands on, a set leaves what it was handed as, since each change finds its artifact at
  the revision read (`LandingDrafts`); then the draft's verdict is followed part by part: each operation can act
  (`LandingActs`), what is left fits (`LandingSuits`), what is removed is free (`LandingFrees`), no part linked into is
  dropped (`LandingKeepsWhole`). Most of it follows from what `NothingToFind` shows of the store the set leaves;
  `AcceptInv` adds what the port does not compare (`Moving`): that a version moved to is no earlier than the one conformed to
  while the artifact stands as read, and is kept where the set itself replaces the type later. The theorems of this
  module take the bounds
  `OnceAssumption`, a set changes an artifact once, and `ImportsAssumption`, an import brings a revision that is not 0;
  that a create or an import says its kind (`GivenAssumption`); and that what an IRI above another sits under is the rest
  of what is above (`AboveAssumption`).
- `MomentsProofs`: `TypeCorrect` (`[]TypeInv`), `BackupsMade` (`BackupsWhole`), `ReadsOfOneMoment` (`OneMoment`), `ReadsTell`
  (`[]ReadsTold`), `SearchesFind` (`[]SearchFinds`) and `WalksAreShortest` (`[]WalksShortest`). `TypeInv`: the store has passed
  through stores alone, none of them lost (`PastOK`), and each call is on the course of its kind (`OnCourse`). A backup rests on
  `BackupInv`: one being made has its file to itself, and its step says how far the file has come, so that a mark is only
  ever put on a copy that was checked. A read of one moment rests on `ReadInv`: what a call was given and what it has left to
  read are together what `GivenAt` says of the moment it reads. `ReadsTell` takes beside `TypeInv` that nothing is said of
  what is not held (`HoldsInv`); what a read fills in, with its path kept so that a loop ends, is shown to be what the links
  reach in as many steps (`FilledNear`, `NearFilled`): of two routes to a node one that meets itself can be cut short.
  `SearchesFind` rests on `RowsInv`: at each moment, the rows a search reads are the texts of what is held, each under a number of its own
  (`Indexes`), which every change keeps because the new rows are numbered above the greatest (`PutLeaves`, `MadeIs`).
  `WalksAreShortest` needs nothing of the steps but the types: along a walk, what was met after n steps is what lies
  within n, what is followed is what lies there and no nearer (`AfterStep`), and each route has a hop for each step
  (`GoodRoute`), so none is shorter. It is the same of every store the calls can make, whatever its loops.

These theorems of `Moments` take what `OrderAssumption` says of the order of names, that it repeats none, and of its bounds
`ImportsAssumption`. Beyond them, `Alike` is assumed of words only as above.

Only model-checked: every liveness property, and everything of `Importing`. Liveness under fairness is outside what the
proof system does: `EveryCallAnswered` of `Landing` and of `Serving`, `StopsAtLast`, and the fairness in `FirstComeFirstIn`.
`Items` and `Importing` follow data that holds data like itself - items in items, chains of files - by RECURSIVE operators,
which no module with a theorem may reach, and what they compute for every input is an induction over that data, so they
stay with the model checker. What recurs over numbers only - the places of a sequence, the steps of a walk - is proved about,
as the reads, searches and walks of `Queries` are.

## Not modelled

`PROJECT.json` lists every part and why. Conversions between the wire, Python values and canonical text (`values`,
`canonical`, `content`, `requests`, `responses`), the generated contract, the wording and order of refusals, JSON Schema's
verdict on content (one outcome here, fit or not), what a type's schema may say (`metaschema`, `keywords`), and the command
line's arguments, reports and exit codes have no state to check. Of what does change or read state: dry runs, which land
nothing; a section or an item's prose read alone, a search's snippets, the history's filters and the reads of an earlier
version; the writing of an export's files into a directory; and a relative root whose working directory is gone.

## Plan

What could follow: `LandsSerially` of sets that say the revision they read, against an abstract specification that lets
a set be refused by a revision that stood while it was drafted; and the dry runs and reads listed under Not modelled.
