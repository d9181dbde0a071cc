------------------------------ MODULE Moments ------------------------------
(***************************************************************************)
(* What is read of a store others change: lists and streamed exports, the  *)
(* snapshots the history keeps, and backups (src/kb/boundary.py,           *)
(* export.py, query.py, write.py, backups.py, sqlite_backup.py).           *)
(*                                                                         *)
(* A call that reads makes its reads one at a time, within a transaction   *)
(* whose first read fixes what every later one sees                        *)
(* (sqlite_reads.at_one_moment); a stream keeps it for as long as its      *)
(* caller takes.  A snapshot's entry lands once that reading is done.  A   *)
(* backup copies the database in one step into a file it makes, checks the *)
(* copy, and says last that it is a backup.                                *)
(*                                                                         *)
(* Landing shows how sets land; here one lands at one step, Drafts says    *)
(* with what, and the walks and reads of Queries are asked of each store.  *)
(***************************************************************************)
EXTENDS Queries

CONSTANTS
  Calls,      (* The calls made.                                           *)
  Selections, (* What a list or an export may select.                      *)
  Namings,    (* The artifacts a snapshot may name, sequences.             *)
  Places,     (* The places a backup may be asked into.                    *)
  Kept,       (* Those at which something stands that kb did not make.     *)
  Sets,       (* The sets others may ask for.                              *)
  Before,     (* What the store holds at first.                            *)
  Walks,      (* The walks asked of every store.                           *)
  Searches,   (* The searches asked of every store.                        *)
  MaxMoments  (* A bound: the moments the store passes through.            *)

ASSUME SelectionsAssumption ==
  Selections \subseteq Selection /\ Walks \subseteq Walk /\ Searches \subseteq Searching
ASSUME NamingsAssumption == Namings \subseteq Seq(Iris)
ASSUME PlacesAssumption == Kept \subseteq Places
ASSUME BeforeAssumption ==
  /\ Before \in [Iris -> Artifact] /\ \A x \in Iris : ~Held(Before, x) => Before[x] = Nothing
  /\ Sets \subseteq Seq(Operation) \ {<<>>}

(* A bound: no import brings revision 0, at which nothing is held.         *)
ASSUME ImportsAssumption ==
  \A ops \in Sets : \A i \in DOMAIN ops : ops[i].op = "import" => ops[i].revision # 0

VARIABLES
  past,  (* The moments the store passed through, each with what it held,  *)
         (* the rows search finds it by and, when a snapshot landed it,    *)
         (* what its entry lists.                                          *)
  files, (* What stands at each place.                                     *)
  call   (* Each call: what it asks, when it was asked, the moment it      *)
         (* reads, what it has yet to read and what it has read.           *)

vars == <<past, files, call>>

NoCall == [step |-> "none", op |-> "none", asked |-> "nothing", since |-> 0, view |-> 0,
           left |-> <<>>, got |-> {}]

(* A file: the moment its copy is of, 0 for none; whether the copy is      *)
(* whole; and whether its header says this kb's form and carries its mark. *)
NoFile == [stands |-> FALSE, copy |-> 0, whole |-> FALSE, form |-> FALSE, mark |-> FALSE]
MadeEmpty == [NoFile EXCEPT !.stands = TRUE]

(* The rows of what a store held from its start.                           *)
RowsBefore ==
  LET names == Among(NameOrder, {x \in Iris : Held(Before, x)})
      rows[n \in 0..Len(names)] ==
        IF n = 0 THEN NoRows
        ELSE Searchable(rows[n - 1], names[n], Before[names[n]].kind,
                        FoundBy(names[n], Before[names[n]].revision))
  IN rows[Len(names)]

Init ==
  /\ past = <<[holds |-> Before, rows |-> RowsBefore, lists |-> {}]>>
  /\ files = [p \in Places |-> IF p \in Kept THEN MadeEmpty ELSE NoFile]
  /\ call = [c \in Calls |-> NoCall]

Now == past[Len(past)].holds

-----------------------------------------------------------------------------
(* Sets land, each giving the store a moment.                              *)
Lands ==
  /\ Len(past) < MaxMoments
  /\ \E ops \in Sets :
       /\ LandsWhole(Now, ops)
       /\ past' = Append(past, [holds |-> Put(Now, Drafted(Now, ops)), lists |-> {},
                                rows |-> Indexed(past[Len(past)].rows, Drafted(Now, ops))])
  /\ UNCHANGED <<files, call>>

(* A call is made; a stream's caller may ask for nothing for a while, so   *)
(* nothing is read yet.                                                    *)
Asks(c) ==
  /\ call[c].step = "none"
  /\ \E op \in {"list", "export", "snapshot", "backup"} :
     \E asked \in CASE op = "snapshot" -> Namings [] op = "backup" -> Places [] OTHER -> Selections :
       call' = [call EXCEPT ![c] = [NoCall EXCEPT !.step = "asked", !.op = op, !.asked = asked,
                                                  !.since = Len(past)]]
  /\ UNCHANGED <<past, files>>

(* Mutated: each read sees the store as it stands by then.                 *)
AtNow(c) == Len(past)

(* The moment a call's reads are of.                                       *)
At(c) == call[c].view

(* A snapshot names only what is held; a list or an export a kind a type   *)
(* is held for.                                                            *)
Snapshotted(asked) == \A i \in DOMAIN asked : Held(Now, asked[i])

(* The names a call reads: a snapshot's as given, or those selected.       *)
Names(st, c) == IF call[c].op = "snapshot" THEN call[c].asked ELSE Ids(st, call[c].asked)

(* The first read, which fixes the moment: the names to be read.           *)
Begins(c) ==
  LET asked == call[c].asked
      held == IF call[c].op = "snapshot" THEN Snapshotted(asked) ELSE KindHeld(Now, asked)
      names == Names(Now, c)
      reads == [i \in DOMAIN names |-> <<names[i], 0>>]
  IN /\ call[c].step = "asked" /\ call[c].op # "backup"
     /\ call' = [call EXCEPT ![c] =
                   IF ~held THEN NoCall
                   ELSE [@ EXCEPT !.step = "reading", !.view = Len(past), !.left = reads]]
     /\ UNCHANGED <<past, files>>

(* The versions kept of a type, lowest first.                              *)
Versions(st, x) ==
  Among([n \in DOMAIN st[x].versions |-> n],
        {n \in DOMAIN st[x].versions : KeptVersion(st, <<x, n>>)})

(* What is read of an artifact, or of a version of a type.                 *)
ReadOf(st, x, n) == [id |-> x, number |-> n, holds |-> IF n = 0 THEN st[x] ELSE st[x].versions[n]]

(* The next read: an artifact; or, of a type an export meets, the numbers  *)
(* of its versions, each read in turn.                                     *)
Takes(c) ==
  LET st == past[At(c)].holds
      next == Head(call[c].left)
      typed == call[c].op = "export" /\ next[2] = 0 /\ Typed(st, next[1])
      versions == [i \in DOMAIN Versions(st, next[1]) |-> <<next[1], Versions(st, next[1])[i]>>]
  IN /\ call[c].step = "reading" /\ call[c].left # <<>>
     /\ call' = [call EXCEPT ![c] =
                   IF typed THEN [call[c] EXCEPT !.left = versions \o Tail(@)]
                   ELSE [call[c] EXCEPT !.left = Tail(@), !.got = @ \cup {ReadOf(st, next[1], next[2])}]]
     /\ UNCHANGED <<past, files>>

(* The position in the history of the moment a call reads: the last entry  *)
(* landed.                                                                 *)
Position(c) == [position |-> At(c)]

(* All is read: an export's position is given last, and the moment let go. *)
Ends(c) ==
  /\ call[c].step = "reading" /\ call[c].left = <<>>
  /\ call' = [call EXCEPT ![c] =
                [call[c] EXCEPT
                   !.step = "read",
                   !.got = IF call[c].op = "export" THEN @ \cup {Position(c)} ELSE @]]
  /\ UNCHANGED <<past, files>>

(* A list or an export is answered.                                        *)
Answers(c) ==
  /\ call[c].step = "read" /\ call[c].op # "snapshot"
  /\ call' = [call EXCEPT ![c] = NoCall]
  /\ UNCHANGED <<past, files>>

(* What a snapshot's entry says: each artifact read, at the revision and   *)
(* with the fingerprint of the content it was read at.                     *)
SnapshotEntry(c) == call[c].got

(* A snapshot's entry lands, a set of its own, changing no artifact.       *)
Records(c) ==
  /\ call[c].step = "read" /\ call[c].op = "snapshot" /\ Len(past) < MaxMoments
  /\ past' = Append(past, [past[Len(past)] EXCEPT !.lists = SnapshotEntry(c)])
  /\ call' = [call EXCEPT ![c] = NoCall]
  /\ UNCHANGED files

(* A stream is closed or let go by its caller, or a read of it fails; or   *)
(* the lock a snapshot's entry lands under is not to be had.               *)
Closes(c) ==
  /\ call[c].op = "export" \/ (call[c].op = "snapshot" /\ call[c].step = "read")
  /\ call' = [call EXCEPT ![c] = NoCall]
  /\ UNCHANGED <<past, files>>

-----------------------------------------------------------------------------
(* A backup.                                                               *)
Into(c) == call[c].asked
Refused(c) == call' = [call EXCEPT ![c] = NoCall] /\ UNCHANGED <<past, files>>
Goes(c, step, file) ==
  /\ call' = [call EXCEPT ![c] = IF step = "none" THEN NoCall ELSE [@ EXCEPT !.step = step]]
  /\ files' = [files EXCEPT ![Into(c)] = file]
  /\ UNCHANGED past

(* Refused when anything is at the place.                                  *)
Looks(c) ==
  /\ call[c].step = "asked" /\ call[c].op = "backup"
  /\ IF files[Into(c)].stands THEN Refused(c) ELSE Goes(c, "looked", files[Into(c)])

(* The file is made only where nothing is, whatever was seen before.       *)
Creates(c) ==
  /\ call[c].step = "looked"
  /\ IF ~files[Into(c)].stands THEN Goes(c, "created", MadeEmpty) ELSE Refused(c)

(* The database is copied at one moment, whole or damaged.                 *)
Copies(c) ==
  /\ call[c].step = "created"
  /\ \E whole \in BOOLEAN :
       Goes(c, "copied", [files[Into(c)] EXCEPT !.copy = Len(past), !.whole = whole])

(* Mutated: the copy is not checked.                                       *)
Unchecked(file) == TRUE

(* SQLite's check of every page.                                           *)
Sound(file) == file.whole

Checks(c) ==
  /\ call[c].step = "copied" /\ Sound(files[Into(c)])
  /\ Goes(c, "checked", [files[Into(c)] EXCEPT !.form = TRUE])

(* The mark is last: the backup is made.                                   *)
Marks(c) ==
  /\ call[c].step = "checked"
  /\ Goes(c, "none", [files[Into(c)] EXCEPT !.mark = TRUE])

(* The copy fails, damaged or not: the file it made is removed.            *)
Fails(c) ==
  /\ call[c].step \in {"created", "copied", "checked"}
  /\ Goes(c, "none", NoFile)

(* The process making it is killed: what it made stays.                    *)
Killed(c) ==
  /\ call[c].step \in {"created", "copied", "checked"}
  /\ Goes(c, "none", files[Into(c)])

Next ==
  \/ Lands
  \/ \E c \in Calls :
       \/ Asks(c) \/ Begins(c) \/ Takes(c) \/ Ends(c) \/ Answers(c) \/ Records(c) \/ Closes(c)
       \/ Looks(c) \/ Creates(c) \/ Copies(c) \/ Checks(c) \/ Marks(c) \/ Fails(c) \/ Killed(c)

Spec == Init /\ [][Next]_vars

-----------------------------------------------------------------------------
(* What a call that reads is given is of one moment since it was asked,    *)
(* whatever lands while it reads: a list what its selection held then, a   *)
(* snapshot what it names, and an export every file, of a type every       *)
(* version, with the position of that moment (boundary.streamed, _given;   *)
(* write.record; export.taken).                                            *)
GivenAt(op, asked, p) ==
  LET st == past[p].holds
      given == IF op = "snapshot" THEN asked ELSE Ids(st, asked)
      names == {given[i] : i \in DOMAIN given}
      versions == UNION {{<<x, n>> : n \in {k \in DOMAIN st[x].versions : KeptVersion(st, <<x, k>>)}} :
                           x \in names}
  IN IF op = "export"
     THEN {ReadOf(st, x, 0) : x \in {y \in names : ~Typed(st, y)}}
          \cup {ReadOf(st, v[1], v[2]) : v \in versions} \cup {[position |-> p]}
     ELSE {ReadOf(st, x, 0) : x \in names}

OneMoment ==
  [][\A c \in Calls : call[c].step = "reading" /\ call'[c].step = "read" =>
       \E p \in call[c].since..Len(past) : call'[c].got = GivenAt(call[c].op, call[c].asked, p)]_vars

(* A restore takes a file for a backup: it can be read whole, carries kb's *)
(* mark, and is of this kb's form.                                         *)
Restorable(file) == file.whole /\ file.mark /\ file.form

(* What carries kb's mark is a backup a restore takes, the copy of one     *)
(* moment, whatever failed or was killed on the way; it stays as it was    *)
(* made, though another backup is asked into its place; and what stood at  *)
(* a place before is never written over (sqlite_backup.copied, backups.made*)
(* and read).                                                              *)
BackupsWhole ==
  [][\A p \in Places :
       /\ files'[p].mark => Restorable(files'[p]) /\ files'[p].copy \in DOMAIN past'
       /\ files[p].mark \/ p \in Kept => files'[p] = files[p]]_vars

(* The hops a walk may take from x.                                        *)
Hops(asked, x, part) ==
  LET steps == Step(Now, asked, x, part)
  IN {hop \in {steps[i] : i \in DOMAIN steps} :
        asked.via \in {NoField, hop[1]} /\ NarrowedTo(Now, asked, hop[2])}

(* A walk reaches what may be reached within its depth, and nothing else,  *)
(* each once, by a route of links that none is shorter than, and the       *)
(* artifact asked about never, through cycles, IRIs not held and narrowed  *)
(* steps (query.walk).                                                     *)
WalksShortest ==
  (\A c \in Calls : call[c] = NoCall) =>
  \A asked \in {each \in Walks : Held(Now, each.start)} :
    LET within[n \in Nat] ==
          IF n = 0 THEN {asked.start}
          ELSE within[n - 1] \cup
               UNION {{hop[2] : hop \in Hops(asked, x, IF x = asked.start THEN asked.part ELSE Whole)}
                        : x \in {y \in within[n - 1] : Held(Now, y)}}
        walked == Walked(Now, asked)
    IN /\ {walked[i].id : i \in DOMAIN walked} = within[asked.depth] \ {asked.start}
       /\ Cardinality(DOMAIN walked) = Cardinality(within[asked.depth]) - 1
       /\ \A i \in DOMAIN walked :
            LET route == walked[i].route
                from(k) == IF k = 1 THEN asked.start ELSE route[k - 1][2]
            IN /\ walked[i].id \notin within[Len(route) - 1] /\ route[Len(route)][2] = walked[i].id
               /\ \A k \in DOMAIN route :
                    route[k] \in Hops(asked, from(k), IF k = 1 THEN asked.part ELSE Whole)

(* A read whole ends, and shows what its links reach in as many steps as   *)
(* were asked, and nothing further, whatever loops they make; beside it is *)
(* every link shown that lands on nothing held, and beside all of them     *)
(* what the store lists as waiting; at a glance, as many point at an       *)
(* artifact as a walk of one step into it meets (read._filled, _resolved,  *)
(* _placeholders, sqlite_reads.inbound, waiting).                          *)
ReadsTold ==
  (\A c \in Calls : call[c] = NoCall) =>
  LET held == {x \in Iris : Held(Now, x)}
      into(x) == {Inward(Now, x)[i] : i \in DOMAIN Inward(Now, x)}
  IN /\ Waiting(Now) = UNION {ReadWhole(Now, x, Whole, 0).placeholders : x \in held}
     /\ \A x \in held :
          LET glance == ReadSummary(Now, x)
          IN /\ glance.placeholders = ReadWhole(Now, x, Whole, 0).placeholders
             /\ glance.inbound = [key \in {<<Now[y[2]].kind, y[1]>> : y \in into(x)} |->
                                    Cardinality({y \in into(x) : <<Now[y[2]].kind, y[1]>> = key})]
     /\ \A x \in held, part \in Parts \cup {Whole}, depth \in 0..3 :
          LET to(y, at) ==
                {link.target : link \in {l \in Own(Now, y, at) : l.part = Whole /\ l.target \in held}}
              within[n \in Nat] ==
                IF n = 0 THEN {x}
                ELSE within[n - 1] \cup
                     IF n = 1 THEN to(x, part) ELSE UNION {to(y, Whole) : y \in within[n - 1] \ {x}}
              told == ReadWhole(Now, x, part, depth)
          IN /\ told.artifacts = within[depth]
             /\ \A y \in within[depth], link \in UNION {LinksOf(Now, z) : z \in Iris} :
                  <<y, link>> \in told.placeholders <=>
                    Waits(Now, link) /\ link \in Carried(Now, y, IF y = x THEN part ELSE Whole)

(* A search finds every text of the store that holds a word searched for,  *)
(* and no other, whatever was changed and removed since the store began:   *)
(* the rows it is found by name what is held, none twice, and each is the  *)
(* only one under its number (sqlite_search.py, query.found, search.rank). *)
SearchFinds ==
  (\A c \in Calls : call[c] = NoCall) =>
  LET rows == past[Len(past)].rows
      texts(x) == TextsOf(x, Now[x].revision)
  IN /\ \A r, s \in rows.rows : r.row = s.row => r = s
     /\ \A asked \in Searches :
          LET told == Found(Now, rows, asked)
              found == told.hits
              sought == {x \in Iris : Held(Now, x) /\ asked.kind \in {NoIri, Now[x].kind}}
              holding == UNION {{[id |-> x, text |-> i, count |-> Occurrences(texts(x)[i], asked.words)] :
                                   i \in {j \in DOMAIN texts(x) : texts(x)[j].what \in asked.within}} : x \in sought}
          IN /\ ~told.failed
             /\ {found[k] : k \in DOMAIN found} = {hit \in holding : hit.count > 0}
             /\ Cardinality(DOMAIN found) = Cardinality({hit \in holding : hit.count > 0})
             /\ \A k \in DOMAIN found \ {1} : found[k - 1].count >= found[k].count
=============================================================================
