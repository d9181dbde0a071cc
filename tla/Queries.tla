------------------------------ MODULE Queries ------------------------------
(***************************************************************************)
(* What the calls that only read answer, each a function of one store:     *)
(* the artifacts a list or an export selects, what links reach out of or   *)
(* into an artifact, an artifact whole with its links followed, an         *)
(* artifact at a glance, and the texts that hold words searched for, with  *)
(* the rows they are found by (src/kb/query.py, read.py, links.py,         *)
(* search.py, sqlite_search.py, sqlite_reads.py).                          *)
(***************************************************************************)
EXTENDS Drafts, FiniteSetsExt

CONSTANTS
  NameOrder, (* Every IRI, in the order of names.                          *)
  Inside,    (* The part whose own field each field is, or Whole.          *)
  NoField,   (* No field asked for.                                        *)
  Paths,     (* The paths below a type that may be asked for.              *)
  NoPath,    (* No path asked for.                                         *)
  Selected,  (* The artifacts each path selects, each below its type.      *)
  Words,     (* The words texts hold and that are searched for.            *)
  Folded,    (* Each word folded.                                          *)
  Alike,     (* The words a match ignoring case takes for one another.     *)
  Wordings   (* The texts each artifact holds, at its revisions in order.  *)

ASSUME OrderAssumption ==
  /\ NameOrder \in Seq(Iris) /\ \A x \in Iris : \E i \in DOMAIN NameOrder : NameOrder[i] = x
  /\ \A i, j \in DOMAIN NameOrder : NameOrder[i] = NameOrder[j] => i = j
ASSUME InsideAssumption == Inside \in [Fields -> Parts \cup {Whole}] /\ NoField \notin Fields
ASSUME PathsAssumption == NoPath \notin Paths /\ Selected \in [Paths -> SUBSET (Iris \X Iris)]

(* A text, a section's or a field's, as the words it holds in order.       *)
Text == [what : {"section", "field"}, words : Seq(Words)]

(* What a match takes for one another folds alike (search._folded), by the *)
(* case tables of the language.                                            *)
ASSUME WordsAssumption ==
  Folded \in [Words -> Words] /\ \A pair \in Alike : Folded[pair[1]] = Folded[pair[2]]
ASSUME WordingsAssumption == Wordings \in [Iris -> Seq(Seq(Text)) \ {<<>>}]

(* A kind and a path below the type, or none of either, to select by.      *)
Selection == [kind : Iris \cup {NoIri}, path : Paths \cup {NoPath}]

(* A walk asked for: from an artifact or a part of it, out of it or into   *)
(* it, narrowed to a field and a selection, and how far.                   *)
Walk == [start : Iris, part : Parts \cup {Whole}, inward : BOOLEAN, via : Fields \cup {NoField},
         select : Selection, depth : Nat]

-----------------------------------------------------------------------------
(* The members of a sequence that are of a set, in order, and sequences    *)
(* put one after another.                                                  *)
Among(s, set) ==
  LET upto[n \in 0..Len(s)] ==
        IF n = 0 THEN <<>> ELSE IF s[n] \in set THEN Append(upto[n - 1], s[n]) ELSE upto[n - 1]
  IN upto[Len(s)]

Joined(seqs) ==
  LET upto[n \in 0..Len(seqs)] == IF n = 0 THEN <<>> ELSE upto[n - 1] \o seqs[n]
  IN upto[Len(seqs)]

-----------------------------------------------------------------------------
(* What is selected.  A kind no type is held for is refused; a path alone  *)
(* never gives a type.                                                     *)
KindHeld(st, select) == select.kind = NoIri \/ Typed(st, select.kind)

LeftOut(select) == IF select.kind = NoIri /\ select.path # NoPath THEN {TypeOfTypes} ELSE {}

Selects(st, select, x) ==
  /\ Held(st, x)
  /\ select.kind \in {NoIri, st[x].kind}
  /\ st[x].kind \notin LeftOut(select)
  /\ select.path # NoPath => <<x, st[x].kind>> \in Selected[select.path]

Ids(st, select) == Among(NameOrder, {x \in Iris : Selects(st, select, x)})

-----------------------------------------------------------------------------
(* The links of an artifact, or those inside a part of it; and those in    *)
(* the fields of the artifact's own, or of the part's.                     *)
Carried(st, x, part) ==
  {link \in LinksOf(st, x) : part \in {Whole, Inside[link.field]}}

Own(st, x, part) == {link \in LinksOf(st, x) : Inside[link.field] = part}

(* A walk.  The links out of an artifact, or out of a part of it, and      *)
(* those into it, each as its field and the artifact at its other end.     *)
Outward(st, x, part) ==
  LET links == Among(st[x].links, Carried(st, x, part))
  IN [i \in DOMAIN links |-> <<links[i].field, links[i].target>>]

From(st, y, x) ==
  LET links == Among(st[y].links, {link \in LinksOf(st, y) : link.target = x})
  IN [i \in DOMAIN links |-> <<links[i].field, y>>]

Inward(st, x) == Joined([i \in DOMAIN NameOrder |-> From(st, NameOrder[i], x)])

Step(st, asked, x, part) == IF asked.inward THEN Inward(st, x) ELSE Outward(st, x, part)

(* Whether what a step reaches is what the walk is narrowed to: nothing    *)
(* not held is of a kind; it is selected below its own type, or below the  *)
(* nearest held one.                                                       *)
NarrowedTo(st, asked, y) ==
  /\ asked.select.kind # NoIri => Held(st, y) /\ st[y].kind = asked.select.kind
  /\ asked.select.path # NoPath =>
       <<y, IF Held(st, y) THEN st[y].kind ELSE Nearest(st, y)>> \in Selected[asked.select.path]

(* Mutated: what a walk has seen, the artifact asked about included, is    *)
(* only what the step before it reached.                                   *)
FreshSince(walk, y) == y \notin {walk.following[i].id : i \in DOMAIN walk.following}

(* What a walk has not seen: neither the artifact asked about nor reached. *)
Fresh(walk, y) == y \notin walk.seen

(* One link met on the way, from what route leads to.                      *)
Meets(st, asked, walk, route, hop) ==
  LET taken == [id |-> hop[2], route |-> Append(route, hop)]
  IN IF ~Fresh(walk, hop[2]) \/ asked.via \notin {NoField, hop[1]} \/ ~NarrowedTo(st, asked, hop[2])
     THEN walk
     ELSE [walk EXCEPT !.seen = @ \cup {hop[2]}, !.reached = Append(@, taken),
                       !.following = IF Held(st, hop[2]) THEN Append(@, taken) ELSE @]

(* Every link met from what a step before reached, in order.               *)
MeetsAll(st, asked, walk, from) ==
  LET hops == Step(st, asked, from.id, IF from.route = <<>> THEN asked.part ELSE Whole)
      met[n \in 0..Len(hops)] ==
        IF n = 0 THEN walk ELSE Meets(st, asked, met[n - 1], from.route, hops[n])
  IN met[Len(hops)]

(* One step further, from each the step before reached.                    *)
Further(st, asked, walk) ==
  LET upto[n \in 0..Len(walk.following)] ==
        IF n = 0 THEN [walk EXCEPT !.following = <<>>]
        ELSE MeetsAll(st, asked, upto[n - 1], walk.following[n])
  IN upto[Len(walk.following)]

(* What a walk reaches, each with the route taken to it, as far as its     *)
(* depth; only its first step may be out of a part.                        *)
Setting(asked) ==
  [reached |-> <<>>, seen |-> {asked.start}, following |-> <<[id |-> asked.start, route |-> <<>>]>>]

Walked(st, asked) ==
  LET after[n \in Nat] == IF n = 0 THEN Setting(asked) ELSE Further(st, asked, after[n - 1])
  IN after[asked.depth].reached

-----------------------------------------------------------------------------
(* A search.  The texts of an artifact at a revision, and the words each   *)
(* is found by.                                                            *)
TextsOf(x, revision) ==
  Wordings[x][IF revision > Len(Wordings[x]) THEN Len(Wordings[x]) ELSE revision]

FoundBy(x, revision) ==
  [i \in DOMAIN TextsOf(x, revision) |->
     LET text == TextsOf(x, revision)[i]
     IN [what |-> text.what, words |-> {Folded[text.words[k]] : k \in DOMAIN text.words}]]

(* The rows kept to find texts by: each artifact's, by number, and each    *)
(* row under its number.                                                   *)
NoRows == [numbered |-> {}, rows |-> {}]

(* Mutated: the rows themselves stay.                                      *)
Unnumbered(index, x) == [index EXCEPT !.numbered = {n \in @ : n[2] # x}]

(* An artifact's rows taken out, found by their numbers.                   *)
Unsearched(index, x) ==
  LET taken == {n[1] : n \in {m \in index.numbered : m[2] = x}}
  IN [numbered |-> {n \in index.numbered : n[2] # x}, rows |-> {r \in index.rows : r.row \notin taken}]

(* An artifact's rows put in, each numbered after every one held.          *)
Searchable(index, x, kind, found) ==
  LET last == Max({0} \cup {n[1] : n \in index.numbered})
      row(i) == [row |-> last + i, artifact |-> x, kind |-> kind,
                 what |-> found[i].what, words |-> found[i].words]
  IN [numbered |-> index.numbered \cup {<<last + i, x>> : i \in DOMAIN found},
      rows |-> index.rows \cup {row(i) : i \in DOMAIN found}]

(* The rows as a change that lands leaves them, and as all of a set do.    *)
IndexedBy(index, change) ==
  LET without == Unsearched(index, change.id)
  IN IF change.op = "delete" THEN without
     ELSE Searchable(without, change.id, change.left.kind, FoundBy(change.id, change.left.revision))

Indexed(index, changes) ==
  LET after[n \in 0..Len(changes)] == IF n = 0 THEN index ELSE IndexedBy(after[n - 1], changes[n])
  IN after[Len(changes)]

(* A search: for any of some words, among the artifacts of a kind or of    *)
(* any, in sections, in fields or in both.                                 *)
Searching == [words : SUBSET Words, kind : Iris \cup {NoIri}, within : SUBSET {"section", "field"}]

(* The words searched for as rows hold them.                               *)
Terms(asked) == {Folded[w] : w \in asked.words}

(* The artifacts some row of which holds a word searched for.              *)
Candidates(index, asked) ==
  {r.artifact : r \in {each \in index.rows :
     /\ each.words \cap Terms(asked) # {}
     /\ each.what \in asked.within /\ asked.kind \in {NoIri, each.kind}}}

Occurrences(text, words) ==
  Cardinality({k \in DOMAIN text.words : \E w \in words : <<w, text.words[k]>> \in Alike})

(* The texts of artifacts that hold a word searched for, most often first, *)
(* ties as the store and each artifact hold them.                          *)
Hits(st, asked, x) ==
  LET texts == TextsOf(x, st[x].revision)
  IN [i \in DOMAIN texts |->
        [id |-> x, text |-> i,
         count |-> IF texts[i].what \in asked.within THEN Occurrences(texts[i], asked.words) ELSE 0]]

Ranked(st, names, asked) ==
  LET hits == Joined([k \in DOMAIN names |-> Hits(st, asked, names[k])])
      most == Max({0} \cup {hits[k].count : k \in DOMAIN hits})
      times(n) == Among(hits, {hits[k] : k \in {l \in DOMAIN hits : hits[l].count = n}})
  IN Joined([n \in 1..most |-> times(most + 1 - n)])

(* Read of the artifacts the rows name alone; one not held is an error.    *)
Found(st, index, asked) ==
  LET named == Candidates(index, asked)
      read == \A x \in named : Held(st, x)
  IN [failed |-> ~read,
      hits |-> IF read THEN Ranked(st, Among(NameOrder, named), asked) ELSE <<>>]

-----------------------------------------------------------------------------
(* A read.  Of a node and what is being filled in already, the links in   *)
(* the node's own fields that are followed: none into a part, and none to  *)
(* what is being filled in or is not held.  Only the artifact read may be  *)
(* read of a part alone.                                                   *)
Followed(st, x, part, at) ==
  {link \in Own(st, at[1], IF at[1] = x THEN part ELSE Whole) :
     link.part = Whole /\ link.target \notin at[2] /\ Held(st, link.target)}

Onward(st, x, part, at) ==
  {<<link.target, at[2] \cup {link.target}>> : link \in Followed(st, x, part, at)}

(* Mutated: each artifact filled in is followed as far as the one read.    *)
ResolvedOn(st, x, part, depth) ==
  LET filled[n \in Nat] ==
        [at \in Iris \X SUBSET Iris |->
           {at[1]} \cup UNION {filled[n][to] : to \in {next \in Onward(st, x, part, at) : n > 0}}]
  IN filled[depth][<<x, {x}>>]

(* The artifacts a read whole shows: each link followed, from each in turn,*)
(* while steps are left.                                                   *)
Resolved(st, x, part, depth) ==
  LET filled[n \in Nat] ==
        [at \in Iris \X SUBSET Iris |->
           {at[1]} \cup UNION {filled[n - 1][to] : to \in {next \in Onward(st, x, part, at) : n > 0}}]
  IN filled[depth][<<x, {x}>>]

(* The links shown that land on nothing, each with the artifact it is of.  *)
Placeholders(st, shown) == {p \in shown : Waits(st, p[2])}

ReadWhole(st, x, part, depth) ==
  LET filled_in == Resolved(st, x, part, depth)
      shown == {x} \X Carried(st, x, part) \cup UNION {{y} \X Carried(st, y, Whole) : y \in filled_in \ {x}}
  IN [artifacts |-> filled_in, placeholders |-> Placeholders(st, shown)]

(* Every link of the store that lands on nothing.                          *)
Waiting(st) == {w \in UNION {{z} \X LinksOf(st, z) : z \in Iris} : Waits(st, w[2])}

(* An artifact at a glance: what it links to, held or not, what waits, and *)
(* how many artifacts of each kind point at it by each field, each once.   *)
ReadSummary(st, x) ==
  LET counted == {c \in Iris \X Fields :
                    \E link \in LinksOf(st, c[1]) : link.field = c[2] /\ link.target = x}
  IN [references |-> {<<link.field, link.target, Held(st, link.target)>> : link \in Carried(st, x, Whole)},
      placeholders |-> Placeholders(st, {x} \X Carried(st, x, Whole)),
      inbound |-> [key \in {<<st[c[1]].kind, c[2]>> : c \in counted} |->
                     Cardinality({c \in counted : <<st[c[1]].kind, c[2]>> = key})]]
=============================================================================
