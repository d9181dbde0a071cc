------------------------------- MODULE Items -------------------------------
(***************************************************************************)
(* The names the items of a collection are given (src/kb/item_names.py): a *)
(* name is given once, from the item's title or else from its place, a     *)
(* number added when an item beside it has that name, and is kept after.   *)
(*                                                                         *)
(* A name is the sequence of what its hyphens join: the name a title gives *)
(* is one word, or a word and a number when the title ends in one, so a    *)
(* number added may make a name some other title gives.  An item may hold  *)
(* a collection in turn, whose items are named apart from any other's.     *)
(***************************************************************************)
EXTENDS Naturals, FiniteSets, Sequences

CONSTANTS
  Names,    (* The names an item may carry, sequences.                     *)
  Untitled, (* The title of an item whose title is no text.                *)
  Unnamed,  (* The name of an item that carries none.                      *)
  NotPlain, (* A name that is not text, or not a plain name.               *)
  Deepest   (* A bound: how many collections an item stands in.            *)

ASSUME NamesAssumption == {Untitled, Unnamed, NotPlain} \cap Names = {} /\ Unnamed # NotPlain
ASSUME DeepestAssumption == Deepest \in Nat \ {0}

(* An item as it is written: the name its title gives, the one it carries, *)
(* and the collection it holds.  A collection is the sequence of its items.*)
Item ==
  LET inside[n \in Nat] ==
        [title : Names \cup {Untitled}, name : Names \cup {Unnamed, NotPlain},
         items : IF n = 1 THEN {<<>>} ELSE Seq(inside[n - 1])]
  IN inside[Deepest]

(* Where the items stand, at every depth: the steps to each.               *)
RECURSIVE Standing(_)
Standing(items) ==
  UNION {{<<i>>} \cup {<<i>> \o at : at \in Standing(items[i].items)} : i \in DOMAIN items}

Carried(items) == {items[i].name : i \in DOMAIN items} \ {Unnamed}

(* The name, or the first that adds a number to it and is not taken.       *)
Numbered(name, taken) ==
  LET free == {n \in 2..(Cardinality(taken) + 2) : Append(name, n) \notin taken}
  IN IF name \in taken THEN Append(name, CHOOSE n \in free : \A m \in free : n <= m) ELSE name

(* The names the items are left with, in order: the names carried are      *)
(* taken first, wherever their items stand.                                *)
NamesGiven(items) ==
  LET own(i) == IF items[i].title = Untitled THEN <<i>> ELSE items[i].title
      given[i \in Nat] ==
        IF i = 0 THEN <<>>
        ELSE LET taken == Carried(items) \cup {given[i - 1][j] : j \in 1..(i - 1)}
             IN Append(given[i - 1], IF items[i].name # Unnamed THEN items[i].name
                                     ELSE Numbered(own(i), taken))
  IN given[Len(items)]

(* The place of every part a collection holds once its items are named:    *)
(* the names on the way to it, each one's collection inside the last.      *)
RECURSIVE PlacesOf(_)
PlacesOf(items) ==
  LET names == NamesGiven(items)
  IN UNION {{<<names[i]>>} \cup {<<names[i]>> \o place : place \in PlacesOf(items[i].items)} :
              i \in DOMAIN items}

(* Whether an item carries a name an item before it carries, or one that   *)
(* is no plain name.                                                       *)
Unfit(items, i) ==
  \/ items[i].name = NotPlain
  \/ items[i].name # Unnamed /\ \E j \in 1..(i - 1) : items[j].name = items[i].name

(* Where a new artifact's items carry a name no item may be given.         *)
RECURSIVE Misgiven(_)
Misgiven(items) ==
  {<<i>> : i \in {j \in DOMAIN items : Unfit(items, j)}}
  \cup UNION {{<<i>> \o at : at \in Misgiven(items[i].items)} : i \in DOMAIN items}

(* What a collection held at the places had inside the item of that name.  *)
Had(had, name) == {Tail(place) : place \in {p \in had : Len(p) > 1 /\ Head(p) = name}}

(* Where a revision's items hand back a name the store did not give: one a *)
(* new artifact's may not carry, or one no item of that collection had,    *)
(* the one inside the item of the same name.                               *)
RECURSIVE Mishanded(_, _)
Mishanded(items, had) ==
  {<<i>> : i \in {j \in DOMAIN items :
                   Unfit(items, j) \/ (items[j].name # Unnamed /\ <<items[j].name>> \notin had)}}
  \cup UNION {{<<i>> \o at : at \in Mishanded(items[i].items, Had(had, items[i].name))} :
                 i \in DOMAIN items}
=============================================================================
