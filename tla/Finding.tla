------------------------------ MODULE Finding ------------------------------
(***************************************************************************)
(* What a call reaches: the store, or the connection to a server, found    *)
(* upward from where its caller works, from a root, or named by KB_ROOT    *)
(* (src/kb/store.py, client.py), while stores are started and taken away,  *)
(* connections arranged, and directories removed.                          *)
(*                                                                         *)
(* A search looks at one directory at a time, and what it stops at is read *)
(* again before it is used, so the tree may change in between.  Staging    *)
(* models a start's work inside its directory; here it makes its place and *)
(* marks it.  What is asked of a store found, or of a server, is Landing's *)
(* and Serving's.                                                          *)
(***************************************************************************)
EXTENDS Naturals, FiniteSets, Sequences, SequencesExt

CONSTANTS
  Callers,   (* Who makes calls, one at a time each.                       *)
  Dirs,      (* The directories.                                           *)
  NoDir,     (* No directory.                                              *)
  Parent,    (* The directory each is in, or NoDir.                        *)
  Unset,     (* KB_ROOT is not set.                                        *)
  Blank,     (* KB_ROOT names no directory.                                *)
  Requests,  (* The calls that may be made.                                *)
  Befores,   (* The trees at first.                                        *)
  MaxChanges (* A bound: the times the tree changes.                       *)

ASSUME ParentAssumption == NoDir \notin Dirs /\ Parent \in [Dirs -> Dirs \cup {NoDir}]

(* No directory is inside itself: some directories together have one that  *)
(* is in none of them.                                                     *)
ASSUME ForestAssumption == \A S \in (SUBSET Dirs) \ {{}} : \E d \in S : Parent[d] \notin S

(* A call: whether it only reads, changes, is an operator's command over   *)
(* the store's own files, or asks where a call would go; the root its      *)
(* client was readied with; where it works; KB_ROOT; and whether its       *)
(* client stamps with its own clock.                                       *)
Request ==
  [op : {"read", "change", "operate", "where"}, root : Dirs \cup {NoDir}, cwd : Dirs,
   env : Dirs \cup {Unset, Blank}, clock : BOOLEAN]

(* A directory: whether it is there, whether the place a store goes in is, *)
(* whose form the marker in it names, and what the connection in it does.  *)
Directory ==
  [there : BOOLEAN, place : BOOLEAN, marker : {"none", "ours", "earlier", "later"},
   connection : {"none", "leads", "broken"}]

ASSUME RequestsAssumption ==
  Requests # {} /\ Requests \subseteq Request /\ Befores \subseteq [Dirs -> Directory]

VARIABLES
  tree,   (* Each directory.                                               *)
  starts, (* The start made in each, and whether no other was made while   *)
          (* it was.                                                       *)
  call,   (* Each caller's call: its request, the directories its search   *)
          (* has yet to look at, what it stopped at, the answer, and       *)
          (* whether the tree stayed as it was meanwhile.                  *)
  changed (* How often the tree changed.                                   *)

vars == <<tree, starts, call, changed>>

Bare == [there |-> TRUE, place |-> FALSE, marker |-> "none", connection |-> "none"]
Gone == [Bare EXCEPT !.there = FALSE]

NoStart == [step |-> "none", alone |-> TRUE]
Refused == [by |-> "refused", at |-> NoDir]

Idle(request) ==
  [step |-> "none", request |-> request, left |-> <<>>, above |-> NoDir, answer |-> Refused,
   still |-> TRUE]

Init ==
  /\ tree \in Befores
  /\ starts = [d \in Dirs |-> NoStart]
  /\ call \in [Callers -> {Idle(CHOOSE r \in Requests : TRUE)}]
  /\ changed = 0

(* A directory and those above it, the nearest first.                      *)
UpFrom[d \in Dirs] == IF Parent[d] = NoDir THEN <<d>> ELSE <<d>> \o UpFrom[Parent[d]]
AtOrAbove(d) == ToSet(UpFrom[d])

Stored(d) == tree[d].marker # "none"
Connected(d) == tree[d].connection # "none"
Marks(d) == Stored(d) \/ Connected(d)

-----------------------------------------------------------------------------
(* A call.  Its search begins at its client's root, or where it works,     *)
(* unless that is gone.                                                    *)
Asks(c) ==
  /\ call[c].step = "none"
  /\ \E request \in Requests :
       call' = [call EXCEPT ![c] =
         [Idle(request) EXCEPT
            !.step = "searching",
            !.left = IF request.root # NoDir THEN UpFrom[request.root]
                     ELSE IF tree[request.cwd].there THEN UpFrom[request.cwd] ELSE <<>>]]
  /\ UNCHANGED <<tree, starts, changed>>

(* Mutated: the search passes the connection to a server by.               *)
StopsAtStore(d) == Stored(d)

(* What the search stops at.                                               *)
StopsAt(d) == Marks(d)

(* The next directory upward is looked at.                                 *)
Searches(c) ==
  /\ call[c].step = "searching"
  /\ call' = [call EXCEPT ![c] =
       IF call[c].left = <<>> THEN [@ EXCEPT !.step = "searched"]
       ELSE IF StopsAt(Head(call[c].left))
       THEN [@ EXCEPT !.step = "searched", !.above = Head(call[c].left), !.left = <<>>]
       ELSE [@ EXCEPT !.left = Tail(call[c].left)]]
  /\ UNCHANGED <<tree, starts, changed>>

Answered(c, answer) ==
  /\ call' = [call EXCEPT ![c].step = "answered", ![c].answer = answer]
  /\ UNCHANGED <<tree, starts, changed>>

(* Where the call goes: what KB_ROOT names, unless the client has a root   *)
(* of its own, when it is marked and its caller works in no other; or what *)
(* was found above.                                                        *)
Chooses(c) ==
  LET request == call[c].request
      above == call[c].above
      named == request.root = NoDir /\ request.env # Unset
      chosen == IF ~named THEN above
                ELSE IF request.env \in Dirs /\ Marks(request.env) /\ above \in {NoDir, request.env}
                THEN request.env ELSE NoDir
  IN /\ call[c].step = "searched"
     /\ IF chosen = NoDir THEN Answered(c, Refused)
        ELSE /\ call' = [call EXCEPT ![c].step = "chosen", ![c].above = chosen]
             /\ UNCHANGED <<tree, starts, changed>>

(* Neither an operator's command goes through a server, nor a change its   *)
(* client stamps.                                                          *)
Directly(request) == request.op = "operate"
Stamped(request) == request.clock /\ request.op = "change"

(* What a directory holds: its store; or, with none, the connection to a   *)
(* server; or neither when it holds both, or one that leads nowhere.       *)
Found(d) ==
  CASE Stored(d) /\ ~Connected(d) -> "store"
    [] ~Stored(d) /\ tree[d].connection = "leads" -> "server"
    [] OTHER -> "refused"

(* The call is made of what is there: the store, to be opened, or the      *)
(* server.                                                                 *)
Reaches(c) ==
  LET d == call[c].above
      through == ~Directly(call[c].request) /\ ~Stamped(call[c].request)
  IN /\ call[c].step = "chosen" /\ call[c].request.op # "where"
     /\ IF Found(d) = "store"
        THEN call' = [call EXCEPT ![c].step = "opening"] /\ UNCHANGED <<tree, starts, changed>>
        ELSE Answered(c, IF Found(d) = "server" /\ through THEN [by |-> "server", at |-> d]
                         ELSE Refused)

(* Or where it would go is told, nothing opened and nothing called.        *)
Tells(c) ==
  LET d == call[c].above
  IN /\ call[c].step = "chosen" /\ call[c].request.op = "where"
     /\ Answered(c, IF Found(d) = "refused" THEN Refused ELSE [by |-> Found(d), at |-> d])

(* The store is opened, its marker told apart: this kb's, or another's.    *)
Opens(c) ==
  /\ call[c].step = "opening"
  /\ Answered(c, IF tree[call[c].above].marker = "ours"
                  THEN [by |-> "store", at |-> call[c].above] ELSE Refused)

Returns(c) ==
  /\ call[c].step = "answered"
  /\ call' = [call EXCEPT ![c] = Idle(@.request)]
  /\ UNCHANGED <<tree, starts, changed>>

-----------------------------------------------------------------------------
(* The tree changes: calls underway are no longer of one tree.             *)
Becomes(d, directory) ==
  /\ changed < MaxChanges /\ changed' = changed + 1
  /\ tree' = [tree EXCEPT ![d] = directory]
  /\ call' = [c \in Callers |->
                IF call[c].step = "none" THEN call[c] ELSE [call[c] EXCEPT !.still = FALSE]]

(* Mutated: a start looks at its own directory alone.                      *)
FoundAt(d) == {e \in {d} : Stored(e)}

(* The directories above one with a store inside them.                     *)
FoundAbove(d) == {e \in AtOrAbove(d) \ {d} : Stored(e)}

(* A start looks at where it would go, whether kb can write there apart.   *)
Looks(d) ==
  /\ starts[d].step = "none" /\ tree[d].there /\ ~tree[d].place /\ FoundAbove(d) = {}
  /\ starts' = [e \in Dirs |->
                  IF e = d THEN [step |-> "looked", alone |-> \A f \in Dirs : starts[f].step = "none"]
                  ELSE [starts[e] EXCEPT !.alone = @ /\ starts[e].step = "none"]]
  /\ UNCHANGED <<tree, call, changed>>

(* It makes its place, refused where anything is by then.                  *)
Makes(d) ==
  /\ starts[d].step = "looked"
  /\ IF tree[d].there /\ ~tree[d].place
     THEN /\ Becomes(d, [tree[d] EXCEPT !.place = TRUE])
          /\ starts' = [starts EXCEPT ![d].step = "made"]
     ELSE /\ starts' = [starts EXCEPT ![d] = NoStart]
          /\ UNCHANGED <<tree, call, changed>>

(* Its store, whole, is marked last.                                       *)
MarksLast(d) ==
  /\ starts[d].step = "made"
  /\ Becomes(d, [tree[d] EXCEPT !.marker = "ours"])
  /\ starts' = [starts EXCEPT ![d] = NoStart]

(* It fails, and its place is removed with whatever is there.              *)
Breaks(d) ==
  /\ starts[d].step = "made"
  /\ Becomes(d, [tree[d] EXCEPT !.place = FALSE, !.connection = "none"])
  /\ starts' = [starts EXCEPT ![d] = NoStart]

(* Whoever arranges the callers writes a connection, which may lead        *)
(* nowhere, where a store is or not; and removes it, with its place when   *)
(* nothing is left in it.                                                  *)
Arranges(d) ==
  /\ tree[d].there /\ ~Connected(d)
  /\ \E connection \in {"leads", "broken"} :
       Becomes(d, [tree[d] EXCEPT !.place = TRUE, !.connection = connection])
  /\ UNCHANGED starts

Disconnects(d) ==
  /\ Connected(d)
  /\ \E empty \in BOOLEAN :
       /\ empty => ~Stored(d) /\ starts[d].step # "made"
       /\ Becomes(d, [tree[d] EXCEPT !.connection = "none", !.place = ~empty])
  /\ UNCHANGED starts

(* A store is taken away; a directory with no place and nothing below it   *)
(* is removed.                                                             *)
TakenAway(d) ==
  /\ Stored(d)
  /\ Becomes(d, Bare)
  /\ UNCHANGED starts

Removed(d) ==
  /\ tree[d].there /\ ~tree[d].place /\ \A e \in Dirs : Parent[e] = d => ~tree[e].there
  /\ Becomes(d, Gone)
  /\ UNCHANGED starts

Next ==
  \/ \E c \in Callers :
       \/ Asks(c) \/ Searches(c) \/ Chooses(c)
       \/ Reaches(c) \/ Tells(c) \/ Opens(c) \/ Returns(c)
  \/ \E d \in Dirs :
       \/ Looks(d) \/ Makes(d) \/ MarksLast(d) \/ Breaks(d)
       \/ Arranges(d) \/ Disconnects(d) \/ TakenAway(d) \/ Removed(d)

Spec == Init /\ [][Next]_vars

-----------------------------------------------------------------------------
(* A call over a tree that stays as it is goes to the one place its caller *)
(* can mean, or is told of it, and is refused when there is none or more   *)
(* than one: what KB_ROOT names and what stands nearest must not differ, a *)
(* store and a connection do not stand in one place, a store opened is of  *)
(* this kb's form, and what must not go through a server does not          *)
(* (store.locate, locate_from, _found_at, _told_apart, directly,           *)
(* client._call, where).                                                   *)
Meant(request) ==
  LET from == IF request.root # NoDir THEN {request.root}
              ELSE {d \in {request.cwd} : tree[d].there}
      stops(b, d) == d \in AtOrAbove(b) /\ \A e \in AtOrAbove(b) : Marks(e) => e \in AtOrAbove(d)
      nearest == {d \in Dirs : Marks(d) /\ \E b \in from : stops(b, d)}
      named == IF request.root # NoDir \/ request.env = Unset THEN nearest
               ELSE {d \in Dirs \cap {request.env} : Marks(d)}
      places == {<<"store", d>> : d \in {e \in nearest \cup named : Stored(e)}}
                \cup {<<"server", d>> : d \in {e \in nearest \cup named : Connected(e)}}
      through == request.op = "read" \/ (request.op = "change" /\ ~request.clock)
      fits(p) ==
        CASE p[1] = "store" -> request.op = "where" \/ tree[p[2]].marker = "ours"
          [] p[1] = "server" -> tree[p[2]].connection = "leads" /\ (request.op = "where" \/ through)
  IN {[by |-> p[1], at |-> p[2]] : p \in {q \in places : places = {q} /\ named # {} /\ fits(q)}}

GoesWhereMeant ==
  \A c \in Callers : call[c].step = "answered" /\ call[c].still =>
    LET meant == Meant(call[c].request)
    IN call[c].answer = IF meant = {} THEN Refused ELSE CHOOSE answer \in meant : TRUE

(* A start during which no other was made never puts a store below another *)
(* that stands there; and however the tree changes under a call, what      *)
(* answers it is at or above where its caller is, or where KB_ROOT names   *)
(* it, and stands there as it answers (store.vacant, find_above, start).   *)
StoresApart ==
  [][/\ \A d \in Dirs : starts[d].step = "made" /\ tree'[d].marker = "ours" /\ starts[d].alone =>
          \A e \in AtOrAbove(d) \ {d} : ~Stored(e)
     /\ \A c \in Callers : call[c].step # "answered" /\ call'[c].answer.by # "refused" =>
          LET d == call'[c].answer.at
              from == {call[c].request.cwd, call[c].request.root} \cap Dirs
          IN /\ d \in (UNION {AtOrAbove(e) : e \in from}) \cup {call[c].request.env}
             /\ call'[c].answer.by = "server" => tree[d].connection = "leads"
             /\ call'[c].answer.by = "store" =>
                  Stored(d) /\ (call[c].request.op # "where" => tree[d].marker = "ours")]_vars

(* No directory is inside two stores, as the specification says of it      *)
(* (spec/index.md:28): kept, with the configuration that shows it is not.  *)
NeverNested ==
  \A d \in Dirs : Cardinality({e \in AtOrAbove(d) : Stored(e)}) <= 1
=============================================================================
