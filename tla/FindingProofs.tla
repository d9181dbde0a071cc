--------------------------- MODULE FindingProofs ---------------------------
(***************************************************************************)
(* Proofs about Finding, for any callers and any trees of directories: a   *)
(* call over a tree that stays goes where its caller can only mean, and a  *)
(* start made with no other puts no store below one.                       *)
(***************************************************************************)
EXTENDS Finding, SequenceTheorems, TLAPS

-----------------------------------------------------------------------------
(* The directories above one.                                              *)

(* A sequence leads from a directory all the way up.                       *)
Leads(s, d) ==
  /\ s \in Seq(Dirs) /\ s # <<>> /\ s[1] = d
  /\ \A i \in 1..(Len(s) - 1) : s[i + 1] = Parent[s[i]]
  /\ Parent[s[Len(s)]] = NoDir

(* What leads up from a directory is led to from those inside it.          *)
LEMMA LeadsFurther ==
  ASSUME NEW d \in Dirs
  PROVE  /\ Parent[d] = NoDir => Leads(<<d>>, d)
         /\ Parent[d] # NoDir => \A t : Leads(t, Parent[d]) => Leads(<<d>> \o t, d)
<1>1. Parent[d] = NoDir => Leads(<<d>>, d)
  BY DEF Leads
<1>2. ASSUME Parent[d] # NoDir, NEW t, Leads(t, Parent[d]) PROVE Leads(<<d>> \o t, d)
  <2> DEFINE s == <<d>> \o t
  <2>1. t \in Seq(Dirs) /\ t # <<>> /\ Len(t) \in Nat \ {0} /\ <<d>> \in Seq(Dirs) /\ Len(<<d>>) = 1
    BY <1>2, EmptySeq DEF Leads
  <2>2. /\ s \in Seq(Dirs) /\ Len(s) = Len(t) + 1 /\ s[1] = d
        /\ \A i \in 1..Len(t) : s[i + 1] = t[i]
    BY <2>1, ConcatProperties
  <2>3. s # <<>>
    BY <2>1, <2>2
  <2>4. ASSUME NEW i \in 1..(Len(s) - 1) PROVE s[i + 1] = Parent[s[i]]
    <3>1. CASE i = 1
      BY <1>2, <2>1, <2>2, <3>1 DEF Leads
    <3>2. CASE i # 1
      <4>1. i - 1 \in 1..(Len(t) - 1) /\ i \in 1..Len(t) /\ (i - 1) + 1 = i
        BY <2>1, <2>2, <3>2
      <4>2. s[i] = t[i - 1] /\ s[i + 1] = t[i]
        BY <2>1, <2>2, <4>1
      <4> QED
        BY <1>2, <4>1, <4>2 DEF Leads
    <3> QED
      BY <3>1, <3>2
  <2>5. Parent[s[Len(s)]] = NoDir
    BY <1>2, <2>1, <2>2 DEF Leads
  <2> QED
    BY <2>2, <2>3, <2>4, <2>5 DEF Leads
<1> QED
  BY <1>1, <1>2

(* And what leads up from a directory goes on from the one it is in.       *)
LEMMA LeadsOn ==
  ASSUME NEW d \in Dirs, NEW s, Leads(s, d)
  PROVE  /\ Parent[d] = NoDir => s = <<d>>
         /\ Parent[d] # NoDir => Leads(Tail(s), Parent[d]) /\ s = <<d>> \o Tail(s)
<1>1. s \in Seq(Dirs) /\ s # <<>> /\ s[1] = d /\ Len(s) \in Nat \ {0}
  BY EmptySeq DEF Leads
<1>2. /\ Tail(s) \in Seq(Dirs) /\ Len(Tail(s)) = Len(s) - 1
      /\ \A i \in 1..Len(Tail(s)) : Tail(s)[i] = s[i + 1]
  BY <1>1, HeadTailProperties
<1>3. s = <<d>> \o Tail(s)
  <2>1. <<d>> \in Seq(Dirs) /\ Len(<<d>>) = 1
    OBVIOUS
  <2>2. /\ <<d>> \o Tail(s) \in Seq(Dirs) /\ Len(<<d>> \o Tail(s)) = Len(s)
        /\ \A i \in 1..Len(s) : (<<d>> \o Tail(s))[i] = s[i]
    BY <1>1, <1>2, <2>1, ConcatProperties
  <2> QED
    BY <1>1, <2>2, SeqEqual
<1>4. ASSUME Parent[d] = NoDir PROVE s = <<d>>
  <2>1. Len(s) = 1
    <3>1. SUFFICES ASSUME Len(s) # 1 PROVE FALSE
      OBVIOUS
    <3>2. 1 \in 1..(Len(s) - 1) /\ 1 + 1 \in 1..Len(s)
      <4> DEFINE n == Len(s)
      <4>1. n \in Nat /\ n # 0 /\ n # 1
        BY <1>1, <3>1
      <4> HIDE DEF n
      <4>2. 1 \in 1..(n - 1) /\ 1 + 1 \in 1..n
        BY <4>1
      <4> QED
        BY <4>2 DEF n
    <3>3. s[1 + 1] = Parent[s[1]]
      BY <3>2 DEF Leads
    <3>4. s[1 + 1] \in Dirs
      BY <1>1, <3>2, ElementOfSeq
    <3>5. Parent[s[1]] = NoDir
      BY <1>1, <1>4
    <3> QED
      BY <3>3, <3>4, <3>5, ParentAssumption
  <2> QED
    BY <1>1, <2>1
<1>5. ASSUME Parent[d] # NoDir PROVE Leads(Tail(s), Parent[d])
  <2>1. Len(s) # 1
    BY <1>1, <1>5 DEF Leads
  <2>2. Tail(s) # <<>> /\ Tail(s)[1] = Parent[d]
    <3>1. Len(Tail(s)) # 0 /\ 1 \in 1..Len(Tail(s)) /\ 1 \in 1..(Len(s) - 1)
      BY <1>1, <1>2, <2>1
    <3>2. Tail(s)[1] = s[1 + 1]
      BY <1>2, <3>1
    <3>3. s[1 + 1] = Parent[s[1]]
      BY <3>1 DEF Leads
    <3>4. Tail(s)[1] = Parent[d]
      BY <1>1, <3>2, <3>3
    <3>5. Tail(s) # <<>>
      BY <3>1
    <3> QED
      BY <3>4, <3>5
  <2>3. ASSUME NEW i \in 1..(Len(Tail(s)) - 1) PROVE Tail(s)[i + 1] = Parent[Tail(s)[i]]
    <3>1. i \in 1..Len(Tail(s)) /\ i + 1 \in 1..Len(Tail(s)) /\ i + 1 \in 1..(Len(s) - 1)
      BY <1>1, <1>2
    <3> QED
      BY <1>2, <3>1 DEF Leads
  <2>4. Parent[Tail(s)[Len(Tail(s))]] = NoDir
    <3>1. Len(Tail(s)) \in 1..Len(Tail(s)) /\ Len(Tail(s)) + 1 = Len(s)
      BY <1>1, <1>2, <2>1
    <3> QED
      BY <1>2, <3>1 DEF Leads
  <2> QED
    BY <1>2, <2>2, <2>3, <2>4 DEF Leads
<1> QED
  BY <1>3, <1>4, <1>5

(* One sequence leads up from each directory.                              *)
LEMMA LeadsOnce == \A d \in Dirs : \E s : Leads(s, d) /\ \A t : Leads(t, d) => t = s
<1> DEFINE Once(d) == \E s : Leads(s, d) /\ \A t : Leads(t, d) => t = s
           S == {d \in Dirs : ~Once(d)}
<1>1. SUFFICES ASSUME S # {} PROVE FALSE
  OBVIOUS
<1>2. PICK d \in S : Parent[d] \notin S
  BY <1>1, ForestAssumption
<1>3. CASE Parent[d] = NoDir
  <2>1. Leads(<<d>>, d) /\ \A t : Leads(t, d) => t = <<d>>
    BY <1>3, LeadsFurther, LeadsOn
  <2>2. Once(d)
    BY <2>1
  <2> QED
    BY <2>2
<1>4. CASE Parent[d] # NoDir
  <2>1. Once(Parent[d])
    BY <1>2, <1>4, ParentAssumption
  <2>2. PICK s : Leads(s, Parent[d]) /\ \A t : Leads(t, Parent[d]) => t = s
    BY <2>1
  <2>3. Leads(<<d>> \o s, d)
    BY <1>4, <2>2, LeadsFurther
  <2>4. ASSUME NEW t, Leads(t, d) PROVE t = <<d>> \o s
    BY <1>4, <2>2, <2>4, LeadsOn
  <2> QED
    BY <2>3, <2>4
<1> QED
  BY <1>3, <1>4

(* The sequence of a directory and those above it (UpFrom) is what its     *)
(* recursion says.                                                         *)
LEMMA UpFromStep ==
  /\ UpFrom \in [Dirs -> Seq(Dirs)]
  /\ \A d \in Dirs :
       UpFrom[d] = IF Parent[d] = NoDir THEN <<d>> ELSE <<d>> \o UpFrom[Parent[d]]
<1> DEFINE f == [d \in Dirs |-> CHOOSE s : Leads(s, d)]
<1>1. \A d \in Dirs : Leads(f[d], d)
  BY LeadsOnce
<1>2. ASSUME NEW d \in Dirs
      PROVE  f[d] = IF Parent[d] = NoDir THEN <<d>> ELSE <<d>> \o f[Parent[d]]
  <2>1. CASE Parent[d] = NoDir
    BY <1>1, <2>1, LeadsOn
  <2>2. CASE Parent[d] # NoDir
    <3>1. Parent[d] \in Dirs
      BY <2>2, ParentAssumption
    <3>2. Leads(<<d>> \o f[Parent[d]], d)
      BY <1>1, <2>2, <3>1, LeadsFurther
    <3> QED
      BY <1>1, <2>2, <3>2, LeadsOnce
  <2> QED
    BY <2>1, <2>2
<1>3. f = [d \in Dirs |-> IF Parent[d] = NoDir THEN <<d>> ELSE <<d>> \o f[Parent[d]]]
  <2>1. f = [d \in Dirs |-> f[d]]
    OBVIOUS
  <2> HIDE DEF f
  <2> QED
    BY <1>2, <2>1
<1>4. UpFrom = [d \in Dirs |-> IF Parent[d] = NoDir THEN <<d>> ELSE <<d>> \o UpFrom[Parent[d]]]
  <2> HIDE DEF f
  <2> QED
    BY <1>3, Zenon DEF UpFrom
<1>5. \A d \in Dirs : UpFrom[d] = IF Parent[d] = NoDir THEN <<d>> ELSE <<d>> \o UpFrom[Parent[d]]
  BY <1>4, Zenon
<1>6. \A d \in Dirs : UpFrom[d] \in Seq(Dirs)
  <2> DEFINE S == {d \in Dirs : UpFrom[d] \notin Seq(Dirs)}
  <2>1. SUFFICES ASSUME S # {} PROVE FALSE
    OBVIOUS
  <2>2. PICK d \in S : Parent[d] \notin S
    BY <2>1, ForestAssumption
  <2>3. <<d>> \in Seq(Dirs)
    OBVIOUS
  <2>4. Parent[d] # NoDir => UpFrom[Parent[d]] \in Seq(Dirs)
    BY <2>2, ParentAssumption
  <2>5. UpFrom[d] \in Seq(Dirs)
    BY <1>5, <2>3, <2>4, ConcatProperties
  <2> QED
    BY <2>5
<1> QED
  BY <1>4, <1>5, <1>6

(* Looked at one by one, from a directory to the one it is in.             *)
LEMMA UpFromLooked ==
  ASSUME NEW d \in Dirs
  PROVE  /\ UpFrom[d] \in Seq(Dirs) /\ UpFrom[d] # <<>> /\ Head(UpFrom[d]) = d
         /\ Tail(UpFrom[d]) = IF Parent[d] = NoDir THEN <<>> ELSE UpFrom[Parent[d]]
<1>1. UpFrom[d] \in Seq(Dirs)
  BY UpFromStep
<1>2. CASE Parent[d] = NoDir
  <2>1. UpFrom[d] = <<d>>
    BY <1>2, UpFromStep
  <2> QED
    BY <1>1, <1>2, <2>1
<1>3. CASE Parent[d] # NoDir
  <2> DEFINE t == UpFrom[Parent[d]]
  <2>1. t \in Seq(Dirs) /\ UpFrom[d] = <<d>> \o t /\ <<d>> \in Seq(Dirs)
    <3>1. Parent[d] \in Dirs /\ <<d>> \in Seq(Dirs)
      BY <1>3, ParentAssumption
    <3> QED
      BY <1>3, <3>1, UpFromStep, Zenon
  <2> HIDE DEF t
  <2>2. <<d>> \o t # <<>> /\ Head(<<d>> \o t) = d
    <3>1. Len(<<d>> \o t) # 0 /\ (<<d>> \o t)[1] = d
      BY <2>1, ConcatProperties
    <3> QED
      BY <3>1
  <2>3. Tail(<<d>> \o t) = t
    BY <2>1
  <2> QED
    BY <1>1, <1>3, <2>1, <2>2, <2>3 DEF t
<1> QED
  BY <1>2, <1>3

(* What is at or above a directory (AtOrAbove): it, and what is at or      *)
(* above the one it is in.                                                 *)
LEMMA AboveStep ==
  ASSUME NEW d \in Dirs
  PROVE  /\ AtOrAbove(d) \subseteq Dirs /\ d \in AtOrAbove(d)
         /\ Parent[d] = NoDir => AtOrAbove(d) = {d}
         /\ Parent[d] # NoDir =>
              Parent[d] \in Dirs /\ AtOrAbove(d) = {d} \cup AtOrAbove(Parent[d])
<1>1. UpFrom[d] \in Seq(Dirs) /\ Len(UpFrom[d]) \in Nat \ {0} /\ UpFrom[d][1] = d
  BY UpFromLooked, EmptySeq
<1>2. AtOrAbove(d) = {UpFrom[d][i] : i \in 1..Len(UpFrom[d])}
  BY <1>1, LenProperties DEF AtOrAbove, ToSet
<1>3. AtOrAbove(d) \subseteq Dirs
  BY <1>1, <1>2, ElementOfSeq
<1>4. d \in AtOrAbove(d)
  <2>1. 1 \in 1..Len(UpFrom[d])
    BY <1>1
  <2> QED
    BY <1>1, <1>2, <2>1, Zenon
<1>5. ASSUME Parent[d] = NoDir PROVE AtOrAbove(d) = {d}
  <2>1. UpFrom[d] = <<d>>
    BY <1>5, UpFromStep
  <2>2. Len(<<d>>) = 1 /\ <<d>>[1] = d /\ 1..1 = {1}
    OBVIOUS
  <2>3. AtOrAbove(d) = {<<d>>[i] : i \in {1}}
    BY <1>2, <2>1, <2>2, Zenon
  <2> QED
    BY <2>2, <2>3
<1>6. ASSUME Parent[d] # NoDir
      PROVE  Parent[d] \in Dirs /\ AtOrAbove(d) = {d} \cup AtOrAbove(Parent[d])
  <2> DEFINE t == UpFrom[Parent[d]]
             s == <<d>> \o t
  <2>1. /\ Parent[d] \in Dirs /\ t \in Seq(Dirs) /\ UpFrom[d] = s
        /\ <<d>> \in Seq(Dirs) /\ Len(t) \in Nat
    <3>1. Parent[d] \in Dirs /\ <<d>> \in Seq(Dirs)
      BY <1>6, ParentAssumption
    <3>2. t \in Seq(Dirs) /\ UpFrom[d] = s
      BY <1>6, <3>1, UpFromStep, Zenon
    <3> QED
      BY <3>1, <3>2, LenProperties
  <2>2. AtOrAbove(Parent[d]) = {t[i] : i \in 1..Len(t)}
    BY <2>1, LenProperties DEF AtOrAbove, ToSet
  <2>3. /\ Len(s) = Len(t) + 1 /\ s[1] = d
        /\ \A i \in 1..Len(t) : s[i + 1] = t[i]
    BY <2>1, ConcatProperties
  <2>4. AtOrAbove(d) = {s[i] : i \in 1..Len(s)}
    BY <1>2, <2>1
  <2> HIDE DEF s, t
  <2>5. \A i \in 1..Len(s) : i = 1 \/ (i - 1 \in 1..Len(t) /\ s[i] = t[i - 1])
    <3>1. \A i \in 1..Len(s) : i # 1 => i - 1 \in 1..Len(t) /\ (i - 1) + 1 = i
      BY <2>1, <2>3
    <3> QED
      BY <2>3, <3>1
  <2>6. {s[i] : i \in 1..Len(s)} \subseteq {d} \cup {t[i] : i \in 1..Len(t)}
    BY <2>3, <2>5
  <2>7. {d} \cup {t[i] : i \in 1..Len(t)} \subseteq {s[i] : i \in 1..Len(s)}
    <3>1. \A i \in 1..Len(t) : i + 1 \in 1..Len(s)
      BY <2>1, <2>3
    <3>2. 1 \in 1..Len(s)
      BY <2>1, <2>3
    <3> QED
      BY <2>3, <3>1, <3>2
  <2> QED
    BY <2>1, <2>2, <2>4, <2>6, <2>7
<1> QED
  BY <1>3, <1>4, <1>5, <1>6

(* What is above one above is above.                                       *)
LEMMA AboveAbove ==
  ASSUME NEW d \in Dirs, NEW e \in AtOrAbove(d)
  PROVE  AtOrAbove(e) \subseteq AtOrAbove(d)
<1> DEFINE S == {f \in Dirs : \E g \in AtOrAbove(f) : ~(AtOrAbove(g) \subseteq AtOrAbove(f))}
<1>1. SUFFICES ASSUME S # {} PROVE FALSE
  BY Zenon
<1>2. PICK f \in S : Parent[f] \notin S
  BY <1>1, ForestAssumption
<1>3. PICK g \in AtOrAbove(f) : ~(AtOrAbove(g) \subseteq AtOrAbove(f))
  BY <1>2
<1>4. CASE Parent[f] = NoDir
  BY <1>3, <1>4, AboveStep
<1>5. CASE Parent[f] # NoDir
  <2>1. g # f /\ Parent[f] \in Dirs /\ AtOrAbove(f) = {f} \cup AtOrAbove(Parent[f])
    BY <1>3, <1>5, AboveStep
  <2>2. g \in AtOrAbove(Parent[f])
    BY <2>1
  <2>3. AtOrAbove(g) \subseteq AtOrAbove(Parent[f])
    BY <1>2, <2>1, <2>2
  <2> QED
    BY <1>3, <2>1, <2>3
<1> QED
  BY <1>4, <1>5

(* No two directories are each above the other.                            *)
LEMMA AboveOneWay ==
  ASSUME NEW d \in Dirs, NEW e \in AtOrAbove(d), d \in AtOrAbove(e)
  PROVE  d = e
<1> DEFINE S == {x \in AtOrAbove(d) : d \in AtOrAbove(x)}
<1>1. SUFFICES ASSUME d # e PROVE FALSE
  OBVIOUS
<1>2. S \in SUBSET Dirs /\ S # {} /\ e \in S
  BY AboveStep
<1>3. PICK x \in S : Parent[x] \notin S
  BY <1>2, ForestAssumption
<1>4. Parent[x] # NoDir /\ d \in AtOrAbove(Parent[x])
  <2>1. CASE x # d
    BY <1>2, <1>3, <2>1, AboveStep
  <2>2. CASE x = d
    <3>1. Parent[d] # NoDir /\ Parent[d] \in Dirs /\ e \in AtOrAbove(Parent[d])
      BY <1>1, AboveStep
    <3>2. AtOrAbove(e) \subseteq AtOrAbove(Parent[d])
      BY <3>1, AboveAbove
    <3> QED
      BY <2>2, <3>1, <3>2
  <2> QED
    BY <2>1, <2>2
<1>5. Parent[x] \in AtOrAbove(x) /\ AtOrAbove(x) \subseteq AtOrAbove(d)
  BY <1>2, <1>3, <1>4, AboveStep, AboveAbove
<1> QED
  BY <1>3, <1>4, <1>5

-----------------------------------------------------------------------------
(* Types.                                                                  *)

Answer == [by : {"refused", "store", "server"}, at : Dirs \cup {NoDir}]

Call ==
  {k \in [step : {"none", "searching", "searched", "chosen", "opening", "answered"},
          request : Request, left : Seq(Dirs), above : Dirs \cup {NoDir}, answer : Answer,
          still : BOOLEAN] : k.step \in {"chosen", "opening"} => k.above \in Dirs}

TypeOK ==
  /\ tree \in [Dirs -> Directory]
  /\ starts \in [Dirs -> [step : {"none", "looked", "made"}, alone : BOOLEAN]]
  /\ call \in [Callers -> Call]
  /\ changed \in Nat

(* A call's steps, a start's, and everyone else's.                         *)
CallStep(c) ==
  Asks(c) \/ Searches(c) \/ Chooses(c) \/ Reaches(c) \/ Tells(c) \/ Opens(c) \/ Returns(c)

TreeStep(d) ==
  \/ Looks(d) \/ Makes(d) \/ MarksLast(d) \/ Breaks(d)
  \/ Arranges(d) \/ Disconnects(d) \/ TakenAway(d) \/ Removed(d)

LEMMA NextSteps == Next <=> (\E c \in Callers : CallStep(c)) \/ (\E d \in Dirs : TreeStep(d))
BY DEF Next, CallStep, TreeStep

(* What a directory may become is one still.                               *)
LEMMA DirectoryTyped ==
  ASSUME NEW directory \in Directory
  PROVE  /\ Bare \in Directory /\ Gone \in Directory
         /\ [directory EXCEPT !.place = TRUE] \in Directory
         /\ [directory EXCEPT !.marker = "ours"] \in Directory
         /\ [directory EXCEPT !.place = FALSE, !.connection = "none"] \in Directory
         /\ \A connection \in {"leads", "broken"} :
              [directory EXCEPT !.place = TRUE, !.connection = connection] \in Directory
         /\ \A place \in BOOLEAN :
              [directory EXCEPT !.connection = "none", !.place = place] \in Directory
BY DEF Directory, Bare, Gone

(* Calls are calls still as the tree changes.                              *)
LEMMA BecomesTyped ==
  ASSUME TypeOK, NEW d \in Dirs, NEW directory \in Directory, Becomes(d, directory)
  PROVE  tree' \in [Dirs -> Directory] /\ call' \in [Callers -> Call] /\ changed' \in Nat
<1>1. \A c \in Callers : [call[c] EXCEPT !.still = FALSE] \in Call
  BY DEF TypeOK, Call
<1> QED
  BY <1>1 DEF TypeOK, Becomes

LEMMA TreeTyped ==
  ASSUME TypeOK, NEW d \in Dirs, TreeStep(d)
  PROVE  TypeOK'
<1> DEFINE Start == [step : {"none", "looked", "made"}, alone : BOOLEAN]
<1>1. NoStart \in Start
  BY DEF NoStart
<1>2. tree[d] \in Directory /\ starts[d] \in Start
  BY DEF TypeOK
<1>3. CASE Looks(d)
  <2>1. \A e \in Dirs : [starts[e] EXCEPT !.alone = @ /\ starts[e].step = "none"] \in Start
    BY DEF TypeOK
  <2>2. starts' \in [Dirs -> Start]
    BY <1>3, <2>1 DEF Looks
  <2> QED
    BY <1>3, <2>2 DEF Looks, TypeOK
<1>4. CASE Makes(d)
  <2>1. starts' \in [Dirs -> Start]
    BY <1>1, <1>4 DEF Makes, TypeOK
  <2>2. CASE tree[d].there /\ ~tree[d].place
    <3>1. Becomes(d, [tree[d] EXCEPT !.place = TRUE])
      BY <1>4, <2>2 DEF Makes
    <3> QED
      BY <1>2, <2>1, <3>1, DirectoryTyped, BecomesTyped DEF TypeOK
  <2>3. CASE ~(tree[d].there /\ ~tree[d].place)
    BY <1>4, <2>1, <2>3 DEF Makes, TypeOK
  <2> QED
    BY <2>2, <2>3
<1>5. CASE MarksLast(d)
  <2>1. starts' \in [Dirs -> Start]
    BY <1>1, <1>5 DEF MarksLast, TypeOK
  <2> QED
    BY <1>2, <1>5, <2>1, DirectoryTyped, BecomesTyped DEF MarksLast, TypeOK
<1>6. CASE Breaks(d)
  <2>1. starts' \in [Dirs -> Start]
    BY <1>1, <1>6 DEF Breaks, TypeOK
  <2> QED
    BY <1>2, <1>6, <2>1, DirectoryTyped, BecomesTyped DEF Breaks, TypeOK
<1>7. CASE Arranges(d)
  BY <1>2, <1>7, DirectoryTyped, BecomesTyped DEF Arranges, TypeOK
<1>8. CASE Disconnects(d)
  <2>1. PICK empty \in BOOLEAN :
          Becomes(d, [tree[d] EXCEPT !.connection = "none", !.place = ~empty])
    BY <1>8 DEF Disconnects
  <2>2. (~empty) \in BOOLEAN
    OBVIOUS
  <2> QED
    BY <1>2, <1>8, <2>1, <2>2, DirectoryTyped, BecomesTyped DEF Disconnects, TypeOK
<1>9. CASE TakenAway(d)
  BY <1>2, <1>9, DirectoryTyped, BecomesTyped DEF TakenAway, TypeOK
<1>10. CASE Removed(d)
  BY <1>2, <1>10, DirectoryTyped, BecomesTyped DEF Removed, TypeOK
<1> QED
  BY <1>3, <1>4, <1>5, <1>6, <1>7, <1>8, <1>9, <1>10 DEF TreeStep

(* What each step of a call does to it.                                    *)
Goes(c, new) == call' = [call EXCEPT ![c] = new] /\ UNCHANGED <<tree, starts, changed>>

LEMMA AnsweredGoes ==
  ASSUME NEW c, NEW answer, Answered(c, answer)
  PROVE  Goes(c, [call[c] EXCEPT !.step = "answered", !.answer = answer])
BY DEF Answered, Goes

LEMMA AsksGoes ==
  ASSUME NEW c, Asks(c)
  PROVE  \E request \in Requests :
           Goes(c, [Idle(request) EXCEPT
                      !.step = "searching",
                      !.left = IF request.root # NoDir THEN UpFrom[request.root]
                               ELSE IF tree[request.cwd].there THEN UpFrom[request.cwd] ELSE <<>>])
BY DEF Asks, Goes

LEMMA SearchesGoes ==
  ASSUME NEW c, Searches(c)
  PROVE  /\ call[c].step = "searching"
         /\ \/ call[c].left = <<>> /\ Goes(c, [call[c] EXCEPT !.step = "searched"])
            \/ /\ call[c].left # <<>> /\ Marks(Head(call[c].left))
               /\ Goes(c, [call[c] EXCEPT !.step = "searched", !.above = Head(call[c].left),
                                          !.left = <<>>])
            \/ /\ call[c].left # <<>> /\ ~Marks(Head(call[c].left))
               /\ Goes(c, [call[c] EXCEPT !.left = Tail(call[c].left)])
<1>1. /\ call[c].step = "searching" /\ UNCHANGED <<tree, starts, changed>>
      /\ call' = [call EXCEPT ![c] =
           IF call[c].left = <<>> THEN [call[c] EXCEPT !.step = "searched"]
           ELSE IF Marks(Head(call[c].left))
           THEN [call[c] EXCEPT !.step = "searched", !.above = Head(call[c].left), !.left = <<>>]
           ELSE [call[c] EXCEPT !.left = Tail(call[c].left)]]
  BY DEF Searches, StopsAt
<1>2. CASE call[c].left = <<>>
  BY <1>1, <1>2 DEF Goes
<1>3. CASE call[c].left # <<>> /\ Marks(Head(call[c].left))
  BY <1>1, <1>3 DEF Goes
<1>4. CASE call[c].left # <<>> /\ ~Marks(Head(call[c].left))
  BY <1>1, <1>4 DEF Goes
<1> QED
  BY <1>2, <1>3, <1>4

LEMMA ChoosesGoes ==
  ASSUME TypeOK, NEW c \in Callers, Chooses(c)
  PROVE  LET request == call[c].request
             above == call[c].above
             named == request.root = NoDir /\ request.env # Unset
             refused == Goes(c, [call[c] EXCEPT !.step = "answered", !.answer = Refused])
         IN  /\ call[c].step = "searched"
             /\ \/ ~named /\ above = NoDir /\ refused
                \/ /\ ~named /\ above \in Dirs
                   /\ Goes(c, [call[c] EXCEPT !.step = "chosen", !.above = above])
                \/ /\ named /\ request.env \in Dirs /\ Marks(request.env)
                   /\ above \in {NoDir, request.env}
                   /\ Goes(c, [call[c] EXCEPT !.step = "chosen", !.above = request.env])
                \/ /\ named
                   /\ ~(request.env \in Dirs /\ Marks(request.env) /\ above \in {NoDir, request.env})
                   /\ refused
<1> DEFINE request == call[c].request
           above == call[c].above
           named == request.root = NoDir /\ request.env # Unset
           meant == request.env \in Dirs /\ Marks(request.env) /\ above \in {NoDir, request.env}
           chosen == IF ~named THEN above ELSE IF meant THEN request.env ELSE NoDir
<1>1. call[c].step = "searched" /\ above \in Dirs \cup {NoDir}
  BY DEF Chooses, TypeOK, Call
<1>2. CASE chosen = NoDir
  <2>1. Goes(c, [call[c] EXCEPT !.step = "answered", !.answer = Refused])
    BY <1>2, AnsweredGoes DEF Chooses
  <2>2. (~named /\ above = NoDir) \/ (named /\ ~meant)
    BY <1>2, ParentAssumption
  <2> QED
    BY <1>1, <2>1, <2>2
<1>3. CASE chosen # NoDir
  <2>1. Goes(c, [call[c] EXCEPT !.step = "chosen", !.above = chosen])
    BY <1>3 DEF Chooses, Goes
  <2>2. (~named /\ above \in Dirs /\ chosen = above) \/ (named /\ meant /\ chosen = request.env)
    BY <1>1, <1>3
  <2> QED
    BY <1>1, <2>1, <2>2
<1> QED
  BY <1>2, <1>3

LEMMA ReachesGoes ==
  ASSUME NEW c, Reaches(c)
  PROVE  LET d == call[c].above
             through == ~Directly(call[c].request) /\ ~Stamped(call[c].request)
         IN  /\ call[c].step = "chosen" /\ call[c].request.op # "where"
             /\ \/ Found(d) = "store" /\ Goes(c, [call[c] EXCEPT !.step = "opening"])
                \/ /\ Found(d) = "server" /\ through
                   /\ Goes(c, [call[c] EXCEPT !.step = "answered",
                                              !.answer = [by |-> "server", at |-> d]])
                \/ /\ Found(d) # "store" /\ ~(Found(d) = "server" /\ through)
                   /\ Goes(c, [call[c] EXCEPT !.step = "answered", !.answer = Refused])
<1>1. CASE Found(call[c].above) = "store"
  BY <1>1 DEF Reaches, Goes
<1>2. CASE Found(call[c].above) # "store"
  BY <1>2, AnsweredGoes DEF Reaches
<1> QED
  BY <1>1, <1>2

LEMMA TellsGoes ==
  ASSUME NEW c, Tells(c)
  PROVE  LET d == call[c].above
         IN  /\ call[c].step = "chosen" /\ call[c].request.op = "where"
             /\ Goes(c, [call[c] EXCEPT !.step = "answered",
                          !.answer = IF Found(d) = "refused" THEN Refused
                                     ELSE [by |-> Found(d), at |-> d]])
BY AnsweredGoes DEF Tells

LEMMA OpensGoes ==
  ASSUME NEW c, Opens(c)
  PROVE  LET d == call[c].above
         IN  /\ call[c].step = "opening"
             /\ Goes(c, [call[c] EXCEPT !.step = "answered",
                          !.answer = IF tree[d].marker = "ours" THEN [by |-> "store", at |-> d]
                                     ELSE Refused])
BY AnsweredGoes DEF Opens

LEMMA ReturnsGoes ==
  ASSUME NEW c, Returns(c)
  PROVE  call[c].step = "answered" /\ Goes(c, Idle(call[c].request))
BY DEF Returns, Goes

LEMMA CallTyped ==
  ASSUME TypeOK, NEW c \in Callers, CallStep(c)
  PROVE  TypeOK'
<1>1. call[c] \in Call
  BY DEF TypeOK
<1> SUFFICES \E new \in Call : Goes(c, new)
  BY DEF TypeOK, Goes
<1>2. \A request \in Request, left \in Seq(Dirs) :
        [Idle(request) EXCEPT !.step = "searching", !.left = left] \in Call
  BY DEF Idle, Call, Answer, Refused
<1>3. \A answer \in Answer : [call[c] EXCEPT !.step = "answered", !.answer = answer] \in Call
  BY <1>1 DEF Call
<1>4. /\ Refused \in Answer
      /\ \A d \in Dirs : {[by |-> "store", at |-> d], [by |-> "server", at |-> d]} \subseteq Answer
  BY DEF Refused, Answer
<1>5. CASE Asks(c)
  <2>1. PICK request \in Requests :
          Goes(c, [Idle(request) EXCEPT
                     !.step = "searching",
                     !.left = IF request.root # NoDir THEN UpFrom[request.root]
                              ELSE IF tree[request.cwd].there THEN UpFrom[request.cwd] ELSE <<>>])
    BY <1>5, AsksGoes
  <2> DEFINE left == IF request.root # NoDir THEN UpFrom[request.root]
                     ELSE IF tree[request.cwd].there THEN UpFrom[request.cwd] ELSE <<>>
  <2>2. request \in Request /\ request.root \in Dirs \cup {NoDir} /\ request.cwd \in Dirs
    BY RequestsAssumption DEF Request
  <2>3. left \in Seq(Dirs)
    BY <2>2, UpFromStep
  <2>4. Goes(c, [Idle(request) EXCEPT !.step = "searching", !.left = left])
    BY <2>1
  <2> HIDE DEF left
  <2> QED
    BY <1>2, <2>2, <2>3, <2>4
<1>6. CASE Searches(c)
  <2>1. [call[c] EXCEPT !.step = "searched"] \in Call
    BY <1>1 DEF Call
  <2>2. ASSUME call[c].left # <<>>
        PROVE  /\ [call[c] EXCEPT !.step = "searched", !.above = Head(call[c].left), !.left = <<>>] \in Call
               /\ [call[c] EXCEPT !.left = Tail(call[c].left)] \in Call
    <3> DEFINE head == Head(call[c].left)
               tail == Tail(call[c].left)
    <3>1. head \in Dirs /\ tail \in Seq(Dirs)
      BY <1>1, <2>2, HeadTailProperties DEF Call
    <3> HIDE DEF head, tail
    <3>2. \A none \in Seq(Dirs) :
            [call[c] EXCEPT !.step = "searched", !.above = head, !.left = none] \in Call
      BY <1>1, <3>1 DEF Call
    <3>3. <<>> \in Seq(Dirs)
      BY EmptySeq
    <3>4. [call[c] EXCEPT !.left = tail] \in Call
      BY <1>1, <3>1 DEF Call
    <3> QED
      BY <3>2, <3>3, <3>4 DEF head, tail
  <2> QED
    BY <1>6, <2>1, <2>2, SearchesGoes
<1>7. CASE Chooses(c)
  <2>1. \A d \in Dirs : [call[c] EXCEPT !.step = "chosen", !.above = d] \in Call
    BY <1>1 DEF Call
  <2> QED
    BY <1>3, <1>4, <1>7, <2>1, ChoosesGoes
<1>8. CASE Reaches(c)
  <2>1. call[c].above \in Dirs /\ [call[c] EXCEPT !.step = "opening"] \in Call
    BY <1>1, <1>8, ReachesGoes DEF Call
  <2> QED
    BY <1>3, <1>4, <1>8, <2>1, ReachesGoes
<1>9. CASE Tells(c)
  <2>1. call[c].above \in Dirs
    BY <1>1, <1>9, TellsGoes DEF Call
  <2>2. Found(call[c].above) \in {"store", "server", "refused"}
    BY DEF Found
  <2> QED
    BY <1>3, <1>4, <1>9, <2>1, <2>2, TellsGoes
<1>10. CASE Opens(c)
  <2>1. call[c].above \in Dirs
    BY <1>1, <1>10, OpensGoes DEF Call
  <2> QED
    BY <1>3, <1>4, <1>10, <2>1, OpensGoes
<1>11. CASE Returns(c)
  <2>1. Idle(call[c].request) \in Call
    BY <1>1 DEF Idle, Call, Answer, Refused
  <2> QED
    BY <1>11, <2>1, ReturnsGoes
<1> QED
  BY <1>5, <1>6, <1>7, <1>8, <1>9, <1>10, <1>11 DEF CallStep

LEMMA TypesStart == Init => TypeOK
<1> SUFFICES ASSUME Init PROVE TypeOK
  OBVIOUS
<1>1. (CHOOSE r \in Requests : TRUE) \in Request
  BY RequestsAssumption
<1>2. \A request \in Request : Idle(request) \in Call
  BY DEF Idle, Call, Answer, Refused
<1>3. call \in [Callers -> Call]
  BY <1>1, <1>2 DEF Init
<1>4. starts \in [Dirs -> [step : {"none", "looked", "made"}, alone : BOOLEAN]]
  BY DEF Init, NoStart
<1>5. tree \in [Dirs -> Directory] /\ changed \in Nat
  BY RequestsAssumption DEF Init
<1> QED
  BY <1>3, <1>4, <1>5 DEF TypeOK

LEMMA TypesNext == TypeOK /\ [Next]_vars => TypeOK'
<1>1. ASSUME TypeOK, UNCHANGED vars PROVE TypeOK'
  BY <1>1 DEF TypeOK, vars
<1> QED
  BY <1>1, NextSteps, CallTyped, TreeTyped

-----------------------------------------------------------------------------
(* What is found, and what is put below what.                              *)

(* Where a call's search begins.                                           *)
Base(request) == IF request.root # NoDir THEN request.root ELSE request.cwd

(* A call's search has come no further than it could, and goes nowhere     *)
(* else; it is answered once.                                              *)
Reached(k) ==
  /\ k.step # "answered" => k.answer = Refused
  /\ k.step = "searching" =>
       /\ k.above = NoDir
       /\ k.left = <<>> \/ \E h \in AtOrAbove(Base(k.request)) : k.left = UpFrom[h]
  /\ k.step = "searched" => k.above = NoDir \/ k.above \in AtOrAbove(Base(k.request))
  /\ k.step \in {"chosen", "opening"} =>
       k.above \in AtOrAbove(Base(k.request)) \cup {k.request.env}
  /\ k.step = "opening" => k.request.op # "where"

(* A start under way, alone since it looked, is still the only one, and    *)
(* what it looked for is still not there.                                  *)
StillAlone(d) ==
  starts[d].step # "none" /\ starts[d].alone =>
    /\ \A e \in Dirs \ {d} : starts[e].step = "none"
    /\ \A e \in AtOrAbove(d) \ {d} : ~Stored(e)

ApartInv == (\A c \in Callers : Reached(call[c])) /\ (\A d \in Dirs : StillAlone(d))

LEMMA ApartStart == Init => ApartInv
<1> SUFFICES ASSUME Init PROVE ApartInv
  OBVIOUS
<1>1. \A request : Reached(Idle(request))
  BY DEF Reached, Idle
<1>2. \A c \in Callers : Reached(call[c])
  BY <1>1 DEF Init
<1>3. \A d \in Dirs : StillAlone(d)
  BY DEF Init, StillAlone, NoStart
<1> QED
  BY <1>2, <1>3 DEF ApartInv

(* Where a search begins is a directory.                                   *)
LEMMA BaseTyped ==
  ASSUME NEW request \in Request
  PROVE  Base(request) \in Dirs
BY DEF Base, Request

(* A call's step keeps what it has reached.                                *)
LEMMA CallReached ==
  ASSUME TypeOK, NEW c \in Callers, CallStep(c), Reached(call[c])
  PROVE  \E new : Goes(c, new) /\ Reached(new)
<1>1. call[c] \in Call /\ call[c].request \in Request
  BY DEF TypeOK, Call
<1>2. CASE Asks(c)
  <2>1. PICK request \in Requests :
          Goes(c, [Idle(request) EXCEPT
                     !.step = "searching",
                     !.left = IF request.root # NoDir THEN UpFrom[request.root]
                              ELSE IF tree[request.cwd].there THEN UpFrom[request.cwd] ELSE <<>>])
    BY <1>2, AsksGoes
  <2> DEFINE left == IF request.root # NoDir THEN UpFrom[request.root]
                     ELSE IF tree[request.cwd].there THEN UpFrom[request.cwd] ELSE <<>>
  <2>2. left = <<>> \/ left = UpFrom[Base(request)]
    BY DEF Base
  <2>3. Base(request) \in AtOrAbove(Base(request))
    BY RequestsAssumption, BaseTyped, AboveStep
  <2>4. Goes(c, [Idle(request) EXCEPT !.step = "searching", !.left = left])
    BY <2>1
  <2> HIDE DEF left
  <2>5. Reached([Idle(request) EXCEPT !.step = "searching", !.left = left])
    BY <2>2, <2>3 DEF Reached, Idle
  <2> QED
    BY <2>4, <2>5
<1>3. CASE Searches(c)
  <2> DEFINE k == call[c]
  <2>1. CASE k.left = <<>>
    <3>1. Reached([k EXCEPT !.step = "searched"])
      BY <1>1, <1>3, SearchesGoes DEF Reached, Call
    <3> QED
      BY <1>3, <2>1, <3>1, SearchesGoes
  <2>2. CASE k.left # <<>>
    <3>1. PICK h \in AtOrAbove(Base(k.request)) : k.left = UpFrom[h]
      BY <1>3, <2>2, SearchesGoes DEF Reached
    <3>2. /\ h \in Dirs /\ Head(k.left) = h
          /\ Tail(k.left) = IF Parent[h] = NoDir THEN <<>> ELSE UpFrom[Parent[h]]
      BY <1>1, <3>1, BaseTyped, AboveStep, UpFromLooked
    <3>3. Reached([k EXCEPT !.step = "searched", !.above = Head(k.left), !.left = <<>>])
      BY <1>1, <1>3, <3>1, <3>2, SearchesGoes DEF Reached, Call
    <3>4. Tail(k.left) = <<>> \/ \E g \in AtOrAbove(Base(k.request)) : Tail(k.left) = UpFrom[g]
      <4>1. Parent[h] # NoDir => Parent[h] \in AtOrAbove(h)
        BY <3>2, AboveStep
      <4>2. AtOrAbove(h) \subseteq AtOrAbove(Base(k.request))
        BY <1>1, <3>1, BaseTyped, AboveAbove
      <4> QED
        BY <3>2, <4>1, <4>2
    <3>5. Reached([k EXCEPT !.left = Tail(k.left)])
      <4> DEFINE tail == Tail(k.left)
      <4> HIDE DEF tail
      <4>1. tail = <<>> \/ \E g \in AtOrAbove(Base(k.request)) : tail = UpFrom[g]
        BY <3>4 DEF tail
      <4>2. Reached([k EXCEPT !.left = tail])
        BY <1>1, <1>3, <4>1, SearchesGoes DEF Reached, Call
      <4> QED
        BY <4>2 DEF tail
    <3> QED
      BY <1>3, <2>2, <3>3, <3>5, SearchesGoes
  <2> QED
    BY <2>1, <2>2
<1>4. \A answer : Reached([call[c] EXCEPT !.step = "answered", !.answer = answer])
  BY <1>1 DEF Reached, Call
<1>5. CASE Chooses(c)
  <2> DEFINE k == call[c]
  <2>1. k.step = "searched" /\ k.answer = Refused
    BY <1>5, ChoosesGoes DEF Reached
  <2>2. \A d \in Dirs : d \in {k.above, k.request.env} =>
          Reached([k EXCEPT !.step = "chosen", !.above = d])
    BY <1>1, <2>1, ParentAssumption DEF Reached, Call
  <2> QED
    BY <1>4, <1>5, <2>2, ChoosesGoes
<1>6. CASE Reaches(c)
  <2>1. call[c].step = "chosen" /\ call[c].request.op # "where"
    BY <1>6, ReachesGoes
  <2>2. Reached([call[c] EXCEPT !.step = "opening"])
    BY <1>1, <2>1 DEF Reached, Call
  <2> QED
    BY <1>4, <1>6, <2>2, ReachesGoes
<1>7. CASE Tells(c) \/ Opens(c)
  BY <1>4, <1>7, TellsGoes, OpensGoes
<1>8. CASE Returns(c)
  <2>1. Reached(Idle(call[c].request))
    BY DEF Reached, Idle
  <2> QED
    BY <1>8, <2>1, ReturnsGoes
<1> QED
  BY <1>2, <1>3, <1>5, <1>6, <1>7, <1>8 DEF CallStep

(* What a step of the tree does: to one directory, to its start, and to    *)
(* the calls underway; a store is marked only where a start has made its   *)
(* place, and the start is then over.                                      *)
LEMMA TreeGoes ==
  ASSUME TypeOK, NEW d \in Dirs, TreeStep(d)
  PROVE  /\ \A e \in Dirs \ {d} : tree'[e] = tree[e]
         /\ \/ tree'[d].marker \in {"none", tree[d].marker}
            \/ starts[d].step = "made" /\ starts'[d] = NoStart
         /\ \/ /\ starts[d].step = "none" /\ FoundAbove(d) = {} /\ tree' = tree
               /\ starts' = [e \in Dirs |->
                    IF e = d
                    THEN [step |-> "looked", alone |-> \A f \in Dirs : starts[f].step = "none"]
                    ELSE [starts[e] EXCEPT !.alone = @ /\ starts[e].step = "none"]]
            \/ /\ \A e \in Dirs \ {d} : starts'[e] = starts[e]
               /\ \/ starts'[d] \in {starts[d], NoStart}
                  \/ starts[d].step # "none" /\ starts'[d].alone = starts[d].alone
         /\ \/ tree' = tree /\ call' = call
            \/ call' = [c \in Callers |-> IF call[c].step = "none" THEN call[c]
                                          ELSE [call[c] EXCEPT !.still = FALSE]]
<1>1. tree[d] \in Directory /\ tree \in [Dirs -> Directory]
  BY DEF TypeOK
<1>2. starts[d] \in [step : {"none", "looked", "made"}, alone : BOOLEAN] /\ DOMAIN starts = Dirs
  BY DEF TypeOK
<1>3. ASSUME NEW directory, Becomes(d, directory)
      PROVE  /\ tree'[d] = directory /\ \A e \in Dirs \ {d} : tree'[e] = tree[e]
             /\ call' = [c \in Callers |-> IF call[c].step = "none" THEN call[c]
                                           ELSE [call[c] EXCEPT !.still = FALSE]]
  BY <1>1, <1>3 DEF Becomes
<1>4. CASE Looks(d)
  BY <1>1, <1>4 DEF Looks
<1>5. CASE Makes(d)
  <2>1. CASE tree[d].there /\ ~tree[d].place
    <3>1. /\ Becomes(d, [tree[d] EXCEPT !.place = TRUE])
          /\ starts' = [starts EXCEPT ![d].step = "made"] /\ starts[d].step = "looked"
      BY <1>5, <2>1 DEF Makes
    <3>2. [tree[d] EXCEPT !.place = TRUE].marker = tree[d].marker
      BY <1>1 DEF Directory
    <3>3. starts'[d].alone = starts[d].alone /\ \A e \in Dirs \ {d} : starts'[e] = starts[e]
      BY <1>2, <3>1
    <3> QED
      BY <1>3, <3>1, <3>2, <3>3
  <2>2. CASE ~(tree[d].there /\ ~tree[d].place)
    BY <1>1, <1>2, <1>5, <2>2 DEF Makes
  <2> QED
    BY <2>1, <2>2
<1>6. CASE MarksLast(d)
  <2>1. /\ Becomes(d, [tree[d] EXCEPT !.marker = "ours"]) /\ starts[d].step = "made"
        /\ starts'[d] = NoStart /\ \A e \in Dirs \ {d} : starts'[e] = starts[e]
    BY <1>2, <1>6 DEF MarksLast
  <2> QED
    BY <1>3, <2>1
<1>7. CASE Breaks(d)
  <2>1. /\ Becomes(d, [tree[d] EXCEPT !.place = FALSE, !.connection = "none"])
        /\ starts'[d] = NoStart /\ \A e \in Dirs \ {d} : starts'[e] = starts[e]
    BY <1>2, <1>7 DEF Breaks
  <2>2. [tree[d] EXCEPT !.place = FALSE, !.connection = "none"].marker = tree[d].marker
    BY <1>1 DEF Directory
  <2> QED
    BY <1>3, <2>1, <2>2
<1>8. CASE Arranges(d)
  <2>1. PICK connection \in {"leads", "broken"} :
          Becomes(d, [tree[d] EXCEPT !.place = TRUE, !.connection = connection])
    BY <1>8 DEF Arranges
  <2>2. [tree[d] EXCEPT !.place = TRUE, !.connection = connection].marker = tree[d].marker
    BY <1>1 DEF Directory
  <2>3. starts' = starts
    BY <1>8 DEF Arranges
  <2> QED
    BY <1>3, <2>1, <2>2, <2>3
<1>9. CASE Disconnects(d)
  <2>1. PICK empty \in BOOLEAN :
          Becomes(d, [tree[d] EXCEPT !.connection = "none", !.place = ~empty])
    BY <1>9 DEF Disconnects
  <2>2. [tree[d] EXCEPT !.connection = "none", !.place = ~empty].marker = tree[d].marker
    BY <1>1 DEF Directory
  <2>3. starts' = starts
    BY <1>9 DEF Disconnects
  <2> QED
    BY <1>3, <2>1, <2>2, <2>3
<1>10. CASE TakenAway(d)
  <2>1. Becomes(d, Bare) /\ starts' = starts /\ Bare.marker = "none"
    BY <1>10 DEF TakenAway, Bare
  <2> QED
    BY <1>3, <2>1
<1>11. CASE Removed(d)
  <2>1. Becomes(d, Gone) /\ starts' = starts /\ Gone.marker = "none"
    BY <1>11 DEF Removed, Gone, Bare
  <2> QED
    BY <1>3, <2>1
<1> QED
  BY <1>4, <1>5, <1>6, <1>7, <1>8, <1>9, <1>10, <1>11 DEF TreeStep

LEMMA TreeApart ==
  ASSUME TypeOK, ApartInv, NEW d \in Dirs, TreeStep(d)
  PROVE  ApartInv'
<1>1. ASSUME NEW c \in Callers PROVE Reached(call'[c])
  <2>1. call[c] \in Call /\ Reached(call[c])
    BY DEF TypeOK, ApartInv
  <2>2. Reached([call[c] EXCEPT !.still = FALSE])
    BY <2>1 DEF Reached, Call
  <2> QED
    BY <2>1, <2>2, TreeGoes
<1>2. ASSUME NEW a \in Dirs, starts'[a].step # "none", starts'[a].alone
      PROVE  /\ \A e \in Dirs \ {a} : starts'[e].step = "none"
             /\ \A e \in AtOrAbove(a) \ {a} : tree'[e].marker = "none"
  <2>1. starts \in [Dirs -> [step : {"none", "looked", "made"}, alone : BOOLEAN]]
    BY DEF TypeOK
  <2>2. AtOrAbove(a) \subseteq Dirs
    BY AboveStep
  <2>3. starts[a].step # "none" /\ starts[a].alone =>
          /\ \A e \in Dirs \ {a} : starts[e].step = "none"
          /\ \A e \in AtOrAbove(a) \ {a} : tree[e].marker = "none"
    BY DEF ApartInv, StillAlone, Stored
  <2>4. CASE /\ starts[d].step = "none" /\ FoundAbove(d) = {} /\ tree' = tree
             /\ starts' = [e \in Dirs |->
                  IF e = d
                  THEN [step |-> "looked", alone |-> \A f \in Dirs : starts[f].step = "none"]
                  ELSE [starts[e] EXCEPT !.alone = @ /\ starts[e].step = "none"]]
    <3>1. CASE a = d
      <4>1. \A f \in Dirs : starts[f].step = "none"
        BY <1>2, <2>4, <3>1
      <4>2. \A e \in Dirs \ {d} : starts'[e].step = "none"
        BY <2>1, <2>4, <4>1
      <4>3. \A e \in AtOrAbove(d) \ {d} : tree[e].marker = "none"
        BY <2>4 DEF FoundAbove, Stored
      <4> QED
        BY <2>4, <3>1, <4>2, <4>3
    <3>2. CASE a # d
      <4>1. starts'[a].step = starts[a].step /\ (starts'[a].alone => starts[a].step = "none")
        BY <2>1, <2>4, <3>2
      <4> QED
        BY <1>2, <4>1
    <3> QED
      BY <3>1, <3>2
  <2>5. CASE /\ \A e \in Dirs \ {d} : starts'[e] = starts[e]
             /\ \/ starts'[d] \in {starts[d], NoStart}
                \/ starts[d].step # "none" /\ starts'[d].alone = starts[d].alone
    <3>1. starts[a].step # "none" /\ starts[a].alone
      BY <1>2, <2>5 DEF NoStart
    <3>2. \A e \in Dirs \ {a} : starts'[e].step = "none"
      BY <2>3, <2>5, <3>1 DEF NoStart
    <3>3. \A e \in AtOrAbove(a) \ {a} : tree'[e].marker = "none"
      <4>1. starts[d].step = "made" /\ starts'[d] = NoStart => FALSE
        BY <1>2, <2>3, <3>1 DEF NoStart
      <4>2. \A e \in Dirs : tree'[e].marker \in {"none", tree[e].marker}
        BY <4>1, TreeGoes
      <4> QED
        BY <2>2, <2>3, <3>1, <4>2
    <3> QED
      BY <3>2, <3>3
  <2> QED
    BY <2>4, <2>5, TreeGoes
<1>3. \A a \in Dirs : StillAlone(a)'
  BY <1>2 DEF StillAlone, Stored
<1> QED
  BY <1>1, <1>3 DEF ApartInv, Reached

LEMMA ApartNext == TypeOK /\ ApartInv /\ [Next]_vars => ApartInv'
<1> SUFFICES ASSUME TypeOK, ApartInv, [Next]_vars PROVE ApartInv'
  OBVIOUS
<1>1. ASSUME UNCHANGED <<tree, starts>>, \A c \in Callers : Reached(call'[c]) PROVE ApartInv'
  BY <1>1 DEF ApartInv, Reached, StillAlone, Stored
<1>2. ASSUME NEW c \in Callers, CallStep(c) PROVE ApartInv'
  <2>1. PICK new : Goes(c, new) /\ Reached(new)
    BY <1>2, CallReached DEF ApartInv
  <2>2. \A b \in Callers : Reached(call'[b])
    BY <2>1 DEF Goes, ApartInv, TypeOK
  <2> QED
    BY <1>1, <2>1, <2>2 DEF Goes
<1>3. ASSUME UNCHANGED vars PROVE ApartInv'
  BY <1>1, <1>3 DEF vars, ApartInv
<1> QED
  BY <1>2, <1>3, TreeApart, NextSteps

(* What answers a call stands where its search reached, as it answers.     *)
LEMMA AnswersThere ==
  ASSUME TypeOK, NEW c \in Callers, CallStep(c), Reached(call[c]),
         call[c].step # "answered", call'[c].answer.by # "refused"
  PROVE  LET d == call'[c].answer.at
             from == {call[c].request.cwd, call[c].request.root} \cap Dirs
         IN  /\ d \in (UNION {AtOrAbove(e) : e \in from}) \cup {call[c].request.env}
             /\ call'[c].answer.by = "server" => tree[d].connection = "leads"
             /\ call'[c].answer.by = "store" =>
                  Stored(d) /\ (call[c].request.op # "where" => tree[d].marker = "ours")
<1> DEFINE k == call[c]
           from == {k.request.cwd, k.request.root} \cap Dirs
           d == call'[c].answer.at
<1>1. k \in Call /\ k.request \in Request /\ k.answer = Refused /\ call \in [Callers -> Call]
  BY DEF TypeOK, Call, Reached
<1>2. Refused.by = "refused"
  BY DEF Refused
<1>3. \A new : Goes(c, new) => call'[c] = new
  BY <1>1 DEF Goes
<1>4. /\ k.step \in {"chosen", "opening"}
      /\ d = k.above /\ call'[c].answer.by \in {"store", "server"}
      /\ call'[c].answer.by = "server" => Found(d) = "server"
      /\ call'[c].answer.by = "store" =>
           \/ k.request.op = "where" /\ Found(d) = "store"
           \/ tree[d].marker = "ours"
  <2>1. \A answer : [k EXCEPT !.step = "answered", !.answer = answer].answer = answer
    BY <1>1 DEF Call
  <2>2. CASE Asks(c)
    <3>1. PICK request \in Requests :
            Goes(c, [Idle(request) EXCEPT
                       !.step = "searching",
                       !.left = IF request.root # NoDir THEN UpFrom[request.root]
                                ELSE IF tree[request.cwd].there THEN UpFrom[request.cwd] ELSE <<>>])
      BY <2>2, AsksGoes
    <3>2. \A left : [Idle(request) EXCEPT !.step = "searching", !.left = left].answer = Refused
      BY DEF Idle
    <3>3. call'[c].answer = Refused
      BY <1>3, <3>1, <3>2, Zenon
    <3> QED
      BY <1>2, <3>3
  <2>3. CASE Searches(c)
    <3>1. /\ [k EXCEPT !.step = "searched"].answer = Refused
          /\ \A h : [k EXCEPT !.step = "searched", !.above = h, !.left = <<>>].answer = Refused
          /\ \A tail : [k EXCEPT !.left = tail].answer = Refused
      BY <1>1 DEF Call
    <3>2. \E new : Goes(c, new) /\ new.answer = Refused
      BY <2>3, <3>1, SearchesGoes
    <3>3. call'[c].answer = Refused
      BY <1>3, <3>2, Zenon
    <3> QED
      BY <1>2, <3>3
  <2>4. CASE Chooses(c)
    <3>1. \A h : [k EXCEPT !.step = "chosen", !.above = h].answer = Refused
      BY <1>1 DEF Call
    <3>2. \E new : Goes(c, new) /\ new.answer = Refused
      BY <2>1, <2>4, <3>1, ChoosesGoes
    <3>3. call'[c].answer = Refused
      BY <1>3, <3>2, Zenon
    <3> QED
      BY <1>2, <3>3
  <2>5. CASE Reaches(c)
    <3>1. [k EXCEPT !.step = "opening"].answer = Refused
      BY <1>1 DEF Call
    <3>2. /\ k.step = "chosen" /\ Found(k.above) = "server"
          /\ call'[c].answer = [by |-> "server", at |-> k.above]
      BY <1>2, <1>3, <2>1, <2>5, <3>1, ReachesGoes
    <3> QED
      BY <3>2
  <2>6. CASE Tells(c)
    <3> DEFINE answer == IF Found(k.above) = "refused" THEN Refused
                         ELSE [by |-> Found(k.above), at |-> k.above]
    <3>1. /\ k.step = "chosen" /\ k.request.op = "where"
          /\ Goes(c, [k EXCEPT !.step = "answered", !.answer = answer])
      BY <2>6, TellsGoes
    <3>2. call'[c].answer = answer
      <4> HIDE DEF answer
      <4> QED
        BY <1>3, <2>1, <3>1
    <3>3. /\ Found(k.above) # "refused"
          /\ call'[c].answer = [by |-> Found(k.above), at |-> k.above]
      BY <1>2, <3>2
    <3>4. Found(k.above) \in {"store", "server", "refused"}
      BY DEF Found
    <3> QED
      BY <3>1, <3>3, <3>4
  <2>7. CASE Opens(c)
    <3>1. /\ k.step = "opening" /\ tree[k.above].marker = "ours"
          /\ call'[c].answer = [by |-> "store", at |-> k.above]
      BY <1>2, <1>3, <2>1, <2>7, OpensGoes
    <3> QED
      BY <3>1
  <2>8. ~Returns(c)
    BY ReturnsGoes
  <2> QED
    BY <2>2, <2>3, <2>4, <2>5, <2>6, <2>7, <2>8 DEF CallStep
<1>5. d \in (UNION {AtOrAbove(e) : e \in from}) \cup {k.request.env}
  <2>1. k.above \in AtOrAbove(Base(k.request)) \cup {k.request.env}
    BY <1>4 DEF Reached
  <2>2. Base(k.request) \in from
    BY <1>1 DEF Base, Request
  <2>3. AtOrAbove(Base(k.request)) \subseteq UNION {AtOrAbove(e) : e \in from}
    BY <2>2
  <2>4. d = k.above
    BY <1>4
  <2> DEFINE found == UNION {AtOrAbove(e) : e \in from}
  <2> HIDE DEF k, d, from, found
  <2>5. AtOrAbove(Base(k.request)) \subseteq found
    BY <2>3 DEF found
  <2>6. d \in found \cup {k.request.env}
    BY <2>1, <2>4, <2>5
  <2> QED
    BY <2>6 DEF found
<1>6. call'[c].answer.by = "server" => tree[d].connection = "leads"
  BY <1>4 DEF Found
<1>7. call'[c].answer.by = "store" =>
        Stored(d) /\ (k.request.op # "where" => tree[d].marker = "ours")
  BY <1>4 DEF Found, Stored
<1> QED
  BY <1>5, <1>6, <1>7

(* Only a call's own step answers it.                                      *)
LEMMA AnsweredByItsStep ==
  ASSUME TypeOK, ApartInv, [Next]_vars, NEW c \in Callers,
         call[c].step # "answered", call'[c].answer.by # "refused"
  PROVE  CallStep(c)
<1>1. call[c] \in Call /\ call[c].answer = Refused /\ call \in [Callers -> Call]
  BY DEF TypeOK, ApartInv, Reached
<1>2. call'[c].answer # call[c].answer
  BY <1>1 DEF Refused
<1>3. ASSUME NEW b \in Callers, CallStep(b), b # c PROVE FALSE
  <2>1. PICK new : Goes(b, new)
    BY <1>3, CallReached DEF ApartInv
  <2> QED
    BY <1>1, <1>2, <1>3, <2>1 DEF Goes
<1>4. ASSUME NEW d \in Dirs, TreeStep(d) PROVE FALSE
  <2>1. [call[c] EXCEPT !.still = FALSE].answer = call[c].answer
    BY <1>1 DEF Call
  <2> QED
    BY <1>2, <1>4, <2>1, TreeGoes
<1>5. ~UNCHANGED vars
  BY <1>2 DEF vars
<1> QED
  BY <1>3, <1>4, <1>5, NextSteps

(* A start during which no other was made never puts a store below another *)
(* that stands there; and however the tree changes under a call, what      *)
(* answers it is at or above where its caller is, or where KB_ROOT names   *)
(* it, and stands there as it answers (store.vacant, find_above, start).   *)
THEOREM KeptApart == Spec => StoresApart
<1>1. ASSUME TypeOK, ApartInv, [Next]_vars
      PROVE  /\ \A d \in Dirs : starts[d].step = "made" /\ tree'[d].marker = "ours" /\ starts[d].alone =>
                  \A e \in AtOrAbove(d) \ {d} : ~Stored(e)
             /\ \A c \in Callers : call[c].step # "answered" /\ call'[c].answer.by # "refused" =>
                  LET d == call'[c].answer.at
                      from == {call[c].request.cwd, call[c].request.root} \cap Dirs
                  IN /\ d \in (UNION {AtOrAbove(e) : e \in from}) \cup {call[c].request.env}
                     /\ call'[c].answer.by = "server" => tree[d].connection = "leads"
                     /\ call'[c].answer.by = "store" =>
                          Stored(d) /\ (call[c].request.op # "where" => tree[d].marker = "ours")
  <2>1. \A d \in Dirs : starts[d].step = "made" /\ starts[d].alone =>
          \A e \in AtOrAbove(d) \ {d} : ~Stored(e)
    BY <1>1 DEF ApartInv, StillAlone
  <2>2. \A c \in Callers : Reached(call[c])
    BY <1>1 DEF ApartInv
  <2> QED
    BY <1>1, <2>1, <2>2, AnswersThere, AnsweredByItsStep
<1> QED
  BY <1>1, TypesStart, TypesNext, ApartStart, ApartNext, PTL DEF Spec, StoresApart

-----------------------------------------------------------------------------
(* Where a call goes over a tree that stays.                               *)

(* Where a search begins, if that is there, what it stops at, and what     *)
(* else is named.                                                          *)
From(request) ==
  IF request.root # NoDir THEN {request.root} ELSE {d \in {request.cwd} : tree[d].there}

Stops(b, d) == d \in AtOrAbove(b) /\ \A e \in AtOrAbove(b) : Marks(e) => e \in AtOrAbove(d)

Nearest(request) == {d \in Dirs : Marks(d) /\ \E b \in From(request) : Stops(b, d)}

Named(request) ==
  IF request.root # NoDir \/ request.env = Unset THEN Nearest(request)
  ELSE {d \in Dirs \cap {request.env} : Marks(d)}

(* The answer a call can only mean.                                        *)
AnswerIn(meant) == IF meant = {} THEN Refused ELSE CHOOSE answer \in meant : TRUE
MeantAnswer(request) == AnswerIn(Meant(request))

(* A call underway while the tree stayed is on its way there: nothing its  *)
(* search has passed is marked, what it stopped at is nearest, what it     *)
(* goes to is all that is nearest or named, and what answers it is meant.  *)
OnItsWay(k) ==
  k.still =>
    /\ k.step = "searching" =>
         \/ k.left = <<>> /\ Nearest(k.request) = {}
         \/ \E h \in AtOrAbove(Base(k.request)) :
              /\ k.left = UpFrom[h] /\ From(k.request) = {Base(k.request)}
              /\ \A e \in AtOrAbove(Base(k.request)) : Marks(e) => e \in AtOrAbove(h)
    /\ k.step = "searched" => Nearest(k.request) = {k.above} \ {NoDir}
    /\ k.step \in {"chosen", "opening"} =>
         Named(k.request) # {} /\ Nearest(k.request) \cup Named(k.request) = {k.above}
    /\ k.step = "opening" => Stored(k.above) /\ ~Connected(k.above)
    /\ k.step = "answered" => k.answer = MeantAnswer(k.request)

MeantInv == \A c \in Callers : OnItsWay(call[c])

(* What a call can mean when all that is nearest or named is one place.    *)
LEMMA MeantThere ==
  ASSUME TypeOK, NEW request \in Request, NEW d \in Dirs,
         Named(request) # {}, Nearest(request) \cup Named(request) = {d}
  PROVE  /\ Marks(d)
         /\ Stored(d) /\ ~Connected(d) =>
              Meant(request) = IF request.op = "where" \/ tree[d].marker = "ours"
                               THEN {[by |-> "store", at |-> d]} ELSE {}
         /\ ~Stored(d) /\ Connected(d) =>
              Meant(request) =
                IF /\ tree[d].connection = "leads"
                   /\ request.op \in {"where", "read"} \/ (request.op = "change" /\ ~request.clock)
                THEN {[by |-> "server", at |-> d]} ELSE {}
         /\ Stored(d) /\ Connected(d) => Meant(request) = {}
<1> DEFINE places == {<<"store", e>> : e \in {f \in {d} : Stored(f)}}
                     \cup {<<"server", e>> : e \in {f \in {d} : Connected(f)}}
           through == request.op = "read" \/ (request.op = "change" /\ ~request.clock)
           fits(p) ==
             CASE p[1] = "store" -> request.op = "where" \/ tree[p[2]].marker = "ours"
               [] p[1] = "server" ->
                    tree[p[2]].connection = "leads" /\ (request.op = "where" \/ through)
           fit == {q \in places : places = {q} /\ fits(q)}
<1>1. Marks(d)
  BY DEF Named, Nearest
<1>2. Meant(request) = {[by |-> p[1], at |-> p[2]] : p \in fit}
  <2>1. Meant(request) =
          LET all == {<<"store", e>> : e \in {f \in Nearest(request) \cup Named(request) : Stored(f)}}
                     \cup {<<"server", e>> : e \in {f \in Nearest(request) \cup Named(request) : Connected(f)}}
          IN {[by |-> p[1], at |-> p[2]] :
                p \in {q \in all : all = {q} /\ Named(request) # {} /\ fits(q)}}
    BY Zenon DEF Meant, Nearest, Named, From, Stops
  <2> QED
    BY <2>1
<1>3. CASE Stored(d) /\ ~Connected(d)
  <2>1. places = {<<"store", d>>}
    BY <1>3
  <2>2. fits(<<"store", d>>) <=> request.op = "where" \/ tree[d].marker = "ours"
    OBVIOUS
  <2>3. fit = IF request.op = "where" \/ tree[d].marker = "ours" THEN {<<"store", d>>} ELSE {}
    BY <2>1, <2>2
  <2> HIDE DEF fit
  <2> QED
    BY <1>1, <1>2, <1>3, <2>3
<1>4. CASE ~Stored(d) /\ Connected(d)
  <2>1. places = {<<"server", d>>}
    BY <1>4
  <2>2. fits(<<"server", d>>) <=> tree[d].connection = "leads" /\ (request.op = "where" \/ through)
    OBVIOUS
  <2>3. fit = IF tree[d].connection = "leads" /\ (request.op = "where" \/ through)
              THEN {<<"server", d>>} ELSE {}
    BY <2>1, <2>2
  <2> HIDE DEF fit
  <2> QED
    BY <1>1, <1>2, <1>4, <2>3
<1>5. CASE Stored(d) /\ Connected(d)
  <2>1. places = {<<"store", d>>, <<"server", d>>} /\ <<"store", d>> # <<"server", d>>
    BY <1>5
  <2>2. \A q : places # {q}
    <3> HIDE DEF places
    <3>1. <<"store", d>> \in places /\ <<"server", d>> \in places
      BY <2>1
    <3> QED
      BY <2>1, <3>1
  <2>3. fit = {}
    BY <2>2
  <2> HIDE DEF fit
  <2> QED
    BY <1>1, <1>2, <1>5, <2>3
<1> QED
  BY <1>1, <1>3, <1>4, <1>5 DEF Marks

(* It can mean none when none is named, or another than the nearest is.    *)
LEMMA MeantNowhere ==
  ASSUME TypeOK, NEW request \in Request,
         Named(request) = {}
           \/ \E d, e \in Nearest(request) \cup Named(request) : d # e
  PROVE  Meant(request) = {}
<1> DEFINE all == {<<"store", e>> : e \in {f \in Nearest(request) \cup Named(request) : Stored(f)}}
                  \cup {<<"server", e>> : e \in {f \in Nearest(request) \cup Named(request) : Connected(f)}}
           fits(p) ==
             CASE p[1] = "store" -> request.op = "where" \/ tree[p[2]].marker = "ours"
               [] p[1] = "server" ->
                    /\ tree[p[2]].connection = "leads"
                    /\ request.op = "where"
                         \/ (request.op = "read" \/ (request.op = "change" /\ ~request.clock))
           fit == {q \in all : all = {q} /\ Named(request) # {} /\ fits(q)}
<1>1. Meant(request) = {[by |-> p[1], at |-> p[2]] : p \in fit}
  BY Zenon DEF Meant, Nearest, Named, From, Stops
<1>2. CASE Named(request) = {}
  <2>1. fit = {}
    BY <1>2
  <2> HIDE DEF fit
  <2> QED
    BY <1>1, <2>1
<1>3. ASSUME NEW d \in Nearest(request) \cup Named(request),
             NEW e \in Nearest(request) \cup Named(request), d # e
      PROVE  Meant(request) = {}
  <2>1. \A f \in Nearest(request) \cup Named(request) : Stored(f) \/ Connected(f)
    BY DEF Nearest, Named, Marks
  <2>2. \A f \in Nearest(request) \cup Named(request) : \E p \in all : p[2] = f
    <3>1. TAKE f \in Nearest(request) \cup Named(request)
    <3>2. <<"store", f>> \in all \/ <<"server", f>> \in all
      BY <2>1
    <3>3. <<"store", f>>[2] = f /\ <<"server", f>>[2] = f
      OBVIOUS
    <3> HIDE DEF all
    <3> QED
      BY <3>2, <3>3
  <2>3. (\E p \in all : p[2] = d) /\ (\E p \in all : p[2] = e)
    BY <1>3, <2>2
  <2> HIDE DEF all
  <2>4. \A q : all # {q}
    BY <1>3, <2>3
  <2>5. fit = {}
    BY <2>4
  <2> HIDE DEF fit
  <2> QED
    BY <1>1, <2>5
<1> QED
  BY <1>2, <1>3

(* What one look upward settles.                                           *)
LEMMA LookedAt ==
  ASSUME TypeOK, NEW request \in Request, From(request) = {Base(request)},
         NEW h \in AtOrAbove(Base(request)),
         \A e \in AtOrAbove(Base(request)) : Marks(e) => e \in AtOrAbove(h)
  PROVE  /\ Marks(h) => Nearest(request) = {h}
         /\ ~Marks(h) /\ Parent[h] = NoDir => Nearest(request) = {}
         /\ ~Marks(h) /\ Parent[h] # NoDir =>
              /\ Parent[h] \in AtOrAbove(Base(request))
              /\ \A e \in AtOrAbove(Base(request)) : Marks(e) => e \in AtOrAbove(Parent[h])
<1> DEFINE b == Base(request)
<1>1. b \in Dirs /\ AtOrAbove(b) \subseteq Dirs /\ h \in Dirs
  BY BaseTyped, AboveStep
<1>2. Nearest(request) = {d \in Dirs : Marks(d) /\ Stops(b, d)}
  BY DEF Nearest
<1>3. ASSUME Marks(h) PROVE Nearest(request) = {h}
  <2>1. h \in Nearest(request)
    BY <1>1, <1>2, <1>3 DEF Stops
  <2>2. ASSUME NEW d \in Nearest(request) PROVE d = h
    <3>1. d \in Dirs /\ d \in AtOrAbove(h) /\ h \in AtOrAbove(d)
      BY <1>2, <1>3, <2>2 DEF Stops
    <3> QED
      BY <1>1, <3>1, AboveOneWay
  <2> QED
    BY <2>1, <2>2
<1>4. ASSUME ~Marks(h), Parent[h] = NoDir PROVE Nearest(request) = {}
  <2>1. AtOrAbove(h) = {h}
    BY <1>1, <1>4, AboveStep
  <2> QED
    BY <1>2, <1>4, <2>1 DEF Stops
<1>5. ASSUME ~Marks(h), Parent[h] # NoDir
      PROVE  /\ Parent[h] \in AtOrAbove(b)
             /\ \A e \in AtOrAbove(b) : Marks(e) => e \in AtOrAbove(Parent[h])
  <2>1. Parent[h] \in Dirs /\ AtOrAbove(h) = {h} \cup AtOrAbove(Parent[h])
    BY <1>1, <1>5, AboveStep
  <2>2. Parent[h] \in AtOrAbove(h) /\ AtOrAbove(h) \subseteq AtOrAbove(b)
    BY <1>1, <2>1, AboveStep, AboveAbove
  <2> QED
    BY <1>5, <2>1, <2>2
<1> QED
  BY <1>3, <1>4, <1>5

(* A call's step keeps it on its way, and answers it with what is meant.   *)
LEMMA CallOnItsWay ==
  ASSUME TypeOK, NEW c \in Callers, CallStep(c), Reached(call[c]), OnItsWay(call[c])
  PROVE  \E new : Goes(c, new) /\ OnItsWay(new)
<1> DEFINE k == call[c]
           request == k.request
<1>1. k \in Call /\ request \in Request
  BY DEF TypeOK, Call
<1>2. ASSUME NEW answer, k.still => answer = MeantAnswer(request)
      PROVE  OnItsWay([k EXCEPT !.step = "answered", !.answer = answer])
  <2> DEFINE new == [k EXCEPT !.step = "answered", !.answer = answer]
  <2>1. new.step = "answered" /\ new.answer = answer /\ new.request = request /\ new.still = k.still
    BY <1>1 DEF Call
  <2> HIDE DEF new, k
  <2> QED
    BY <1>2, <2>1 DEF OnItsWay
<1>3. CASE Asks(c)
  <2>1. PICK asked \in Requests :
          Goes(c, [Idle(asked) EXCEPT
                     !.step = "searching",
                     !.left = IF asked.root # NoDir THEN UpFrom[asked.root]
                              ELSE IF tree[asked.cwd].there THEN UpFrom[asked.cwd] ELSE <<>>])
    BY <1>3, AsksGoes
  <2> DEFINE left == IF asked.root # NoDir THEN UpFrom[asked.root]
                     ELSE IF tree[asked.cwd].there THEN UpFrom[asked.cwd] ELSE <<>>
             new == [Idle(asked) EXCEPT !.step = "searching", !.left = left]
  <2>2. asked \in Request /\ Base(asked) \in Dirs
    BY RequestsAssumption, BaseTyped
  <2>3. new.step = "searching" /\ new.left = left /\ new.request = asked
    BY DEF Idle
  <2>4. \/ left = <<>> /\ From(asked) = {}
        \/ left = UpFrom[Base(asked)] /\ From(asked) = {Base(asked)}
    BY DEF From, Base
  <2>5. From(asked) = {} => Nearest(asked) = {}
    BY DEF Nearest
  <2>6. Base(asked) \in AtOrAbove(Base(asked))
    BY <2>2, AboveStep
  <2>7. Goes(c, new)
    BY <2>1
  <2> HIDE DEF new, left
  <2>8. OnItsWay(new)
    BY <2>3, <2>4, <2>5, <2>6 DEF OnItsWay
  <2> QED
    BY <2>7, <2>8
<1>4. CASE Searches(c)
  <2>1. k.step = "searching" /\ k.above = NoDir
    BY <1>4, SearchesGoes DEF Reached
  <2>2. CASE k.left = <<>>
    <3> DEFINE new == [k EXCEPT !.step = "searched"]
    <3>1. /\ new.step = "searched" /\ new.above = NoDir /\ new.request = request
          /\ new.still = k.still
      BY <1>1, <2>1 DEF Call
    <3>2. k.still => Nearest(request) = {}
      <4>1. \A h \in AtOrAbove(Base(request)) : UpFrom[h] # <<>>
        BY <1>1, BaseTyped, AboveStep, UpFromLooked
      <4> QED
        BY <2>1, <2>2, <4>1 DEF OnItsWay
    <3>3. Goes(c, new)
      BY <1>4, <2>2, SearchesGoes
    <3> HIDE DEF new, k
    <3>4. OnItsWay(new)
      BY <3>1, <3>2 DEF OnItsWay
    <3> QED
      BY <3>3, <3>4
  <2>3. CASE k.left # <<>>
    <3>1. PICK new : /\ Goes(c, new)
                     /\ \/ Marks(Head(k.left))
                           /\ new = [k EXCEPT !.step = "searched", !.above = Head(k.left), !.left = <<>>]
                        \/ ~Marks(Head(k.left)) /\ new = [k EXCEPT !.left = Tail(k.left)]
      BY <1>4, <2>3, SearchesGoes
    <3>2. /\ new.request = request /\ new.still = k.still
          /\ \/ Marks(Head(k.left)) /\ new.step = "searched" /\ new.above = Head(k.left)
             \/ ~Marks(Head(k.left)) /\ new.step = "searching" /\ new.left = Tail(k.left)
      BY <1>1, <2>1, <3>1 DEF Call
    <3>3. ASSUME k.still PROVE OnItsWay(new)
      <4>1. PICK h \in AtOrAbove(Base(request)) :
              /\ k.left = UpFrom[h] /\ From(request) = {Base(request)}
              /\ \A e \in AtOrAbove(Base(request)) : Marks(e) => e \in AtOrAbove(h)
        BY <2>1, <2>3, <3>3 DEF OnItsWay
      <4>2. /\ h \in Dirs /\ Head(k.left) = h
            /\ Tail(k.left) = IF Parent[h] = NoDir THEN <<>> ELSE UpFrom[Parent[h]]
        BY <1>1, <4>1, BaseTyped, AboveStep, UpFromLooked
      <4>3. /\ Marks(h) => Nearest(request) = {h}
            /\ ~Marks(h) /\ Parent[h] = NoDir => Nearest(request) = {}
            /\ ~Marks(h) /\ Parent[h] # NoDir =>
                 /\ Parent[h] \in AtOrAbove(Base(request))
                 /\ \A e \in AtOrAbove(Base(request)) : Marks(e) => e \in AtOrAbove(Parent[h])
        BY <1>1, <4>1, LookedAt
      <4> HIDE DEF k
      <4>4. CASE Marks(h)
        <5>1. new.step = "searched" /\ new.above = h /\ new.request = request /\ h # NoDir
          BY <3>2, <4>2, <4>4, ParentAssumption
        <5> QED
          BY <4>3, <4>4, <5>1 DEF OnItsWay
      <4>5. CASE ~Marks(h)
        <5>1. /\ new.step = "searching" /\ new.request = request
              /\ new.left = IF Parent[h] = NoDir THEN <<>> ELSE UpFrom[Parent[h]]
          BY <3>2, <4>2, <4>5
        <5> QED
          BY <4>1, <4>3, <4>5, <5>1 DEF OnItsWay
      <4> QED
        BY <4>4, <4>5
    <3>4. ~k.still => OnItsWay(new)
      BY <3>2 DEF OnItsWay
    <3> QED
      BY <3>1, <3>3, <3>4
  <2> QED
    BY <2>2, <2>3
<1>5. CASE Chooses(c)
  <2> DEFINE above == k.above
             named == request.root = NoDir /\ request.env # Unset
             meant == request.env \in Dirs /\ Marks(request.env) /\ above \in {NoDir, request.env}
  <2>1. /\ k.step = "searched" /\ above \in Dirs \cup {NoDir}
        /\ k.still => Nearest(request) = {above} \ {NoDir}
    BY <1>1, <1>5, ChoosesGoes DEF Call, OnItsWay
  <2>2. Named(request) = IF ~named THEN Nearest(request)
                         ELSE {d \in Dirs \cap {request.env} : Marks(d)}
    BY DEF Named
  <2>3. ASSUME Goes(c, [k EXCEPT !.step = "answered", !.answer = Refused]),
               (~named /\ above = NoDir) \/ (named /\ ~meant)
        PROVE  \E new : Goes(c, new) /\ OnItsWay(new)
    <3>1. ASSUME k.still PROVE Meant(request) = {}
      <4>1. CASE Named(request) = {}
        BY <1>1, <4>1, MeantNowhere
      <4>2. CASE Named(request) # {}
        <5>1. named /\ request.env \in Named(request) /\ above \notin {NoDir, request.env}
          BY <2>1, <2>2, <2>3, <3>1, <4>2
        <5>2. above \in Nearest(request)
          BY <2>1, <3>1, <5>1
        <5> QED
          BY <1>1, <5>1, <5>2, MeantNowhere
      <4> QED
        BY <4>1, <4>2
    <3>2. k.still => Refused = MeantAnswer(request)
      BY <3>1 DEF MeantAnswer, AnswerIn
    <3> QED
      BY <1>2, <2>3, <3>2
  <2>4. ASSUME NEW d \in Dirs, Goes(c, [k EXCEPT !.step = "chosen", !.above = d]),
               (~named /\ d = above) \/ (named /\ meant /\ d = request.env)
        PROVE  \E new : Goes(c, new) /\ OnItsWay(new)
    <3> DEFINE new == [k EXCEPT !.step = "chosen", !.above = d]
    <3>1. new.step = "chosen" /\ new.above = d /\ new.request = request /\ new.still = k.still
      BY <1>1 DEF Call
    <3>2. k.still => Named(request) # {} /\ Nearest(request) \cup Named(request) = {d}
      <4>1. d # NoDir
        BY ParentAssumption
      <4>2. CASE ~named /\ d = above
        BY <2>1, <2>2, <4>1, <4>2
      <4>3. CASE named /\ meant /\ d = request.env
        BY <2>1, <2>2, <4>1, <4>3
      <4> QED
        BY <2>4, <4>2, <4>3
    <3> HIDE DEF new, k
    <3>3. OnItsWay(new)
      BY <3>1, <3>2 DEF OnItsWay
    <3> QED
      BY <2>4, <3>3 DEF new
  <2> QED
    BY <1>5, <2>3, <2>4, ChoosesGoes
<1>6. ASSUME k.step \in {"chosen", "opening"}, k.still
      PROVE  LET d == k.above
                 fits == /\ tree[d].connection = "leads"
                         /\ request.op \in {"where", "read"} \/ (request.op = "change" /\ ~request.clock)
             IN  /\ Found(d) = "store" =>
                      MeantAnswer(request) =
                        IF request.op = "where" \/ tree[d].marker = "ours"
                        THEN [by |-> "store", at |-> d] ELSE Refused
                 /\ Found(d) # "store" =>
                      MeantAnswer(request) =
                        IF Found(d) = "server" /\ fits THEN [by |-> "server", at |-> d] ELSE Refused
  <2> DEFINE d == k.above
             fits == /\ tree[d].connection = "leads"
                     /\ request.op \in {"where", "read"} \/ (request.op = "change" /\ ~request.clock)
  <2>1. d \in Dirs /\ Named(request) # {} /\ Nearest(request) \cup Named(request) = {d}
    BY <1>1, <1>6 DEF Call, OnItsWay
  <2>2. \A answer : (CHOOSE a \in {answer} : TRUE) = answer /\ {answer} # {}
    OBVIOUS
  <2>3. CASE Found(d) = "store"
    <3>1. Stored(d) /\ ~Connected(d)
      BY <2>3 DEF Found
    <3>2. Meant(request) = IF request.op = "where" \/ tree[d].marker = "ours"
                           THEN {[by |-> "store", at |-> d]} ELSE {}
      BY <1>1, <2>1, <3>1, MeantThere
    <3> QED
      BY <2>2, <2>3, <3>2 DEF MeantAnswer, AnswerIn
  <2>4. CASE Found(d) # "store"
    <3>1. Marks(d) /\ ~(Stored(d) /\ ~Connected(d))
      BY <1>1, <2>1, <2>4, MeantThere DEF Found
    <3>2. CASE ~Stored(d) /\ Connected(d)
      <4>1. Meant(request) = IF fits THEN {[by |-> "server", at |-> d]} ELSE {}
        BY <1>1, <2>1, <3>2, MeantThere
      <4>2. Found(d) = "server" <=> tree[d].connection = "leads"
        BY <3>2 DEF Found, Connected
      <4> QED
        BY <2>2, <2>4, <4>1, <4>2 DEF MeantAnswer, AnswerIn
    <3>3. CASE Stored(d) /\ Connected(d)
      <4>1. Meant(request) = {}
        BY <1>1, <2>1, <3>3, MeantThere
      <4>2. Found(d) # "server"
        BY <3>3 DEF Found
      <4> QED
        BY <2>4, <4>1, <4>2 DEF MeantAnswer, AnswerIn
    <3> QED
      BY <3>1, <3>2, <3>3 DEF Marks
  <2> QED
    BY <2>3, <2>4
<1>7. CASE Reaches(c)
  <2> DEFINE d == k.above
             through == ~Directly(request) /\ ~Stamped(request)
  <2>1. k.step = "chosen" /\ request.op # "where" /\ request.op \in {"read", "change", "operate", "where"}
    BY <1>1, <1>7, ReachesGoes DEF Request
  <2>2. CASE Found(d) = "store" /\ Goes(c, [k EXCEPT !.step = "opening"])
    <3> DEFINE new == [k EXCEPT !.step = "opening"]
    <3>1. new.step = "opening" /\ new.above = d /\ new.request = request /\ new.still = k.still
      BY <1>1 DEF Call
    <3>2. k.still => Named(request) # {} /\ Nearest(request) \cup Named(request) = {d}
      BY <2>1 DEF OnItsWay
    <3>3. Stored(d) /\ ~Connected(d)
      BY <2>2 DEF Found
    <3> HIDE DEF new, k
    <3>4. OnItsWay(new)
      BY <3>1, <3>2, <3>3 DEF OnItsWay
    <3> QED
      BY <2>2, <3>4 DEF new
  <2>3. CASE /\ Found(d) = "server" /\ through
             /\ Goes(c, [k EXCEPT !.step = "answered", !.answer = [by |-> "server", at |-> d]])
    <3>1. tree[d].connection = "leads"
      BY <2>3 DEF Found
    <3>2. k.still => [by |-> "server", at |-> d] = MeantAnswer(request)
      BY <1>6, <2>1, <2>3, <3>1 DEF Directly, Stamped
    <3> QED
      BY <1>2, <2>3, <3>2
  <2>4. CASE /\ Found(d) # "store" /\ ~(Found(d) = "server" /\ through)
             /\ Goes(c, [k EXCEPT !.step = "answered", !.answer = Refused])
    <3>1. k.still => Refused = MeantAnswer(request)
      BY <1>6, <2>1, <2>4 DEF Directly, Stamped
    <3> QED
      BY <1>2, <2>4, <3>1
  <2> QED
    BY <1>7, <2>2, <2>3, <2>4, ReachesGoes
<1>8. CASE Tells(c)
  <2> DEFINE d == k.above
             answer == IF Found(d) = "refused" THEN Refused ELSE [by |-> Found(d), at |-> d]
  <2>1. /\ k.step = "chosen" /\ request.op = "where"
        /\ Goes(c, [k EXCEPT !.step = "answered", !.answer = answer])
    BY <1>8, TellsGoes
  <2>2. Found(d) \in {"store", "server", "refused"} /\ (Found(d) = "server" => tree[d].connection = "leads")
    BY DEF Found
  <2>3. k.still => answer = MeantAnswer(request)
    BY <1>6, <2>1, <2>2
  <2> HIDE DEF answer
  <2> QED
    BY <1>2, <2>1, <2>3
<1>9. CASE Opens(c)
  <2> DEFINE d == k.above
             answer == IF tree[d].marker = "ours" THEN [by |-> "store", at |-> d] ELSE Refused
  <2>1. /\ k.step = "opening" /\ request.op # "where"
        /\ Goes(c, [k EXCEPT !.step = "answered", !.answer = answer])
    BY <1>9, OpensGoes DEF Reached
  <2>2. k.still => Found(d) = "store"
    BY <2>1 DEF OnItsWay, Found
  <2>3. k.still => answer = MeantAnswer(request)
    BY <1>6, <2>1, <2>2
  <2> HIDE DEF answer
  <2> QED
    BY <1>2, <2>1, <2>3
<1>10. CASE Returns(c)
  <2>1. OnItsWay(Idle(request))
    BY DEF Idle, OnItsWay
  <2> QED
    BY <1>10, <2>1, ReturnsGoes
<1> QED
  BY <1>3, <1>4, <1>5, <1>7, <1>8, <1>9, <1>10 DEF CallStep

LEMMA MeantStart == Init => MeantInv
<1> SUFFICES ASSUME Init PROVE MeantInv
  OBVIOUS
<1>1. \A request : OnItsWay(Idle(request))
  BY DEF Idle, OnItsWay
<1> QED
  BY <1>1 DEF Init, MeantInv

(* What a call can mean over a tree.                                       *)
MarksIn(t, d) == t[d].marker # "none" \/ t[d].connection # "none"

MeantIn(t, request) ==
  LET from == IF request.root # NoDir THEN {request.root}
              ELSE {d \in {request.cwd} : t[d].there}
      stops(b, d) == d \in AtOrAbove(b) /\ \A e \in AtOrAbove(b) : MarksIn(t, e) => e \in AtOrAbove(d)
      nearest == {d \in Dirs : MarksIn(t, d) /\ \E b \in from : stops(b, d)}
      named == IF request.root # NoDir \/ request.env = Unset THEN nearest
               ELSE {d \in Dirs \cap {request.env} : MarksIn(t, d)}
      places == {<<"store", d>> : d \in {e \in nearest \cup named : t[e].marker # "none"}}
                \cup {<<"server", d>> : d \in {e \in nearest \cup named : t[e].connection # "none"}}
      through == request.op = "read" \/ (request.op = "change" /\ ~request.clock)
      fits(p) ==
        CASE p[1] = "store" -> request.op = "where" \/ t[p[2]].marker = "ours"
          [] p[1] = "server" -> t[p[2]].connection = "leads" /\ (request.op = "where" \/ through)
  IN {[by |-> p[1], at |-> p[2]] : p \in {q \in places : places = {q} /\ named # {} /\ fits(q)}}

(* Over a tree left as it was, it is what it was.                          *)
LEMMA SameWay ==
  ASSUME tree' = tree, NEW k, OnItsWay(k)
  PROVE  OnItsWay(k)'
<1>1. \A request : Nearest(request)' = Nearest(request) /\ Named(request)' = Named(request)
  BY DEF Nearest, Named, From, Stops, Marks, Stored, Connected
<1>2. \A request : Meant(request)' = Meant(request)
  <2> TAKE request
  <2>1. Meant(request) = MeantIn(tree, request)
    BY Zenon DEF Meant, Marks, Stored, Connected, MeantIn, MarksIn
  <2>2. Meant(request)' = MeantIn(tree', request)
    BY Zenon DEF Meant, Marks, Stored, Connected, MeantIn, MarksIn
  <2> QED
    BY <2>1, <2>2
<1>3. \A request : MeantAnswer(request)' = MeantAnswer(request)
  BY <1>2 DEF MeantAnswer
<1>4. /\ \A d : Marks(d)' <=> Marks(d)
      /\ \A d : (Stored(d)' <=> Stored(d)) /\ (Connected(d)' <=> Connected(d))
  BY DEF Marks, Stored, Connected
<1>5. \A request : From(request)' = From(request)
  BY DEF From
<1> QED
  BY <1>1, <1>3, <1>4, <1>5 DEF OnItsWay

LEMMA MeantNext == TypeOK /\ ApartInv /\ MeantInv /\ [Next]_vars => MeantInv'
<1> SUFFICES ASSUME TypeOK, ApartInv, MeantInv, [Next]_vars PROVE MeantInv'
  OBVIOUS
<1>1. \A c \in Callers : Reached(call[c]) /\ OnItsWay(call[c]) /\ call[c] \in Call
  BY DEF ApartInv, MeantInv, TypeOK
<1>2. ASSUME tree' = tree, NEW c \in Callers, OnItsWay(call'[c]) PROVE OnItsWay(call[c])'
  BY <1>2, SameWay
<1>3. ASSUME NEW c \in Callers, CallStep(c) PROVE MeantInv'
  <2>1. PICK new : Goes(c, new) /\ OnItsWay(new)
    BY <1>1, <1>3, CallOnItsWay
  <2>2. \A b \in Callers : OnItsWay(call'[b])
    BY <1>1, <2>1 DEF Goes, TypeOK
  <2> QED
    BY <1>2, <2>1, <2>2 DEF Goes, MeantInv
<1>4. ASSUME NEW d \in Dirs, TreeStep(d) PROVE MeantInv'
  <2>1. CASE tree' = tree /\ call' = call
    BY <1>1, <1>2, <2>1 DEF MeantInv
  <2>2. CASE call' = [c \in Callers |-> IF call[c].step = "none" THEN call[c]
                                        ELSE [call[c] EXCEPT !.still = FALSE]]
    <3>1. \A k \in Call : [k EXCEPT !.still = FALSE].still = FALSE
      BY DEF Call
    <3>2. \A c \in Callers : call'[c].step = "none" \/ ~call'[c].still
      BY <1>1, <2>2, <3>1
    <3> QED
      BY <3>2 DEF MeantInv, OnItsWay
  <2> QED
    BY <1>4, <2>1, <2>2, TreeGoes
<1>5. ASSUME UNCHANGED vars PROVE MeantInv'
  BY <1>1, <1>2, <1>5 DEF MeantInv, vars
<1> QED
  BY <1>3, <1>4, <1>5, NextSteps

(* A call over a tree that stays as it is goes to the one place its caller *)
(* can mean, or is told of it, and is refused when there is none or more   *)
(* than one: what KB_ROOT names and what stands nearest must not differ, a *)
(* store and a connection do not stand in one place, a store opened is of  *)
(* this kb's form, and what must not go through a server does not          *)
(* (store.locate, locate_from, _found_at, _told_apart, directly,           *)
(* client._call, where).                                                   *)
THEOREM GoesThere == Spec => []GoesWhereMeant
<1>1. MeantInv => GoesWhereMeant
  BY Zenon DEF MeantInv, OnItsWay, GoesWhereMeant, MeantAnswer, AnswerIn
<1> QED
  BY <1>1, TypesStart, TypesNext, ApartStart, ApartNext, MeantStart, MeantNext, PTL DEF Spec
=============================================================================
