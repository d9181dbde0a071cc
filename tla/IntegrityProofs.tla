-------------------------- MODULE IntegrityProofs --------------------------
(***************************************************************************)
(* What TLAPS proves of Integrity, for any calls, IRIs, types and sets:    *)
(* what a set drafted over one store and landed over another leaves.       *)
(***************************************************************************)
EXTENDS Integrity, DraftsProofs

-----------------------------------------------------------------------------
(* Where a call is.  It asks for one of the sets until it is answered, and *)
(* what it drafted are the changes of that set, one for each operation; a  *)
(* removal leaves nothing.                                                 *)

FollowsSet(changes, ops) ==
  /\ Len(changes) = Len(ops)
  /\ \A i \in DOMAIN ops :
       /\ changes[i].op = ops[i].op /\ changes[i].id = ops[i].id
       /\ ops[i].op = "delete" => changes[i].left = Nothing

(* The changes handed, without what the port is told beside them.          *)
Bare(port) == [i \in DOMAIN port |-> port[i].change]

OnItsWay(c) ==
  /\ at[c] # "idle" => set[c] \in Sets
  /\ at[c] = "hand" => FollowsSet(judged[c].changes, set[c])
  /\ at[c] = "land" => FollowsSet(Bare(handed[c]), set[c])

TypeInv == TypeOK /\ \A c \in Calls : OnItsWay(c)

LEMMA DraftType ==
  ASSUME NEW st \in Stores, NEW ops \in Seq(Operation)
  PROVE  /\ Draft(st, ops) \in [changes : Seq(Change), types : SUBSET (Iris \X Nat)]
         /\ Draft(st, ops).changes = Drafted(st, ops)
         /\ FollowsSet(Draft(st, ops).changes, ops)
<1>1. Drafted(st, ops) \in Seq(Change) /\ Len(Drafted(st, ops)) = Len(ops)
  BY DraftedType
<1>2. TypesRead(st, Drafted(st, ops)) \in SUBSET (Iris \X Nat)
  BY TypesReadType
<1>3. \A i \in DOMAIN ops :
        /\ Drafted(st, ops)[i].op = ops[i].op /\ Drafted(st, ops)[i].id = ops[i].id
        /\ Drafted(st, ops)[i].left = Made(LeftBefore(st, ops, i), ops[i])
  BY DEF Drafted
<1>4. \A i \in DOMAIN ops : ops[i].op = "delete" => Drafted(st, ops)[i].left = Nothing
  BY <1>3 DEF Made
<1> QED
  BY <1>1, <1>2, <1>3, <1>4 DEF Draft, FollowsSet

LEMMA BareHanded ==
  ASSUME NEW st, NEW draft
  PROVE  Bare(Handed(st, draft)) = [i \in DOMAIN draft.changes |-> draft.changes[i]]
BY HandedIs DEF Bare

LEMMA BareType ==
  ASSUME NEW port \in Seq(PortChange)
  PROVE  Bare(port) \in Seq(Change) /\ Len(Bare(port)) = Len(port)
<1>1. \A i \in DOMAIN port : port[i].change \in Change
  <2>1. \A i \in DOMAIN port : port[i] \in PortChange
    BY ElementOfSeq
  <2> QED
    BY <2>1 DEF PortChange
<1>2. DOMAIN port = 1..Len(port) /\ Len(port) \in Nat
  OBVIOUS
<1> QED
  BY <1>1, <1>2 DEF Bare

LEMMA TypesStart == Init => TypeInv
<1> SUFFICES ASSUME Init PROVE TypeInv
  OBVIOUS
<1>1. <<>> \in Seq(Operation) /\ <<>> \in Seq(Change) /\ <<>> \in Seq(PortChange)
  OBVIOUS
<1>2. Unjudged \in [changes : Seq(Change), types : SUBSET (Iris \X Nat)]
  BY <1>1 DEF Unjudged
<1> QED
  BY <1>1, <1>2, BeforeAssumption DEF Init, TypeInv, TypeOK, OnItsWay, Steps

(* A call answered.                                                        *)
LEMMA EndsType ==
  ASSUME TypeInv, NEW c \in Calls, Ends(c), artifacts' \in Stores
  PROVE  TypeInv'
<1>1. <<>> \in Seq(Operation) /\ <<>> \in Seq(Change) /\ <<>> \in Seq(PortChange)
  OBVIOUS
<1>2. Unjudged \in [changes : Seq(Change), types : SUBSET (Iris \X Nat)]
  BY <1>1 DEF Unjudged
<1>3. TypeOK'
  BY <1>1, <1>2 DEF TypeInv, TypeOK, Ends, Steps, Stores
<1>4. \A d \in Calls : OnItsWay(d)'
  BY DEF TypeInv, TypeOK, OnItsWay, Ends
<1> QED
  BY <1>3, <1>4 DEF TypeInv

LEMMA TypesNext == TypeInv /\ [Next]_vars => TypeInv'
<1> SUFFICES ASSUME TypeInv, [Next]_vars PROVE TypeInv'
  OBVIOUS
<1>0. /\ artifacts \in Stores /\ at \in [Calls -> Steps] /\ set \in [Calls -> Seq(Operation)]
      /\ judged \in [Calls -> [changes : Seq(Change), types : SUBSET (Iris \X Nat)]]
      /\ handed \in [Calls -> Seq(PortChange)]
  BY DEF TypeInv, TypeOK, Stores
<1>1. ASSUME NEW c \in Calls, Asks(c) PROVE TypeInv'
  <2>1. PICK ops \in Sets :
          /\ set' = [set EXCEPT ![c] = ops]
          /\ at' = [at EXCEPT ![c] =
               IF \E i \in DOMAIN ops : ops[i].op = "import" THEN "relock" ELSE "judge"]
    BY <1>1 DEF Asks
  <2>2. ops \in Seq(Operation)
    BY SetsAssumption
  <2>3. TypeOK'
    BY <1>0, <1>1, <2>1, <2>2 DEF Asks, TypeOK, Steps, Stores
  <2>4. \A d \in Calls : OnItsWay(d)'
    BY <1>0, <1>1, <2>1 DEF Asks, TypeInv, OnItsWay
  <2> QED
    BY <2>3, <2>4 DEF TypeInv
<1>2. ASSUME NEW c \in Calls, Judges(c) PROVE TypeInv'
  <2>1. CASE Accepts(artifacts, set[c])
    <3>1. Draft(artifacts, set[c]) \in [changes : Seq(Change), types : SUBSET (Iris \X Nat)]
      BY <1>0, DraftType
    <3>2. FollowsSet(Draft(artifacts, set[c]).changes, set[c])
      BY <1>0, DraftType
    <3>3. TypeOK'
      BY <1>0, <1>2, <2>1, <3>1 DEF Judges, TypeOK, Steps, Stores
    <3>4. \A d \in Calls : OnItsWay(d)'
      BY <1>0, <1>2, <2>1, <3>2 DEF Judges, TypeInv, OnItsWay
    <3> QED
      BY <3>3, <3>4 DEF TypeInv
  <2>2. CASE ~Accepts(artifacts, set[c])
    BY <1>0, <1>2, <2>2, EndsType DEF Judges
  <2> QED
    BY <2>1, <2>2
<1>3. ASSUME NEW c \in Calls, Hands(c) PROVE TypeInv'
  <2>1. CASE Conform(artifacts, judged[c].changes)
    <3>1. Unjudged \in [changes : Seq(Change), types : SUBSET (Iris \X Nat)]
      BY DEF Unjudged
    <3> DEFINE port == Handed(artifacts, judged[c])
    <3>2. judged[c].changes \in Seq(Change) /\ judged[c].types \in SUBSET (Iris \X Nat)
      BY <1>0
    <3>3. port \in Seq(PortChange)
      BY <1>0, <3>2, HandedType
    <3>4. FollowsSet(Bare(port), set[c])
      <4>1. FollowsSet(judged[c].changes, set[c])
        BY <1>3 DEF Hands, TypeInv, OnItsWay
      <4>2. Bare(port) = judged[c].changes
        BY <3>2, BareHanded
      <4> QED
        BY <4>1, <4>2
    <3> HIDE DEF port
    <3>5. TypeOK'
      BY <1>0, <1>3, <2>1, <3>1, <3>3 DEF Hands, TypeOK, Steps, Stores, port
    <3>6. \A d \in Calls : OnItsWay(d)'
      BY <1>0, <1>3, <2>1, <3>4 DEF Hands, TypeInv, OnItsWay, port
    <3> QED
      BY <3>5, <3>6 DEF TypeInv
  <2>2. CASE ~Conform(artifacts, judged[c].changes)
    BY <1>0, <1>3, <2>2, EndsType DEF Hands
  <2> QED
    BY <2>1, <2>2
<1>4. ASSUME NEW c \in Calls, Lands(c) PROVE TypeInv'
  <2>1. CASE Moved(artifacts, handed[c])
    <3>1. TypeOK'
      <4>1. <<>> \in Seq(PortChange)
        OBVIOUS
      <4> QED
        BY <1>0, <1>4, <2>1, <4>1 DEF Lands, TypeOK, Steps, Stores
    <3>2. \A d \in Calls : OnItsWay(d)'
      BY <1>0, <1>4, <2>1 DEF Lands, TypeInv, OnItsWay
    <3> QED
      BY <3>1, <3>2 DEF TypeInv
  <2>2. CASE ~Moved(artifacts, handed[c])
    <3>1. Bare(handed[c]) \in Seq(Change)
      BY <1>0, BareType
    <3>2. Put(artifacts, Bare(handed[c])) \in Stores
      BY <1>0, <3>1, PutType
    <3>3. artifacts' \in Stores /\ Ends(c)
      BY <1>0, <1>4, <2>2, <3>2 DEF Lands, Bare
    <3> QED
      BY <3>3, EndsType
  <2> QED
    BY <2>1, <2>2
<1>5. ASSUME NEW c \in Calls, LandsUnderLock(c) PROVE TypeInv'
  <2>1. Put(artifacts, Drafted(artifacts, set[c])) \in Stores
    BY <1>0, DraftedType, PutType
  <2>2. artifacts' \in Stores /\ Ends(c)
    BY <1>0, <1>5, <2>1 DEF LandsUnderLock
  <2> QED
    BY <2>2, EndsType
<1>6. CASE UNCHANGED vars
  BY <1>6 DEF vars, TypeInv, TypeOK, OnItsWay
<1> QED
  BY <1>1, <1>2, <1>3, <1>4, <1>5, <1>6 DEF Next

(* Every state of the store, and of what calls drafted of their sets, is   *)
(* typed, whatever the IRIs, types and sets.                               *)
THEOREM TypeCorrect == Spec => []TypeOK
<1>1. TypeInv => TypeOK
  BY DEF TypeInv
<1> QED
  BY <1>1, TypesStart, TypesNext, PTL DEF Spec

-----------------------------------------------------------------------------
(* A landing, whether of a set drafted over an earlier store or of one     *)
(* drafted under the lock: what it was handed passed the port's checks.    *)

Passes(c, port) ==
  /\ port \in Seq(PortChange) /\ FollowsSet(Bare(port), set[c]) /\ set[c] \in Sets
  /\ ~Moved(artifacts, port) /\ Integral(artifacts, port)
  /\ artifacts' = Put(artifacts, Bare(port))
  /\ at'[c] # at[c]

LEMMA LandStep ==
  ASSUME TypeInv, [Next]_vars, artifacts' # artifacts
  PROVE  \E c \in Calls, port \in Seq(PortChange) :
           /\ Passes(c, port)
           /\ \/ at[c] = "land" /\ port = handed[c]
              \/ /\ at[c] = "relock" /\ port = Handed(artifacts, Draft(artifacts, set[c]))
                 /\ Examined(artifacts, set[c]) /\ Accepts(artifacts, set[c])
<1>0. /\ artifacts \in Stores /\ at \in [Calls -> Steps] /\ set \in [Calls -> Seq(Operation)]
      /\ handed \in [Calls -> Seq(PortChange)]
  BY DEF TypeInv, TypeOK, Stores
<1>1. PICK c \in Calls : Lands(c) \/ LandsUnderLock(c)
  BY DEF Next, vars, Asks, Judges, Hands, Ends
<1>2. CASE Lands(c)
  <2>1. ~Moved(artifacts, handed[c]) /\ Integral(artifacts, handed[c])
    BY <1>2 DEF Lands
  <2>2. artifacts' = Put(artifacts, Bare(handed[c])) /\ at[c] = "land" /\ at'[c] = "idle"
    BY <1>0, <1>2, <2>1 DEF Lands, Ends, Bare
  <2>3. handed[c] \in Seq(PortChange) /\ FollowsSet(Bare(handed[c]), set[c]) /\ set[c] \in Sets
    BY <1>0, <2>2 DEF TypeInv, OnItsWay
  <2>4. Passes(c, handed[c])
    BY <2>1, <2>2, <2>3 DEF Passes
  <2> QED
    BY <2>2, <2>3, <2>4
<1>3. CASE LandsUnderLock(c)
  <2> DEFINE draft == Draft(artifacts, set[c])
             port == Handed(artifacts, draft)
  <2>1. Examined(artifacts, set[c]) /\ LandsWhole(artifacts, set[c])
    BY <1>3 DEF LandsUnderLock
  <2>2. /\ draft.changes = Drafted(artifacts, set[c]) /\ FollowsSet(draft.changes, set[c])
        /\ draft.changes \in Seq(Change) /\ draft.types \in SUBSET (Iris \X Nat)
    BY <1>0, DraftType
  <2>3. port \in Seq(PortChange)
    BY <1>0, <2>2, HandedType
  <2>4. Bare(port) = draft.changes
    BY <2>2, BareHanded
  <2>5. Accepts(artifacts, set[c]) /\ ~Moved(artifacts, port) /\ Integral(artifacts, port)
    BY <2>1, Zenon DEF LandsWhole
  <2> HIDE DEF port, draft
  <2>6. artifacts' = Put(artifacts, Bare(port)) /\ at[c] = "relock" /\ at'[c] = "idle"
    BY <1>0, <1>3, <2>1, <2>2, <2>4 DEF LandsUnderLock, Ends
  <2>7. set[c] \in Sets
    BY <2>6 DEF TypeInv, OnItsWay
  <2>8. Passes(c, port)
    BY <2>2, <2>3, <2>4, <2>5, <2>6, <2>7 DEF Passes
  <2> QED
    BY <2>1, <2>3, <2>5, <2>6, <2>8 DEF port, draft
<1> QED
  BY <1>1, <1>2, <1>3

(* What a landing leaves where it lands: each IRI is changed once, so what *)
(* stands there is what the one change to it leaves.                       *)
LEMMA LandingAt ==
  ASSUME TypeInv, NEW c \in Calls, NEW port \in Seq(PortChange), Passes(c, port), NEW y \in Iris
  PROVE  \/ /\ artifacts'[y] = artifacts[y]
            /\ \A i \in DOMAIN port : port[i].change.id # y
         \/ \E i \in DOMAIN port :
              /\ port[i].change.id = y /\ artifacts'[y] = port[i].change.left
              /\ port[i].change \in Change
              /\ i \in DOMAIN set[c] /\ set[c][i].op = port[i].change.op /\ set[c][i].id = y
              /\ port[i].change.op = "delete" => port[i].change.left = Nothing
              /\ \A j \in DOMAIN port : port[j].change.id = y => j = i
<1> DEFINE changes == Bare(port)
<1>1. /\ changes \in Seq(Change) /\ Len(changes) = Len(port) /\ DOMAIN changes = DOMAIN port
      /\ \A i \in DOMAIN port : changes[i] = port[i].change
  BY BareType DEF Bare
<1>2. FollowsSet(changes, set[c]) /\ set[c] \in Sets /\ artifacts' = Put(artifacts, changes)
  BY DEF Passes
<1>3. set[c] \in Seq(Operation) /\ DOMAIN set[c] = DOMAIN port
  <2>1. set[c] \in Seq(Operation)
    BY <1>2, SetsAssumption
  <2>2. Len(set[c]) = Len(port)
    BY <1>1, <1>2 DEF FollowsSet
  <2> QED
    BY <2>1, <2>2
<1> HIDE DEF changes
<1>4. CASE y \notin Changed(changes)
  BY <1>1, <1>2, <1>4 DEF Put, Changed
<1>5. CASE y \in Changed(changes)
  <2> DEFINE i == LastOf(changes, y)
  <2>1. i \in DOMAIN changes /\ changes[i].id = y
    BY <1>1, <1>5, LastThere
  <2>2. artifacts'[y] = changes[i].left
    BY <1>2, <1>5 DEF Put
  <2> HIDE DEF i
  <2>3. \A j \in DOMAIN port : port[j].change.id = set[c][j].id /\ port[j].change.op = set[c][j].op
    BY <1>1, <1>2, <1>3 DEF FollowsSet
  <2>4. \A j \in DOMAIN port : port[j].change.id = y => j = i
    BY <1>1, <1>2, <1>3, <2>1, <2>3, OnceAssumption
  <2>5. changes[i] \in Change
    BY <1>1, <2>1, ElementOfSeq
  <2>6. set[c][i].op = "delete" => changes[i].left = Nothing
    BY <1>1, <1>2, <1>3, <2>1 DEF FollowsSet
  <2> QED
    BY <1>1, <1>3, <2>1, <2>2, <2>3, <2>4, <2>5, <2>6
<1> QED
  BY <1>4, <1>5

-----------------------------------------------------------------------------
(* Links waiting on a part.  A link is told by itself and its rank among   *)
(* those like it, so a link told as waiting before is one that did, and no *)
(* two are told as one.                                                    *)

LEMMA ToldApart ==
  ASSUME NEW links \in Seq(Link), NEW i \in DOMAIN links, NEW j \in DOMAIN links,
         Told(links)[i] = Told(links)[j]
  PROVE  i = j
<1> DEFINE before(k) == {l \in 1..(k - 1) : links[l] = links[k]}
<1>1. \A k \in DOMAIN links : Told(links)[k] = <<links[k], Cardinality(before(k))>>
  BY DEF Told
<1>2. links[i] = links[j] /\ Cardinality(before(i)) = Cardinality(before(j))
  <2> HIDE DEF before
  <2> QED
    BY <1>1
<1>3. ASSUME NEW k \in DOMAIN links, NEW l \in DOMAIN links, links[k] = links[l], k < l
      PROVE  Cardinality(before(k)) # Cardinality(before(l))
  <2>1. k \in Nat \ {0} /\ l \in Nat \ {0}
    OBVIOUS
  <2>2. before(k) \in SUBSET before(l) /\ k \in before(l) /\ k \notin before(k)
    BY <1>3, <2>1
  <2>3. IsFiniteSet(before(l))
    BY RankType
  <2> HIDE DEF before
  <2> QED
    BY <2>2, <2>3, FS_Subset
<1>4. i \in Nat /\ j \in Nat
  OBVIOUS
<1> HIDE DEF before
<1> QED
  BY <1>2, <1>3, <1>4

(* An artifact holds a link no more often than it held one told the same.  *)
LEMMA NoMoreCopies ==
  ASSUME NEW links \in Seq(Link), NEW held \in Seq(Link), NEW link,
         \A j \in DOMAIN links : links[j] = link =>
           \E k \in DOMAIN held : Told(held)[k] = Told(links)[j]
  PROVE  Cardinality({j \in DOMAIN links : links[j] = link})
           <= Cardinality({k \in DOMAIN held : held[k] = link})
<1> DEFINE J == {j \in DOMAIN links : links[j] = link}
           K == {k \in DOMAIN held : held[k] = link}
           f == [j \in J |-> CHOOSE k \in DOMAIN held : Told(held)[k] = Told(links)[j]]
<1>1. IsFiniteSet(DOMAIN links) /\ IsFiniteSet(DOMAIN held)
  <2>1. /\ DOMAIN links = 1..Len(links) /\ Len(links) \in Nat
        /\ DOMAIN held = 1..Len(held) /\ Len(held) \in Nat
    OBVIOUS
  <2> QED
    BY <2>1, FS_Interval
<1>2. IsFiniteSet(J) /\ IsFiniteSet(K)
  BY <1>1, FS_Subset
<1>3. \A j \in J : f[j] \in DOMAIN held /\ Told(held)[f[j]] = Told(links)[j]
  <2> SUFFICES ASSUME NEW j \in J
               PROVE  f[j] \in DOMAIN held /\ Told(held)[f[j]] = Told(links)[j]
    OBVIOUS
  <2>1. \E k \in DOMAIN held : Told(held)[k] = Told(links)[j]
    OBVIOUS
  <2>2. f[j] = CHOOSE k \in DOMAIN held : Told(held)[k] = Told(links)[j]
    OBVIOUS
  <2> HIDE DEF f
  <2> QED
    BY <2>1, <2>2, Zenon
<1> HIDE DEF f
<1>4. \A j \in J : f[j] \in K
  <2> SUFFICES ASSUME NEW j \in J PROVE held[f[j]] = link
    BY <1>3
  <2>1. Told(held)[f[j]][1] = held[f[j]] /\ Told(links)[j][1] = links[j]
    BY <1>3 DEF Told
  <2> QED
    BY <1>3, <2>1
<1>5. \A i, j \in J : f[i] = f[j] => i = j
  <2> SUFFICES ASSUME NEW i \in J, NEW j \in J, f[i] = f[j] PROVE i = j
    OBVIOUS
  <2>1. Told(links)[i] = Told(links)[j]
    BY <1>3
  <2> QED
    BY <2>1, ToldApart
<1>6. Cardinality(J) \in Nat /\ Cardinality(K) \in Nat
  BY <1>2, FS_CardinalityType
<1> DEFINE g == [j \in J |-> f[j]]
<1>7. g \in [J -> K] /\ \A j \in J : g[j] = f[j]
  BY <1>4
<1> HIDE DEF J, K, g
<1>8. ~(Cardinality(K) < Cardinality(J))
  <2> SUFFICES ASSUME Cardinality(K) < Cardinality(J) PROVE FALSE
    OBVIOUS
  <2>1. \E i, j \in J : i # j /\ g[i] = g[j]
    BY <1>2, <1>7, FS_PigeonHole
  <2> QED
    BY <1>5, <1>7, <2>1
<1> QED
  BY <1>6, <1>8 DEF J, K

(* A change leaves no more links waiting on a part their held target lacks *)
(* than its artifact held waiting before, each as often, whatever its set  *)
(* was drafted over (_waited, _lands).                                     *)
THEOREM WaitsNoMore == Spec => OnlyWhatWaitedWaits
<1> DEFINE A == \A y \in Iris : artifacts'[y] # artifacts[y] =>
       \/ Imported(y)
       \/ \A link \in LinksOf(artifacts', y) :
            Held(artifacts', link.target) /\ Waits(artifacts', link) =>
              /\ Waits(artifacts, link)
              /\ Copies(artifacts', y, link) <= Copies(artifacts, y, link)
<1>1. TypeInv /\ [Next]_vars => A
  <2> SUFFICES ASSUME TypeInv, [Next]_vars, NEW y \in Iris, artifacts'[y] # artifacts[y],
                      ~Imported(y), NEW link \in LinksOf(artifacts', y),
                      Held(artifacts', link.target), Waits(artifacts', link)
               PROVE  /\ Waits(artifacts, link)
                      /\ Copies(artifacts', y, link) <= Copies(artifacts, y, link)
    BY Zenon
  <2>1. PICK c \in Calls, port \in Seq(PortChange) : Passes(c, port)
    BY LandStep
  <2>2. PICK i \in DOMAIN port :
          /\ port[i].change.id = y /\ artifacts'[y] = port[i].change.left
          /\ port[i].change \in Change
          /\ i \in DOMAIN set[c] /\ set[c][i].op = port[i].change.op /\ set[c][i].id = y
          /\ port[i].change.op = "delete" => port[i].change.left = Nothing
    BY <2>1, LandingAt
  <2> DEFINE links == port[i].change.left.links
             held == artifacts[y].links
  <2>3. links \in Seq(Link) /\ held \in Seq(Link)
    BY <2>2 DEF Change, Artifact, TypeInv, TypeOK
  <2>4. port[i].change.op # "delete"
    BY <2>2 DEF LinksOf, Nothing
  <2>5. port[i].change.op # "import"
    BY <2>1, <2>2 DEF Passes, Imported
  <2>6. \A j \in DOMAIN links : LandsIn(artifacts', WaitedBefore(artifacts, port), port[i], j)
    <3>1. artifacts' = Put(artifacts, [k \in DOMAIN port |-> port[k].change])
      BY <2>1 DEF Passes, Bare
    <3>2. AllLand(artifacts, artifacts', port)
      BY <2>1, <3>1, Zenon DEF Passes, Integral
    <3> QED
      BY <2>4, <3>2 DEF AllLand
  <2>7. WaitedBefore(artifacts, port)[y] = HeldWaiting(artifacts, y)
    BY <2>2 DEF WaitedBefore
  <2>8. \A j \in DOMAIN links : links[j] = link => Told(links)[j] \in HeldWaiting(artifacts, y)
    BY <2>2, <2>5, <2>6, <2>7 DEF LandsIn
  <2>9. \A j \in DOMAIN links : links[j] = link =>
          \E k \in DOMAIN held : Waits(artifacts, held[k]) /\ Told(held)[k] = Told(links)[j]
    BY <2>8 DEF HeldWaiting
  <2>10. \E j \in DOMAIN links : links[j] = link
    BY <2>2 DEF LinksOf
  <2>11. Waits(artifacts, link)
    <3>1. PICK j \in DOMAIN links, k \in DOMAIN held :
            links[j] = link /\ Waits(artifacts, held[k]) /\ Told(held)[k] = Told(links)[j]
      BY <2>9, <2>10
    <3>2. Told(held)[k][1] = held[k] /\ Told(links)[j][1] = links[j]
      BY DEF Told
    <3> QED
      BY <3>1, <3>2
  <2>12. /\ Copies(artifacts', y, link) = Cardinality({j \in DOMAIN links : links[j] = link})
         /\ Copies(artifacts, y, link) = Cardinality({k \in DOMAIN held : held[k] = link})
    BY <2>2, Zenon DEF Copies
  <2> HIDE DEF links, held
  <2>13. Copies(artifacts', y, link) <= Copies(artifacts, y, link)
    <3>1. \A j \in DOMAIN links : links[j] = link =>
            \E k \in DOMAIN held : Told(held)[k] = Told(links)[j]
      BY <2>9
    <3>2. Cardinality({j \in DOMAIN links : links[j] = link})
            <= Cardinality({k \in DOMAIN held : held[k] = link})
      BY <2>3, <3>1, NoMoreCopies
    <3> QED
      BY <2>12, <3>2
  <2> QED
    BY <2>11, <2>13
<1> HIDE DEF A
<1>2. Spec => [][A]_vars
  BY <1>1, TypesStart, TypesNext, PTL DEF Spec
<1> QED
  BY <1>2 DEF OnlyWhatWaitedWaits, A

-----------------------------------------------------------------------------
(* Links that land go on landing.  What holds a link and is the same after *)
(* a landing was not changed by it, since every change moves its artifact  *)
(* on from the revision it was read at.                                    *)

Stamped(changes) ==
  \A i \in DOMAIN changes :
    /\ changes[i].op = "write" => changes[i].left.revision = changes[i].read + 1
    /\ changes[i].op = "create" => changes[i].left.revision = 1 /\ changes[i].read = 0

(* What no operation before the i-th is of stands as drafted over.         *)
LEMMA LeftUntouched ==
  ASSUME NEW st \in Stores, NEW ops \in Seq(Operation), NEW i \in 1..(Len(ops) + 1), NEW x \in Iris,
         \A j \in 1..(i - 1) : ops[j].id # x
  PROVE  LeftBefore(st, ops, i)[x] = st[x]
<1> DEFINE T == {n \in Nat : n \in 1..i /\ LeftBefore(st, ops, n)[x] # st[x]}
<1>1. ASSUME T # {} PROVE FALSE
  <2>1. PICK n \in T : \A k \in T : n <= k
    BY <1>1, LeastNumber
  <2>2. n # 1
    BY <2>1, LeftBeforeStep
  <2>3. PICK k \in Nat \ {0} : n = k + 1 /\ k \in 1..(i - 1) /\ k \notin T
    <3>1. n - 1 \in Nat \ {0} /\ n = (n - 1) + 1 /\ n - 1 \in 1..(i - 1) /\ n - 1 \notin T
      BY <2>1, <2>2
    <3> QED
      BY <3>1
  <2> DEFINE s == LeftBefore(st, ops, k)
  <2>4. s \in Stores
    <3>1. k \in 1..(Len(ops) + 1)
      BY <2>3
    <3> QED
      BY <3>1, LeftBeforeType
  <2>5. LeftBefore(st, ops, k + 1) = After(ops, s, k)
    BY <2>3, LeftBeforeStep
  <2>6. s[x] = st[x]
    BY <2>3
  <2> HIDE DEF s
  <2>7. LeftBefore(st, ops, k + 1)[x] = s[x]
    BY <2>3, <2>4, <2>5 DEF After, Stores
  <2> QED
    BY <2>1, <2>3, <2>6, <2>7
<1>2. i \in Nat /\ i \in 1..i
  OBVIOUS
<1> QED
  BY <1>1, <1>2

(* The store as the changes before the i-th leave it, at what none is of.  *)
LEMMA PutUntouched ==
  ASSUME NEW st, NEW changes, NEW x \in Iris, \A j \in DOMAIN changes : changes[j].id # x
  PROVE  Put(st, changes)[x] = st[x]
BY DEF Put, Changed

LEMMA DraftStamps ==
  ASSUME NEW st \in Stores, NEW ops \in Sets, Accepts(st, ops)
  PROVE  Stamped(Drafted(st, ops))
<1>1. ops \in Seq(Operation) /\ DOMAIN ops = 1..Len(ops) /\ Len(ops) \in Nat
  BY SetsAssumption
<1> SUFFICES ASSUME NEW i \in DOMAIN ops
             PROVE  LET change == Drafted(st, ops)[i] IN
                    /\ change.op = "write" => change.left.revision = change.read + 1
                    /\ change.op = "create" => change.left.revision = 1 /\ change.read = 0
  BY DEF Stamped, Drafted
<1> DEFINE change == Drafted(st, ops)[i]
           before == LeftBefore(st, ops, i)
           x == ops[i].id
<1>2. /\ change.op = ops[i].op /\ change.left = Made(before, ops[i])
      /\ change.read = ReadAt(st, ops, i)
  BY DEF Drafted
<1>3. ops[i] \in Operation /\ x \in Iris
  <2>1. ops[i] \in Operation
    BY <1>1, ElementOfSeq
  <2> QED
    BY <2>1 DEF Operation
<1>4. before \in Stores
  BY <1>1, LeftBeforeType
<1>5. \A j \in 1..(i - 1) : ops[j].id # x
  BY <1>1, OnceAssumption
<1>6. before[x] = st[x]
  BY <1>1, <1>3, <1>5, LeftUntouched
<1>7. ASSUME ops[i].op = "write" PROVE change.left.revision = change.read + 1
  <2>1. change.left = Revised(before[x], ops[i]) /\ change.read = before[x].revision
    BY <1>2, <1>7 DEF Made, ReadAt
  <2>2. before[x] \in Artifact
    BY <1>3, <1>4 DEF Stores
  <2> HIDE DEF change, before
  <2>3. Revised(before[x], ops[i]).revision = before[x].revision + 1
    BY <2>2 DEF Revised, Artifact
  <2> QED
    BY <2>1, <2>3
<1>8. ASSUME ops[i].op = "create" PROVE change.left.revision = 1 /\ change.read = 0
  <2>1. change.left.revision = 1
    BY <1>2, <1>3, <1>8 DEF Made, Brought, Operation
  <2> DEFINE prefix == SubSeq(Drafted(st, ops), 1, i - 1)
  <2>2. Acts(Put(st, prefix), ops[i])
    BY DEF Accepts
  <2>3. ~Held(Put(st, prefix), x)
    BY <1>8, <2>2 DEF Acts, Identity
  <2>4. Put(st, prefix)[x] = st[x]
    <3>1. Drafted(st, ops) \in Seq(Change) /\ Len(Drafted(st, ops)) = Len(ops)
      BY <1>1, DraftedType
    <3>2. DOMAIN prefix = 1..(i - 1) /\ \A j \in 1..(i - 1) : prefix[j] = Drafted(st, ops)[j]
      BY <1>1, <3>1, SubSeqProperties
    <3>3. \A j \in 1..(i - 1) : Drafted(st, ops)[j].id = ops[j].id
      BY <1>1 DEF Drafted
    <3> HIDE DEF prefix, x
    <3>4. \A j \in DOMAIN prefix : prefix[j].id # x
      BY <1>5, <3>2, <3>3
    <3> QED
      BY <1>3, <3>4, PutUntouched
  <2>5. st[x].revision = 0
    BY <2>3, <2>4 DEF Held
  <2> QED
    BY <1>2, <1>6, <1>8, <2>1, <2>5 DEF ReadAt
<1> HIDE DEF change
<1> QED
  BY <1>2, <1>7, <1>8, Zenon DEF change

StampedOn(c) ==
  /\ at[c] \in {"judge", "hand", "land"} => \A i \in DOMAIN set[c] : set[c][i].op # "import"
  /\ at[c] = "hand" => Stamped(judged[c].changes)
  /\ at[c] = "land" => Stamped(Bare(handed[c]))

StampInv == TypeInv /\ \A c \in Calls : StampedOn(c)

LEMMA StampsStart == Init => StampInv
BY TypesStart DEF Init, StampInv, StampedOn

LEMMA StampsNext == StampInv /\ [Next]_vars => StampInv'
<1> SUFFICES ASSUME StampInv, [Next]_vars PROVE StampInv'
  OBVIOUS
<1>0. /\ TypeInv /\ TypeInv' /\ artifacts \in Stores /\ at \in [Calls -> Steps]
      /\ set \in [Calls -> Seq(Operation)]
      /\ judged \in [Calls -> [changes : Seq(Change), types : SUBSET (Iris \X Nat)]]
      /\ handed \in [Calls -> Seq(PortChange)]
  BY TypesNext DEF StampInv, TypeInv, TypeOK, Stores
<1> SUFFICES ASSUME NEW d \in Calls PROVE StampedOn(d)'
  BY <1>0 DEF StampInv
<1>e. ASSUME NEW c \in Calls, Ends(c) PROVE StampedOn(d)'
  BY <1>0, <1>e DEF Ends, StampInv, StampedOn
<1>1. ASSUME NEW c \in Calls, Asks(c) PROVE StampedOn(d)'
  BY <1>0, <1>1 DEF Asks, StampInv, StampedOn
<1>2. ASSUME NEW c \in Calls, Judges(c), ~Ends(c) PROVE StampedOn(d)'
  <2>1. Accepts(artifacts, set[c]) /\ set[c] \in Sets
    BY <1>0, <1>2 DEF Judges, TypeInv, OnItsWay
  <2>2. Stamped(Draft(artifacts, set[c]).changes)
    BY <1>0, <2>1, DraftStamps DEF Draft
  <2> QED
    BY <1>0, <1>2, <2>1, <2>2 DEF Judges, StampInv, StampedOn
<1>3. ASSUME NEW c \in Calls, Hands(c), ~Ends(c) PROVE StampedOn(d)'
  <2> DEFINE port == Handed(artifacts, judged[c])
  <2>1. Bare(port) = judged[c].changes /\ Stamped(judged[c].changes)
    <3>1. judged[c].changes \in Seq(Change)
      BY <1>0
    <3> QED
      BY <1>3, <3>1, BareHanded DEF Hands, StampInv, StampedOn
  <2> HIDE DEF port
  <2>2. at'[c] = "land" => handed'[c] = port
    BY <1>0, <1>3 DEF Hands, port
  <2>3. /\ at[c] = "hand" /\ at'[c] # "hand" /\ set' = set
        /\ d # c => at'[d] = at[d] /\ judged'[d] = judged[d] /\ handed'[d] = handed[d]
    BY <1>0, <1>3 DEF Hands
  <2> QED
    BY <2>1, <2>2, <2>3 DEF StampInv, StampedOn
<1>4. ASSUME NEW c \in Calls, Lands(c), ~Ends(c) PROVE StampedOn(d)'
  BY <1>0, <1>4 DEF Lands, StampInv, StampedOn
<1>5. CASE UNCHANGED vars
  BY <1>5 DEF vars, StampInv, StampedOn
<1> QED
  BY <1>e, <1>1, <1>2, <1>3, <1>4, <1>5 DEF Next, LandsUnderLock

(* Each change of a landing finds its artifact at the revision it read.    *)
LEMMA FindsRead ==
  ASSUME TypeInv, NEW c \in Calls, NEW port \in Seq(PortChange), Passes(c, port),
         NEW i \in DOMAIN port, \A j \in DOMAIN port : port[j].change.id = port[i].change.id => j = i
  PROVE  artifacts[port[i].change.id].revision = port[i].change.read
<1> DEFINE prefix == [j \in 1..(i - 1) |-> port[j].change]
           x == port[i].change.id
<1>1. Put(artifacts, prefix)[x].revision = port[i].change.read
  BY Zenon DEF Passes, Moved
<1>2. x \in Iris
  <2>1. port[i] \in PortChange
    BY ElementOfSeq
  <2> QED
    BY <2>1 DEF PortChange, Change
<1>3. \A j \in DOMAIN prefix : prefix[j].id # x
  OBVIOUS
<1> HIDE DEF prefix, x
<1>4. Put(artifacts, prefix)[x] = artifacts[x]
  BY <1>2, <1>3, PutUntouched
<1> QED
  BY <1>1, <1>4 DEF x

(* An artifact a landing changes is not as it was, unless it is removed.   *)
LEMMA ChangedMoves ==
  ASSUME StampInv, NEW c \in Calls, NEW port \in Seq(PortChange), Passes(c, port),
         \/ at[c] = "land" /\ port = handed[c]
         \/ /\ at[c] = "relock" /\ port = Handed(artifacts, Draft(artifacts, set[c]))
            /\ Examined(artifacts, set[c]) /\ Accepts(artifacts, set[c]),
         NEW i \in DOMAIN port, port[i].change.op # "delete",
         artifacts'[port[i].change.id] = port[i].change.left,
         \A j \in DOMAIN port : port[j].change.id = port[i].change.id => j = i
  PROVE  artifacts'[port[i].change.id] # artifacts[port[i].change.id]
<1>0. /\ TypeInv /\ artifacts \in Stores /\ set[c] \in Sets /\ set[c] \in Seq(Operation)
      /\ FollowsSet(Bare(port), set[c])
  BY SetsAssumption DEF StampInv, TypeInv, TypeOK, Passes, Stores
<1> DEFINE change == port[i].change
<1>1. /\ i \in DOMAIN set[c] /\ i \in DOMAIN Bare(port) /\ Bare(port)[i] = change
      /\ change.op = set[c][i].op /\ change.id = set[c][i].id
  <2>1. Len(Bare(port)) = Len(set[c]) /\ Len(Bare(port)) = Len(port) /\ DOMAIN Bare(port) = DOMAIN port
    BY <1>0, BareType DEF FollowsSet, Bare
  <2>2. DOMAIN set[c] = 1..Len(set[c]) /\ DOMAIN port = 1..Len(port)
    BY <1>0
  <2>3. i \in DOMAIN set[c] /\ Bare(port)[i] = change
    BY <2>1, <2>2 DEF Bare
  <2> HIDE DEF change
  <2> QED
    BY <1>0, <2>1, <2>3 DEF FollowsSet
<1>2. artifacts[change.id].revision = change.read
  BY <1>0, FindsRead
<1>3. change \in Change
  <2>1. port[i] \in PortChange
    BY ElementOfSeq
  <2> QED
    BY <2>1 DEF PortChange
<1>4. ASSUME Stamped(Bare(port)), change.op \in {"write", "create"}
      PROVE  change.left.revision # artifacts[change.id].revision
  <2>1. change.read \in Nat
    BY <1>3 DEF Change
  <2> HIDE DEF change
  <2> QED
    BY <1>1, <1>2, <1>4, <2>1 DEF Stamped
<1>5. CASE at[c] = "land" /\ port = handed[c]
  <2>1. Stamped(Bare(port))
    BY <1>5 DEF StampInv, StampedOn
  <2>2. change.op # "import"
    BY <1>1, <1>5 DEF StampInv, StampedOn
  <2> QED
    BY <1>3, <1>4, <2>1, <2>2 DEF Change
<1>6. CASE /\ at[c] = "relock" /\ port = Handed(artifacts, Draft(artifacts, set[c]))
           /\ Examined(artifacts, set[c]) /\ Accepts(artifacts, set[c])
  <2>1. Bare(port) = Drafted(artifacts, set[c])
    <3>1. /\ Draft(artifacts, set[c]).changes = Drafted(artifacts, set[c])
          /\ Draft(artifacts, set[c]).changes \in Seq(Change)
      BY <1>0, DraftType, DraftedType
    <3> QED
      BY <1>6, <3>1, BareHanded
  <2>2. Stamped(Bare(port))
    BY <1>0, <1>6, <2>1, DraftStamps
  <2>3. ASSUME change.op = "import"
        PROVE  change.left.revision # artifacts[change.id].revision
    <3> DEFINE op == set[c][i]
    <3>1. op.op = "import" /\ change.id = op.id
      BY <1>1, <2>3
    <3>2. ~Held(artifacts, op.id)
      BY <1>1, <1>6, <3>1 DEF Examined
    <3>3. op.revision # 0
      BY <1>0, <1>1, <3>1, ImportsAssumption
    <3>4. change.left = Made(LeftBefore(artifacts, set[c], i), op)
      BY <1>1, <2>1 DEF Drafted
    <3> HIDE DEF op, change
    <3>5. change.left.revision = op.revision
      BY <3>1, <3>4 DEF Made, Brought
    <3> QED
      BY <3>1, <3>2, <3>3, <3>5 DEF Held
  <2> QED
    BY <1>3, <1>4, <2>2, <2>3 DEF Change
<1> QED
  BY <1>5, <1>6

(* A link that lands goes on landing until the artifact holding it is      *)
(* changed: nobody removes, or drops the part of, what another links to,   *)
(* whatever their set was drafted over (_integral).                        *)
THEOREM LinksStay == Spec => LandedStays
<1> DEFINE A == \A y \in Iris : artifacts'[y] = artifacts[y] =>
                  Landing(artifacts, y) \subseteq Landing(artifacts', y)
<1>1. StampInv /\ [Next]_vars => A
  <2> SUFFICES ASSUME StampInv, [Next]_vars, NEW y \in Iris, artifacts'[y] = artifacts[y],
                      NEW link \in Landing(artifacts, y), artifacts' # artifacts
               PROVE  link \in Landing(artifacts', y)
    BY Zenon
  <2>0. TypeInv /\ artifacts \in Stores /\ artifacts' \in Stores
    BY TypesNext DEF StampInv, TypeInv, TypeOK, Stores
  <2>1. PICK c \in Calls, port \in Seq(PortChange) :
           /\ Passes(c, port)
           /\ \/ at[c] = "land" /\ port = handed[c]
              \/ /\ at[c] = "relock" /\ port = Handed(artifacts, Draft(artifacts, set[c]))
                 /\ Examined(artifacts, set[c]) /\ Accepts(artifacts, set[c])
    BY <2>0, LandStep
  <2> DEFINE x == link.target
             changed == {port[i].change.id : i \in DOMAIN port}
  <2>2. /\ link \in LinksOf(artifacts, y) /\ link \in LinksOf(artifacts', y)
        /\ Held(artifacts, x) /\ (link.part = Whole \/ link.part \in artifacts[x].parts)
    BY DEF Landing, LinksOf, Waits
  <2>3. link \in Link /\ x \in Iris
    <3>1. artifacts[y].links \in Seq(Link)
      BY <2>0 DEF Stores, Artifact
    <3>2. link \in Link
      BY <2>2, <3>1, ElementOfSeq DEF LinksOf
    <3> QED
      BY <3>2 DEF Link
  <2>4. y \notin changed
    <3> SUFFICES ASSUME y \in changed PROVE FALSE
      OBVIOUS
    <3>1. PICK k \in DOMAIN port : port[k].change.id = y
      OBVIOUS
    <3>2. PICK i \in DOMAIN port :
            /\ port[i].change.id = y /\ artifacts'[y] = port[i].change.left
            /\ port[i].change.op = "delete" => port[i].change.left = Nothing
            /\ \A j \in DOMAIN port : port[j].change.id = y => j = i
      BY <2>0, <2>1, <3>1, LandingAt
    <3>3. port[i].change.op # "delete"
      BY <2>2, <3>2 DEF LinksOf, Nothing
    <3> QED
      BY <2>1, <3>2, <3>3, ChangedMoves
  <2>5. NoneLinked(artifacts, artifacts', port)
    <3>1. artifacts' = Put(artifacts, [k \in DOMAIN port |-> port[k].change])
      BY <2>1 DEF Passes, Bare
    <3> QED
      BY <2>1, <3>1, Zenon DEF Passes, Integral
  <2>6. ~Waits(artifacts', link)
    <3>1. CASE x \notin changed
      <4>1. artifacts'[x] = artifacts[x]
        BY <2>0, <2>1, <2>3, <3>1, LandingAt
      <4> QED
        BY <2>2, <4>1 DEF Waits, Held
    <3>2. CASE x \in changed
      <4>1. <<y, link>> \in LinksIn(artifacts', x)
        BY <2>2 DEF LinksIn
      <4>2. Held(artifacts', x) /\ link.part \notin Dropped(artifacts, artifacts', x)
        BY <2>2, <2>4, <2>5, <3>2, <4>1 DEF NoneLinked
      <4> QED
        BY <2>2, <4>2 DEF Waits, Dropped
    <3> QED
      BY <3>1, <3>2
  <2> QED
    BY <2>2, <2>6 DEF Landing
<1> HIDE DEF A
<1>2. Spec => [][A]_vars
  BY <1>1, StampsStart, StampsNext, PTL DEF Spec
<1> QED
  BY <1>2 DEF LandedStays, A

-----------------------------------------------------------------------------
(* Where artifacts belong.  The nearest held type above an IRI is one it   *)
(* sits under, with no held type between.                                  *)

LEMMA AboveType ==
  ASSUME NEW x \in Iris
  PROVE  /\ Above[x] \in Seq(Iris)
         /\ DOMAIN Above[x] = 1..Len(Above[x]) /\ Len(Above[x]) \in Nat
         /\ \A i \in DOMAIN Above[x] : Above[x][i] \in Iris
<1>1. Above[x] \in Seq(Iris)
  BY AboveAssumption
<1>2. \A i \in DOMAIN Above[x] : Above[x][i] \in Iris
  BY <1>1, ElementOfSeq
<1> QED
  BY <1>1, <1>2

LEMMA BetweenIs ==
  ASSUME NEW x \in Iris, NEW t, NEW y
  PROVE  y \in Between(x, t) <=>
           /\ SitsUnder(x, t)
           /\ \E j \in DOMAIN Above[x] : Above[x][j] = y /\ \A k \in 1..j : Above[x][k] # t
BY Zenon DEF Between

LEMMA LowestIs ==
  ASSUME NEW x \in Iris, NEW T, RanksIn(x, T) # {}
  PROVE  \E i \in RanksIn(x, T) :
           NearestIn(x, T) = Above[x][i] /\ \A j \in RanksIn(x, T) : i <= j
<1> DEFINE P == RanksIn(x, T)
           least == CHOOSE i \in P : \A j \in P : i <= j
<1>1. P \in SUBSET Nat
  BY AboveType DEF RanksIn
<1>2. \E i \in P : \A j \in P : i <= j
  BY <1>1, LeastNumber, Zenon
<1>3. least \in P /\ \A j \in P : least <= j
  BY <1>2, Zenon
<1>4. NearestIn(x, T) = Above[x][least]
  BY Zenon DEF NearestIn, LowestOf
<1> HIDE DEF least
<1> QED
  BY <1>3, <1>4

LEMMA NearestIs ==
  ASSUME NEW st, NEW x \in Iris, NEW k \in Iris
  PROVE  Nearest(st, x) = k <=>
           /\ SitsUnder(x, k) /\ Typed(st, k)
           /\ \A y \in Between(x, k) : ~Typed(st, y)
<1> DEFINE T == {y \in Iris : Typed(st, y)}
<1>1. Nearest(st, x) = NearestIn(x, T)
  BY NearestAs
<1>2. \A i : i \in RanksIn(x, T) <=> i \in DOMAIN Above[x] /\ Typed(st, Above[x][i])
  BY AboveType DEF RanksIn
<1>3. RanksIn(x, T) = {} => NearestIn(x, T) = NoIri
  BY DEF NearestIn, LowestOf
<1>4. DOMAIN Above[x] = 1..Len(Above[x]) /\ Len(Above[x]) \in Nat
  BY AboveType
<1> HIDE DEF T
<1>5. ASSUME NearestIn(x, T) = k
      PROVE  SitsUnder(x, k) /\ Typed(st, k) /\ \A y \in Between(x, k) : ~Typed(st, y)
  <2>1. RanksIn(x, T) # {}
    BY <1>3, <1>5, NoIriAssumption
  <2>2. PICK i \in RanksIn(x, T) : k = Above[x][i] /\ \A j \in RanksIn(x, T) : i <= j
    BY <1>5, <2>1, LowestIs
  <2>3. SitsUnder(x, k) /\ Typed(st, k)
    BY <1>2, <2>2 DEF SitsUnder
  <2>4. ASSUME NEW y \in Between(x, k), Typed(st, y) PROVE FALSE
    <3>1. PICK j \in DOMAIN Above[x] : Above[x][j] = y /\ \A l \in 1..j : Above[x][l] # k
      BY BetweenIs
    <3>2. i <= j /\ i \in DOMAIN Above[x]
      BY <1>2, <2>2, <2>4, <3>1
    <3>3. i \in 1..j
      BY <1>4, <3>2
    <3> QED
      BY <2>2, <3>1, <3>3
  <2> QED
    BY <2>3, <2>4
<1>6. ASSUME SitsUnder(x, k), Typed(st, k), \A y \in Between(x, k) : ~Typed(st, y)
      PROVE  NearestIn(x, T) = k
  <2>1. PICK l \in DOMAIN Above[x] : Above[x][l] = k
    BY <1>6 DEF SitsUnder
  <2>2. RanksIn(x, T) # {}
    BY <1>2, <1>6, <2>1
  <2>3. PICK i \in RanksIn(x, T) : NearestIn(x, T) = Above[x][i] /\ \A j \in RanksIn(x, T) : i <= j
    BY <2>2, LowestIs
  <2>4. i \in DOMAIN Above[x] /\ Typed(st, Above[x][i])
    BY <1>2, <2>3
  <2>5. ASSUME Above[x][i] # k PROVE FALSE
    <3>1. ASSUME NEW j \in 1..i, Above[x][j] = k PROVE FALSE
      <4>1. j \in DOMAIN Above[x] /\ j \in Nat /\ i \in Nat /\ j <= i
        BY <1>4, <2>4
      <4>2. i <= j
        BY <1>2, <1>6, <2>3, <3>1, <4>1
      <4> QED
        BY <2>5, <3>1, <4>1, <4>2
    <3>2. Above[x][i] \in Between(x, k)
      BY <1>6, <2>4, <3>1, BetweenIs
    <3> QED
      BY <1>6, <2>4, <3>2
  <2> QED
    BY <2>3, <2>5
<1> QED
  BY <1>1, <1>5, <1>6

(* What lies between an IRI and one above it sits under that one too, with *)
(* no more between them (names.above).                                     *)
LEMMA BetweenNests ==
  ASSUME NEW x \in Iris, NEW k \in Iris, NEW z \in Between(x, k)
  PROVE  /\ z \in Iris /\ SitsUnder(x, z) /\ SitsUnder(z, k)
         /\ Between(z, k) \subseteq Between(x, k)
<1> DEFINE N == Len(Above[x])
<1>1. /\ Above[x] \in Seq(Iris) /\ DOMAIN Above[x] = 1..N /\ N \in Nat
      /\ \A l \in DOMAIN Above[x] : Above[x][l] \in Iris
  BY AboveType
<1>2. PICK j \in DOMAIN Above[x] : Above[x][j] = z /\ \A l \in 1..j : Above[x][l] # k
  BY BetweenIs
<1>3. SitsUnder(x, k)
  BY BetweenIs
<1>4. PICK i \in DOMAIN Above[x] : Above[x][i] = k
  BY <1>3 DEF SitsUnder
<1>5. z \in Iris /\ SitsUnder(x, z)
  BY <1>1, <1>2 DEF SitsUnder
<1>6. Above[z] = SubSeq(Above[x], j + 1, N)
  BY <1>2, AboveAssumption
<1>7. /\ DOMAIN Above[z] = 1..(N - j)
      /\ \A m \in 1..(N - j) : Above[z][m] = Above[x][j + m]
  <2>1. /\ Len(Above[z]) = IF j + 1 <= N THEN N - (j + 1) + 1 ELSE 0
        /\ \A m \in 1..(N - j) : Above[z][m] = Above[x][(j + 1) + m - 1]
    BY <1>1, <1>6, SubSeqProperties
  <2>2. DOMAIN Above[z] = 1..Len(Above[z])
    BY <1>5, AboveType
  <2> HIDE DEF N
  <2>3. Len(Above[z]) = N - j
    BY <1>1, <2>1
  <2>4. \A m \in 1..(N - j) : (j + 1) + m - 1 = j + m
    BY <1>1
  <2> QED
    BY <2>1, <2>2, <2>3, <2>4
<1> HIDE DEF N
<1>8. SitsUnder(z, k)
  <2>1. i > j /\ i - j \in 1..(N - j) /\ j + (i - j) = i
    BY <1>1, <1>2, <1>4
  <2> QED
    BY <1>4, <1>7, <2>1 DEF SitsUnder
<1>9. ASSUME NEW y \in Between(z, k) PROVE y \in Between(x, k)
  <2>1. PICK m \in DOMAIN Above[z] : Above[z][m] = y /\ \A l \in 1..m : Above[z][l] # k
    BY <1>5, BetweenIs
  <2>2. m \in 1..(N - j) /\ j + m \in DOMAIN Above[x] /\ Above[x][j + m] = y
    BY <1>1, <1>7, <2>1
  <2>3. ASSUME NEW l \in 1..(j + m) PROVE Above[x][l] # k
    <3>1. CASE l <= j
      BY <1>1, <1>2, <3>1
    <3>2. CASE l > j
      <4>1. l - j \in 1..m /\ l - j \in 1..(N - j) /\ j + (l - j) = l
        BY <1>1, <2>2, <3>2
      <4> QED
        BY <1>7, <2>1, <4>1
    <3> QED
      BY <1>1, <3>1, <3>2
  <2> QED
    BY <1>3, <2>2, <2>3, BetweenIs
<1> QED
  BY <1>5, <1>8, <1>9

-----------------------------------------------------------------------------
(* A set drafted, one operation after another: what each leaves, over what *)
(* stood before the set, and the store as the first m leave it.            *)

Upto(st, ops, m) == Put(st, SubSeq(Drafted(st, ops), 1, m))

LEMMA SetType ==
  ASSUME NEW st \in Stores, NEW ops \in Sets
  PROVE  /\ ops \in Seq(Operation) /\ DOMAIN ops = 1..Len(ops) /\ Len(ops) \in Nat
         /\ \A i \in DOMAIN ops : ops[i] \in Operation /\ ops[i].id \in Iris
         /\ Drafted(st, ops) \in Seq(Change) /\ DOMAIN Drafted(st, ops) = 1..Len(ops)
         /\ \A i \in DOMAIN ops : /\ Drafted(st, ops)[i] \in Change
                                  /\ Drafted(st, ops)[i].op = ops[i].op
                                  /\ Drafted(st, ops)[i].id = ops[i].id
<1>1. ops \in Seq(Operation) /\ DOMAIN ops = 1..Len(ops) /\ Len(ops) \in Nat
  BY SetsAssumption
<1>2. \A i \in DOMAIN ops : ops[i] \in Operation
  BY <1>1, ElementOfSeq
<1>3. \A i \in DOMAIN ops : ops[i].id \in Iris
  BY <1>2 DEF Operation
<1>4. Drafted(st, ops) \in Seq(Change) /\ Len(Drafted(st, ops)) = Len(ops)
  BY <1>1, DraftedType
<1>5. DOMAIN Drafted(st, ops) = 1..Len(ops)
  BY <1>4
<1>6. \A i \in DOMAIN ops : Drafted(st, ops)[i] \in Change
  BY <1>1, <1>4, <1>5, ElementOfSeq
<1>7. \A i \in DOMAIN ops : Drafted(st, ops)[i].op = ops[i].op /\ Drafted(st, ops)[i].id = ops[i].id
  BY DEF Drafted
<1> QED
  BY <1>1, <1>2, <1>3, <1>4, <1>5, <1>6, <1>7

LEMMA UptoAt ==
  ASSUME NEW st \in Stores, NEW ops \in Sets, NEW m \in 0..Len(ops), NEW y \in Iris
  PROVE  /\ \A i \in DOMAIN ops : ops[i].id = y =>
              Upto(st, ops, m)[y] = IF i <= m THEN Drafted(st, ops)[i].left ELSE st[y]
         /\ (\A i \in DOMAIN ops : ops[i].id # y) => Upto(st, ops, m)[y] = st[y]
<1> DEFINE changes == Drafted(st, ops)
           prefix == SubSeq(changes, 1, m)
<1>1. /\ DOMAIN ops = 1..Len(ops) /\ Len(ops) \in Nat /\ m \in Nat /\ m <= Len(ops)
      /\ changes \in Seq(Change) /\ Len(changes) = Len(ops)
      /\ \A i \in DOMAIN ops : changes[i].id = ops[i].id
  BY SetType, DraftedType, SetsAssumption
<1> HIDE DEF changes
<1>2. Len(prefix) = m /\ DOMAIN prefix = 1..m /\ \A j \in 1..m : prefix[j] = changes[j]
  BY <1>1, SubSeqProperties
<1> HIDE DEF prefix
<1>3. \A j \in 1..m : j \in DOMAIN ops /\ prefix[j].id = ops[j].id
  BY <1>1, <1>2
<1>4. Upto(st, ops, m) = Put(st, prefix)
  BY DEF Upto, prefix, changes
<1>5. ASSUME NEW i \in DOMAIN ops, ops[i].id = y, i <= m
      PROVE  Put(st, prefix)[y] = changes[i].left
  <2>1. y \in Changed(prefix)
    <3>1. i \in 1..m
      BY <1>1, <1>5
    <3> QED
      BY <1>2, <1>3, <1>5, <3>1 DEF Changed
  <2>2. LastOf(prefix, y) \in 1..m /\ prefix[LastOf(prefix, y)].id = y
    BY <1>1, <1>2, <2>1, LastThere
  <2>3. LastOf(prefix, y) = i
    BY <1>3, <1>5, <2>2, OnceAssumption
  <2>4. Put(st, prefix)[y] = prefix[i].left
    BY <2>1, <2>3 DEF Put
  <2> QED
    BY <1>2, <2>2, <2>3, <2>4
<1>6. ASSUME NEW i \in DOMAIN ops, ops[i].id = y, ~(i <= m)
      PROVE  Put(st, prefix)[y] = st[y]
  <2>1. \A j \in DOMAIN prefix : prefix[j].id # y
    <3>1. ASSUME NEW j \in 1..m, prefix[j].id = y PROVE FALSE
      <4>1. j = i
        BY <1>3, <1>6, <3>1, OnceAssumption
      <4> QED
        BY <1>1, <1>6, <4>1
    <3> QED
      BY <1>2, <3>1
  <2> QED
    BY <2>1, PutUntouched
<1>7. ASSUME \A i \in DOMAIN ops : ops[i].id # y PROVE Put(st, prefix)[y] = st[y]
  BY <1>2, <1>3, <1>7, PutUntouched
<1> QED
  BY <1>4, <1>5, <1>6, <1>7 DEF changes

LEMMA UptoWhole ==
  ASSUME NEW st \in Stores, NEW ops \in Sets
  PROVE  Upto(st, ops, Len(ops)) = Put(st, Drafted(st, ops))
<1> DEFINE changes == Drafted(st, ops)
<1>1. changes \in Seq(Change) /\ Len(changes) = Len(ops)
  BY DraftedType, SetsAssumption
<1> HIDE DEF changes
<1>2. Len(changes) \in Nat /\ Len(changes) \in 0..Len(changes)
  BY <1>1
<1>3. SubSeq(changes, 1, Len(changes)) = changes
  BY <1>1
<1> QED
  BY <1>1, <1>3 DEF Upto, changes

LEMMA DraftLeaves ==
  ASSUME NEW st \in Stores, NEW ops \in Sets, NEW i \in DOMAIN ops
  PROVE  LET op == ops[i] IN
         LET left == Drafted(st, ops)[i].left IN
         /\ op.op \in {"create", "import"} => left.kind = op.kind /\ left.revision # 0
         /\ op.op = "write" =>
              left.kind = st[op.id].kind /\ left.revision = st[op.id].revision + 1
         /\ op.op = "delete" => left = Nothing
<1> DEFINE op == ops[i]
           before == LeftBefore(st, ops, i)
           left == Drafted(st, ops)[i].left
<1>1. /\ ops \in Seq(Operation) /\ DOMAIN ops = 1..Len(ops) /\ Len(ops) \in Nat
      /\ op \in Operation /\ op.id \in Iris
  BY SetType
<1>2. left = Made(before, op)
  BY DEF Drafted
<1>3. before[op.id] = st[op.id]
  <2>1. \A j \in 1..(i - 1) : ops[j].id # op.id
    BY <1>1, OnceAssumption
  <2> QED
    BY <1>1, <2>1, LeftUntouched
<1>4. st[op.id] \in Artifact
  BY <1>1 DEF Stores
<1>5. op.op = "import" => op.revision # 0
  BY ImportsAssumption
<1> HIDE DEF left, before, op
<1>6. ASSUME op.op = "create" PROVE left.kind = op.kind /\ left.revision # 0
  BY <1>1, <1>2, <1>6 DEF Made, Brought, Operation
<1>7. ASSUME op.op = "import" PROVE left.kind = op.kind /\ left.revision # 0
  BY <1>2, <1>5, <1>7 DEF Made, Brought
<1>8. ASSUME op.op = "write"
      PROVE  left.kind = st[op.id].kind /\ left.revision = st[op.id].revision + 1
  <2>1. left = Revised(st[op.id], op)
    BY <1>2, <1>3, <1>8 DEF Made
  <2> QED
    BY <1>4, <2>1 DEF Revised, Artifact
<1>9. op.op = "delete" => left = Nothing
  BY <1>2 DEF Made
<1> QED
  BY <1>6, <1>7, <1>8, <1>9 DEF op, left

LEMMA DraftActs ==
  ASSUME NEW st \in Stores, NEW ops \in Sets, Accepts(st, ops), NEW i \in DOMAIN ops
  PROVE  /\ Upto(st, ops, i - 1)[ops[i].id] = st[ops[i].id]
         /\ ops[i].op = "create" =>
              /\ ~Held(st, ops[i].id) /\ Identity(Upto(st, ops, i - 1), ops[i])
              /\ ops[i].kind \in Iris
         /\ ops[i].op \in {"write", "delete"} => Held(st, ops[i].id)
<1> DEFINE before == Upto(st, ops, i - 1)
<1>1. DOMAIN ops = 1..Len(ops) /\ Len(ops) \in Nat /\ ops[i].id \in Iris /\ ops[i] \in Operation
  BY SetType
<1>2. i - 1 \in 0..Len(ops) /\ ~(i <= i - 1)
  BY <1>1
<1>3. before[ops[i].id] = st[ops[i].id]
  BY <1>1, <1>2, UptoAt
<1>4. Acts(before, ops[i])
  BY Zenon DEF Accepts, Upto
<1> HIDE DEF before
<1>5. Held(before, ops[i].id) <=> Held(st, ops[i].id)
  BY <1>3 DEF Held
<1>6. ops[i].op = "create" => Identity(before, ops[i])
  BY <1>4 DEF Acts
<1>7. ops[i].op = "create" => ops[i].kind \in Iris
  BY <1>1, GivenAssumption DEF Operation
<1>8. ops[i].op \in {"write", "delete"} => Held(before, ops[i].id)
  BY <1>4 DEF Acts
<1> QED
  BY <1>3, <1>5, <1>6, <1>7, <1>8 DEF Identity, before

(* A set drafted and landed over one store leaves what is no type under    *)
(* its nearest type: each operation is judged by what those before it      *)
(* left, so no type is defined nearer to what already sits there, nor is   *)
(* anything made under a type while a nearer one is there (naming.identity,*)
(* standing.under).                                                        *)
LEMMA NowBelongs ==
  ASSUME NEW st \in Stores, NEW ops \in Sets, Belongs(st), Accepts(st, ops), Examined(st, ops),
         NEW after, after = Put(st, Drafted(st, ops)),
         NEW x \in Iris, NEW k \in Iris, Held(after, x), after[x].kind = k, k # TypeOfTypes,
         Typed(after, k), Held(st, x) => st[x].kind = k
  PROVE  Nearest(after, x) = k
<1> DEFINE N == Len(ops)
           U(m) == Upto(st, ops, m)
           left(i) == Drafted(st, ops)[i].left
<1>1. /\ DOMAIN ops = 1..N /\ N \in Nat
      /\ \A i \in DOMAIN ops : ops[i] \in Operation /\ ops[i].id \in Iris
      /\ \A i, j \in DOMAIN ops : ops[i].id = ops[j].id => i = j
  BY SetType, OnceAssumption
<1>2. U(N) = after
  BY UptoWhole
<1>3. \A m \in 0..N, y \in Iris :
        /\ \A i \in DOMAIN ops : ops[i].id = y => U(m)[y] = IF i <= m THEN left(i) ELSE st[y]
        /\ (\A i \in DOMAIN ops : ops[i].id # y) => U(m)[y] = st[y]
  BY UptoAt
<1>4. \A i \in DOMAIN ops :
        /\ ops[i].op \in {"create", "import"} => left(i).kind = ops[i].kind
        /\ ops[i].op = "write" => left(i).kind = st[ops[i].id].kind
        /\ ops[i].op = "delete" => left(i).revision = 0
  <2> SUFFICES ASSUME NEW i \in DOMAIN ops
               PROVE  /\ ops[i].op \in {"create", "import"} => left(i).kind = ops[i].kind
                      /\ ops[i].op = "write" => left(i).kind = st[ops[i].id].kind
                      /\ ops[i].op = "delete" => left(i).revision = 0
    OBVIOUS
  <2>1. Nothing.revision = 0
    BY DEF Nothing
  <2> QED
    BY <2>1, DraftLeaves, Zenon
<1>5. \A i \in DOMAIN ops :
        /\ ops[i].op = "create" => ~Held(st, ops[i].id) /\ Identity(U(i - 1), ops[i])
        /\ ops[i].op \in {"write", "delete"} => Held(st, ops[i].id)
  BY DraftActs
<1>6. \A i \in DOMAIN ops : ops[i].op = "import" =>
        IF ops[i].kind = TypeOfTypes THEN SitsFree(U(i - 1), ops[i].id)
        ELSE Nearest(after, ops[i].id) = ops[i].kind
  BY Zenon DEF Examined, Upto
<1>7. \A i \in DOMAIN ops : ops[i].op \in {"create", "import", "write", "delete"}
  BY <1>1 DEF Operation
<1> HIDE DEF N, U, left
<1>8. N \in 0..N /\ 0 \in 0..N
  BY <1>1
<1>9. \A i \in DOMAIN ops : ops[i].id = x => after[x] = left(i) /\ ops[i].op # "delete"
  <2> SUFFICES ASSUME NEW i \in DOMAIN ops, ops[i].id = x
               PROVE  after[x] = left(i) /\ ops[i].op # "delete"
    OBVIOUS
  <2>1. i <= N
    BY <1>1
  <2>2. after[x] = left(i)
    BY <1>2, <1>3, <1>8, <2>1
  <2> QED
    BY <1>4, <2>2 DEF Held
<1>10. CASE \E i \in DOMAIN ops : ops[i].id = x /\ ops[i].op = "import"
  BY <1>4, <1>6, <1>9, <1>10
<1>11. CASE ~\E i \in DOMAIN ops : ops[i].id = x /\ ops[i].op = "import"
  <2>1. PICK o \in 0..N :
          /\ SitsUnder(x, k) /\ Typed(U(o), k) /\ \A y \in Between(x, k) : ~Typed(U(o), y)
          /\ \A j \in o..N : \/ Held(U(j), x) /\ U(j)[x].kind = k
                             \/ j = o /\ o + 1 \in DOMAIN ops /\ ops[o + 1].id = x
    <3>1. CASE Held(st, x)
      <4>1. \A y \in Iris : U(0)[y] = st[y]
        <5> SUFFICES ASSUME NEW y \in Iris PROVE U(0)[y] = st[y]
          OBVIOUS
        <5>1. \A i \in DOMAIN ops : ~(i <= 0)
          BY <1>1
        <5> QED
          BY <1>3, <1>8, <5>1
      <4>2. Nearest(st, x) = k
        BY <3>1 DEF Belongs
      <4>3. SitsUnder(x, k) /\ Typed(st, k) /\ \A y \in Between(x, k) : ~Typed(st, y)
        BY <4>2, NearestIs
      <4>4. Between(x, k) \subseteq Iris
        BY BetweenType
      <4>5. Typed(U(0), k) /\ \A y \in Between(x, k) : ~Typed(U(0), y)
        BY <4>1, <4>3, <4>4 DEF Typed, Held
      <4>6. ASSUME NEW j \in 0..N PROVE Held(U(j), x) /\ U(j)[x].kind = k
        <5>1. U(j)[x] = st[x] \/ U(j)[x] = after[x]
          BY <1>3, <1>9
        <5> QED
          BY <3>1, <5>1 DEF Held
      <4> QED
        BY <1>8, <4>3, <4>5, <4>6
    <3>2. CASE ~Held(st, x)
      <4>1. PICK i \in DOMAIN ops : ops[i].id = x
        <5>1. after[x] # st[x]
          BY <3>2 DEF Held
        <5> QED
          BY <1>2, <1>3, <1>8, <5>1
      <4>2. ops[i].op = "create"
        BY <1>5, <1>7, <1>9, <1>11, <3>2, <4>1
      <4>3. ops[i].kind = k
        BY <1>4, <1>9, <4>1, <4>2
      <4>4. Nearest(U(i - 1), x) = k
        BY <1>5, <4>1, <4>2, <4>3 DEF Identity
      <4>5. SitsUnder(x, k) /\ Typed(U(i - 1), k) /\ \A y \in Between(x, k) : ~Typed(U(i - 1), y)
        BY <4>4, NearestIs
      <4>6. i - 1 \in 0..N /\ (i - 1) + 1 = i
        BY <1>1
      <4>7. ASSUME NEW j \in (i - 1)..N, j # i - 1 PROVE Held(U(j), x) /\ U(j)[x].kind = k
        <5>1. j \in 0..N /\ i <= j
          BY <1>1, <4>7
        <5>2. U(j)[x] = after[x]
          BY <1>3, <1>9, <4>1, <5>1
        <5> QED
          BY <5>2 DEF Held
      <4> QED
        BY <4>1, <4>5, <4>6, <4>7
    <3> QED
      BY <3>1, <3>2
  <2>2. ASSUME NEW j \in o..N PROVE Typed(U(j), k)
    <3>1. j \in 0..N /\ j \in Nat /\ o \in Nat /\ o <= j
      BY <1>1, <2>1
    <3>2. CASE \A i \in DOMAIN ops : ops[i].id # k
      BY <1>3, <2>1, <3>1, <3>2 DEF Typed, Held
    <3>3. ASSUME NEW i \in DOMAIN ops, ops[i].id = k PROVE Typed(U(j), k)
      <4>1. i \in Nat /\ i <= N
        BY <1>1
      <4>2. CASE i <= j
        <5>1. U(j)[k] = left(i)
          BY <1>3, <3>1, <3>3, <4>2
        <5>2. after[k] = left(i)
          BY <1>2, <1>3, <1>8, <3>3, <4>1
        <5> QED
          BY <5>1, <5>2 DEF Typed, Held
      <4>3. CASE ~(i <= j)
        <5>1. ~(i <= o)
          BY <3>1, <4>1, <4>3
        <5>2. U(j)[k] = st[k] /\ U(o)[k] = st[k]
          BY <1>3, <2>1, <3>1, <3>3, <4>3, <5>1
        <5> QED
          BY <2>1, <5>2 DEF Typed, Held
      <4> QED
        BY <4>2, <4>3
    <3> QED
      BY <3>2, <3>3
  <2> DEFINE T == {m \in Nat : m \in o..N /\ \E y \in Between(x, k) : Typed(U(m), y)}
  <2>3. ASSUME T # {} PROVE FALSE
    <3>1. PICK m \in T : \A l \in T : m <= l
      BY <2>3, LeastNumber
    <3>2. PICK y \in Between(x, k) : Typed(U(m), y)
      BY <3>1
    <3>3. m # o
      BY <2>1, <3>2
    <3>4. PICK j \in Nat : m = j + 1 /\ j \in o..N /\ j \notin T /\ j \in 0..N /\ m \in 0..N
      <4>1. /\ m - 1 \in Nat /\ m = (m - 1) + 1 /\ m - 1 \in o..N /\ m - 1 \notin T
            /\ m - 1 \in 0..N /\ m \in 0..N
        BY <1>1, <2>1, <3>1, <3>3
      <4> QED
        BY <4>1
    <3>5. \A z \in Between(x, k) : ~Typed(U(j), z)
      BY <3>4
    <3>6. /\ y \in Iris /\ SitsUnder(x, y) /\ SitsUnder(y, k)
          /\ Between(y, k) \subseteq Between(x, k)
      BY BetweenNests
    <3> HIDE DEF T
    <3>7. Nearest(U(j), y) = k
      <4>1. Typed(U(j), k)
        BY <2>2, <3>4
      <4>2. \A z \in Between(y, k) : ~Typed(U(j), z)
        BY <3>5, <3>6
      <4> QED
        BY <3>6, <4>1, <4>2, NearestIs
    <3>8. m \in DOMAIN ops /\ ops[m].id = y
      <4>1. U(m)[y] # U(j)[y]
        BY <3>2, <3>5 DEF Typed, Held
      <4>2. PICK i \in DOMAIN ops : ops[i].id = y
        BY <1>3, <3>4, <3>6, <4>1
      <4>3. ~((i <= m) <=> (i <= j))
        BY <1>3, <3>4, <3>6, <4>1, <4>2
      <4>4. i = m
        BY <1>1, <3>4, <4>3
      <4> QED
        BY <4>2, <4>4
    <3>9. U(m)[y] = left(m) /\ U(j)[y] = st[y]
      <4>1. m <= m /\ ~(m <= j)
        BY <3>4
      <4> QED
        BY <1>3, <3>4, <3>6, <3>8, <4>1
    <3>10. left(m).kind = TypeOfTypes /\ left(m).revision # 0
      BY <3>2, <3>9 DEF Typed, Held
    <3>11. ops[m].op \in {"create", "import"} /\ ops[m].kind = TypeOfTypes
      <4>1. ops[m].op # "delete"
        BY <1>4, <3>8, <3>10
      <4>2. ops[m].op # "write"
        <5>1. ASSUME ops[m].op = "write" PROVE Typed(U(j), y)
          BY <1>4, <1>5, <3>8, <3>9, <3>10, <5>1 DEF Typed, Held
        <5> QED
          BY <3>5, <5>1
      <4> QED
        BY <1>4, <1>7, <3>8, <3>10, <4>1, <4>2
    <3>12. SitsFree(U(j), y)
      <4>1. m - 1 = j
        BY <3>4
      <4> QED
        BY <1>5, <1>6, <3>8, <3>11, <4>1 DEF Identity
    <3>13. Held(U(j), x) /\ U(j)[x].kind = k
      <4>1. ASSUME j = o, ops[o + 1].id = x PROVE FALSE
        <5>1. ops[m].id = x
          BY <3>4, <4>1
        <5> QED
          BY <1>9, <3>8, <3>10, <5>1
      <4> QED
        BY <2>1, <3>4, <4>1
    <3>14. k # NoIri
      BY NoIriAssumption
    <3> QED
      BY <3>6, <3>7, <3>12, <3>13, <3>14 DEF SitsFree
  <2>4. N \in o..N /\ N \in Nat
    BY <1>1, <2>1
  <2>5. \A y \in Between(x, k) : ~Typed(U(N), y)
    BY <2>3, <2>4
  <2> QED
    BY <1>2, <2>1, <2>5, NearestIs
<1> QED
  BY <1>10, <1>11

-----------------------------------------------------------------------------
(* What a call drafted, until it lands.  What it replaces is held still    *)
(* and of the kind it was drafted at, since no set removes what another    *)
(* replaces; what it makes sits under its type; and once handed, that      *)
(* nothing is held between is compared as it lands (standing.guarded).     *)

Keeps(changes) ==
  \A i \in DOMAIN changes : changes[i].op = "write" =>
    Held(artifacts, changes[i].id) /\ artifacts[changes[i].id].kind = changes[i].left.kind

Sited(changes) ==
  \A i \in DOMAIN changes :
    changes[i].op = "create" /\ changes[i].left.kind # TypeOfTypes =>
      /\ changes[i].left.kind \in Iris /\ SitsUnder(changes[i].id, changes[i].left.kind)
      /\ \A j \in DOMAIN changes :
           changes[j].op = "write" /\ changes[j].id \in Between(changes[i].id, changes[i].left.kind)
             => changes[j].left.kind # TypeOfTypes

Guarded(port) ==
  \A i \in DOMAIN port : port[i].change.op = "create" =>
    /\ port[i].change.left.kind # TypeOfTypes
    /\ \A y \in Between(port[i].change.id, port[i].change.left.kind) \ Changed(Bare(port)) :
         <<y, 0>> \in port[i].through

SitedOn(c) ==
  /\ at[c] = "hand" => Keeps(judged[c].changes) /\ Sited(judged[c].changes)
  /\ at[c] = "land" => Keeps(Bare(handed[c])) /\ Sited(Bare(handed[c])) /\ Guarded(handed[c])

BelongInv == StampInv /\ Belongs(artifacts) /\ \A c \in Calls : SitedOn(c)

(* What lands was drafted over an earlier store, or over this one.         *)
DraftedBefore(c, port) == at[c] = "land" /\ port = handed[c]
DraftedNow(c, port) ==
  /\ at[c] = "relock" /\ port = Handed(artifacts, Draft(artifacts, set[c]))
  /\ Examined(artifacts, set[c]) /\ Accepts(artifacts, set[c])

LEMMA LandingIs ==
  ASSUME StampInv, NEW c \in Calls, NEW port \in Seq(PortChange), Passes(c, port),
         DraftedBefore(c, port) \/ DraftedNow(c, port)
  PROVE  /\ artifacts \in Stores /\ set[c] \in Sets /\ TypeInv
         /\ Stamped(Bare(port)) /\ DOMAIN Bare(port) = DOMAIN port
         /\ \A i \in DOMAIN port : Bare(port)[i] = port[i].change
         /\ DraftedNow(c, port) => Bare(port) = Drafted(artifacts, set[c])
         /\ DraftedBefore(c, port) => \A i \in DOMAIN set[c] : set[c][i].op # "import"
<1>1. /\ TypeInv /\ artifacts \in Stores /\ set[c] \in Sets /\ set[c] \in Seq(Operation)
  BY SetsAssumption DEF StampInv, TypeInv, TypeOK, Passes, Stores
<1>2. DraftedNow(c, port) => Bare(port) = Drafted(artifacts, set[c])
  <2>1. /\ Draft(artifacts, set[c]).changes = Drafted(artifacts, set[c])
        /\ Draft(artifacts, set[c]).changes \in Seq(Change)
    BY <1>1, DraftType, DraftedType
  <2> QED
    BY <2>1, BareHanded DEF DraftedNow
<1>3. Stamped(Bare(port))
  <2>1. CASE DraftedBefore(c, port)
    BY <2>1 DEF DraftedBefore, StampInv, StampedOn
  <2>2. CASE DraftedNow(c, port)
    <3>1. Accepts(artifacts, set[c])
      BY <2>2 DEF DraftedNow
    <3> QED
      BY <1>1, <1>2, <2>2, <3>1, DraftStamps
  <2> QED
    BY <2>1, <2>2
<1>4. DraftedBefore(c, port) => \A i \in DOMAIN set[c] : set[c][i].op # "import"
  BY DEF DraftedBefore, StampInv, StampedOn
<1>5. DOMAIN Bare(port) = DOMAIN port /\ \A i \in DOMAIN port : Bare(port)[i] = port[i].change
  BY DEF Bare
<1> QED
  BY <1>1, <1>2, <1>3, <1>4, <1>5

(* A landing keeps the kind of what was held and is, removes only by a     *)
(* removal, and makes only where nothing was held.                         *)
LEMMA LandingKinds ==
  ASSUME BelongInv, NEW c \in Calls, NEW port \in Seq(PortChange), Passes(c, port),
         DraftedBefore(c, port) \/ DraftedNow(c, port), NEW z \in Iris
  PROVE  /\ Held(artifacts, z) /\ Held(artifacts', z) => artifacts'[z].kind = artifacts[z].kind
         /\ Held(artifacts, z) /\ ~Held(artifacts', z) =>
              \E i \in DOMAIN set[c] : set[c][i].op = "delete" /\ set[c][i].id = z
         /\ ~Held(artifacts, z) /\ Held(artifacts', z) =>
              \E i \in DOMAIN port :
                /\ port[i].change.id = z /\ artifacts'[z] = port[i].change.left
                /\ port[i].change.op \in {"create", "import"}
                /\ i \in DOMAIN set[c] /\ set[c][i].op = port[i].change.op /\ set[c][i].id = z
<1>0. StampInv
  BY DEF BelongInv
<1>1. /\ artifacts \in Stores /\ set[c] \in Sets /\ TypeInv
      /\ Stamped(Bare(port)) /\ DOMAIN Bare(port) = DOMAIN port
      /\ \A i \in DOMAIN port : Bare(port)[i] = port[i].change
      /\ DraftedNow(c, port) => Bare(port) = Drafted(artifacts, set[c])
      /\ DraftedBefore(c, port) => \A i \in DOMAIN set[c] : set[c][i].op # "import"
  BY <1>0, LandingIs
<1>2. CASE artifacts'[z] = artifacts[z]
  BY <1>2 DEF Held
<1>3. CASE \E i \in DOMAIN port :
             /\ port[i].change.id = z /\ artifacts'[z] = port[i].change.left
             /\ port[i].change \in Change
             /\ i \in DOMAIN set[c] /\ set[c][i].op = port[i].change.op /\ set[c][i].id = z
             /\ port[i].change.op = "delete" => port[i].change.left = Nothing
             /\ \A j \in DOMAIN port : port[j].change.id = z => j = i
  <2>1. PICK i \in DOMAIN port :
             /\ port[i].change.id = z /\ artifacts'[z] = port[i].change.left
             /\ port[i].change \in Change
             /\ i \in DOMAIN set[c] /\ set[c][i].op = port[i].change.op /\ set[c][i].id = z
             /\ port[i].change.op = "delete" => port[i].change.left = Nothing
             /\ \A j \in DOMAIN port : port[j].change.id = z => j = i
    BY <1>3
  <2> DEFINE change == port[i].change
  <2>2. artifacts[z].revision = change.read
    BY <1>1, <2>1, FindsRead
  <2>3. Bare(port)[i] = change /\ i \in DOMAIN Bare(port)
    BY <1>1
  <2>4. /\ change.id = z /\ artifacts'[z] = change.left /\ change.read \in Nat
        /\ change.op \in {"create", "write", "delete", "import"}
    BY <2>1 DEF Change
  <2>5. set[c][i].op = change.op /\ set[c][i].id = z /\ i \in DOMAIN set[c] /\ i \in DOMAIN port
    BY <2>1
  <2>6. change.op = "delete" => change.left = Nothing
    BY <2>1
  <2> HIDE DEF change
  <2>7. CASE change.op = "delete"
    BY <2>4, <2>5, <2>6, <2>7 DEF Held, Nothing
  <2>8. CASE change.op = "create"
    <3>1. ~Held(artifacts, z)
      BY <1>1, <2>2, <2>3, <2>8 DEF Stamped, Held
    <3> QED
      BY <2>4, <2>5, <2>8, <3>1 DEF change
  <2>9. CASE change.op = "import"
    <3>1. DraftedNow(c, port)
      BY <1>1, <2>5, <2>9
    <3>2. ~Held(artifacts, z)
      BY <2>5, <2>9, <3>1 DEF DraftedNow, Examined
    <3> QED
      BY <2>4, <2>5, <2>9, <3>2 DEF change
  <2>10. CASE change.op = "write"
    <3>1. change.left.revision = change.read + 1
      BY <1>1, <2>3, <2>10 DEF Stamped
    <3>2. Held(artifacts', z)
      BY <2>4, <3>1 DEF Held
    <3>3. Held(artifacts, z) /\ artifacts[z].kind = change.left.kind
      <4>1. CASE DraftedBefore(c, port)
        <5>1. Keeps(Bare(port))
          BY <4>1 DEF DraftedBefore, BelongInv, SitedOn
        <5> QED
          BY <2>3, <2>4, <2>10, <5>1 DEF Keeps
      <4>2. CASE DraftedNow(c, port)
        <5>1. change = Drafted(artifacts, set[c])[i] /\ Accepts(artifacts, set[c])
          BY <1>1, <2>3, <4>2 DEF DraftedNow
        <5>2. Held(artifacts, z)
          BY <1>1, <2>5, <2>10, <5>1, DraftActs
        <5>3. change.left.kind = artifacts[z].kind
          BY <1>1, <2>5, <2>10, <5>1, DraftLeaves
        <5> QED
          BY <5>2, <5>3
      <4> QED
        BY <4>1, <4>2
    <3> QED
      BY <2>4, <3>2, <3>3
  <2> QED
    BY <2>4, <2>7, <2>8, <2>9, <2>10
<1> QED
  BY <1>1, <1>2, <1>3, LandingAt

(* The type of what is held after a landing is held, as a type: no set     *)
(* removes a type of which something outside it is (_integral).            *)
LEMMA LandingTyped ==
  ASSUME BelongInv, NEW c \in Calls, NEW port \in Seq(PortChange), Passes(c, port),
         DraftedBefore(c, port) \/ DraftedNow(c, port),
         NEW x \in Iris, Held(artifacts', x), artifacts'[x].kind # TypeOfTypes
  PROVE  artifacts'[x].kind \in Iris /\ Typed(artifacts', artifacts'[x].kind)
<1> DEFINE k == artifacts'[x].kind
<1>0. StampInv
  BY DEF BelongInv
<1>1. /\ artifacts \in Stores /\ set[c] \in Sets /\ TypeInv /\ DOMAIN Bare(port) = DOMAIN port
      /\ \A i \in DOMAIN port : Bare(port)[i] = port[i].change
      /\ DraftedNow(c, port) => Bare(port) = Drafted(artifacts, set[c])
      /\ DraftedBefore(c, port) => \A i \in DOMAIN set[c] : set[c][i].op # "import"
  BY <1>0, LandingIs
<1>2. Held(artifacts, x) => artifacts[x].kind = k
  BY LandingKinds
<1>3. Held(artifacts, x) => k \in Iris /\ Nearest(artifacts, x) = k
  <2>1. artifacts[x].kind \in Iris \cup {NoIri}
    BY <1>1 DEF Stores, Artifact
  <2> QED
    BY <1>2, <2>1 DEF BelongInv, Belongs
<1>4. ~Held(artifacts, x) => k \in Iris
  <2> SUFFICES ASSUME ~Held(artifacts, x) PROVE k \in Iris
    OBVIOUS
  <2>1. PICK i \in DOMAIN port :
          /\ port[i].change.id = x /\ artifacts'[x] = port[i].change.left
          /\ port[i].change.op \in {"create", "import"}
          /\ i \in DOMAIN set[c] /\ set[c][i].op = port[i].change.op /\ set[c][i].id = x
    BY LandingKinds
  <2>2. Bare(port)[i] = port[i].change /\ i \in DOMAIN Bare(port)
    BY <1>1
  <2>3. CASE DraftedNow(c, port)
    <3>1. k = set[c][i].kind
      BY <1>1, <2>1, <2>2, <2>3, DraftLeaves
    <3>2. set[c][i] \in Operation /\ set[c][i].kind # NoIri
      BY <1>1, <2>1, SetType, GivenAssumption
    <3> QED
      BY <3>1, <3>2 DEF Operation
  <2>4. CASE DraftedBefore(c, port)
    <3>1. Sited(Bare(port))
      BY <2>4 DEF DraftedBefore, BelongInv, SitedOn
    <3>2. port[i].change.op = "create"
      BY <1>1, <2>1, <2>4
    <3> QED
      BY <2>1, <2>2, <3>1, <3>2 DEF Sited
  <2> QED
    BY <2>3, <2>4
<1>5. Typed(artifacts', k)
  <2>0. LET after == Put(artifacts, [i \in DOMAIN port |-> port[i].change])
        IN AllLand(artifacts, after, port) /\ NoneLinked(artifacts, after, port)
    BY Zenon DEF Passes, Integral
  <2>1. AllLand(artifacts, artifacts', port) /\ NoneLinked(artifacts, artifacts', port)
    BY <2>0 DEF Passes, Bare
  <2>2. CASE \E i \in DOMAIN port : port[i].change.id = x
    <3>1. PICK i \in DOMAIN port :
            /\ port[i].change.id = x /\ artifacts'[x] = port[i].change.left
            /\ port[i].change.op = "delete" => port[i].change.left = Nothing
      BY <1>1, <2>2, LandingAt
    <3>2. port[i].change.op # "delete"
      BY <3>1 DEF Held, Nothing
    <3> QED
      BY <2>1, <3>1, <3>2 DEF AllLand
  <2>3. CASE ~\E i \in DOMAIN port : port[i].change.id = x
    <3>1. artifacts'[x] = artifacts[x]
      BY <1>1, <2>3, LandingAt
    <3>2. Held(artifacts, x)
      BY <3>1 DEF Held
    <3>3. k \in Iris /\ Typed(artifacts, k)
      BY <1>3, <3>2, NearestIs
    <3>4. Held(artifacts', k)
      <4>1. ASSUME ~Held(artifacts', k) PROVE FALSE
        <5>1. PICK i \in DOMAIN port : port[i].change.id = k
          <6>1. artifacts'[k] # artifacts[k]
            BY <3>3, <4>1 DEF Typed, Held
          <6> QED
            BY <1>1, <3>3, <6>1, LandingAt
        <5>2. Held(artifacts, k) /\ k \in {port[j].change.id : j \in DOMAIN port}
          BY <3>3, <5>1 DEF Typed
        <5>3. x \in Iris \ {port[j].change.id : j \in DOMAIN port}
          BY <2>3
        <5> HIDE DEF k
        <5>4. artifacts'[x].kind # k
          BY <2>1, <4>1, <5>2, <5>3, Zenon DEF NoneLinked
        <5> QED
          BY <5>4 DEF k
      <4> QED
        BY <4>1
    <3> QED
      BY <3>3, <3>4, LandingKinds DEF Typed
  <2> QED
    BY <2>2, <2>3
<1> QED
  BY <1>3, <1>4, <1>5

(* A landing leaves each artifact under its nearest type, though drafted   *)
(* over an earlier store: it defines no type unless drafted anew under the *)
(* lock, and where one defined meanwhile would stand nearer to what it     *)
(* makes the port finds something held.                                    *)
LEMMA LandingBelongs ==
  ASSUME BelongInv, NEW c \in Calls, NEW port \in Seq(PortChange), Passes(c, port),
         DraftedBefore(c, port) \/ DraftedNow(c, port)
  PROVE  Belongs(artifacts')
<1> SUFFICES ASSUME NEW x \in Iris, Held(artifacts', x), artifacts'[x].kind # TypeOfTypes
             PROVE  artifacts'[x].kind # NoIri /\ Nearest(artifacts', x) = artifacts'[x].kind
  BY DEF Belongs
<1> DEFINE k == artifacts'[x].kind
<1>0. StampInv
  BY DEF BelongInv
<1>1. /\ artifacts \in Stores /\ set[c] \in Sets /\ TypeInv /\ DOMAIN Bare(port) = DOMAIN port
      /\ Stamped(Bare(port))
      /\ \A i \in DOMAIN port : Bare(port)[i] = port[i].change
      /\ DraftedNow(c, port) => Bare(port) = Drafted(artifacts, set[c])
      /\ DraftedBefore(c, port) => \A i \in DOMAIN set[c] : set[c][i].op # "import"
  BY <1>0, LandingIs
<1>2. k \in Iris /\ Typed(artifacts', k) /\ k # TypeOfTypes /\ k # NoIri
  BY LandingTyped, NoIriAssumption
<1>3. Held(artifacts, x) => artifacts[x].kind = k
  BY LandingKinds
<1>4. CASE DraftedNow(c, port)
  <2>1. Accepts(artifacts, set[c]) /\ Examined(artifacts, set[c]) /\ Belongs(artifacts)
    BY <1>4 DEF DraftedNow, BelongInv
  <2>2. artifacts' = Put(artifacts, Drafted(artifacts, set[c]))
    BY <1>1, <1>4 DEF Passes
  <2>3. Nearest(artifacts', x) = k
    BY <1>1, <1>2, <1>3, <2>1, <2>2, NowBelongs
  <2> QED
    BY <1>2, <2>3
<1>5. CASE DraftedBefore(c, port)
  <2>1. Sited(Bare(port)) /\ Guarded(port)
    BY <1>5 DEF DraftedBefore, BelongInv, SitedOn
  (* No type is made by a set not drafted anew under the lock.             *)
  <2>2. ASSUME NEW y \in Iris, Typed(artifacts', y) PROVE Typed(artifacts, y)
    <3>1. ASSUME ~Held(artifacts, y) PROVE FALSE
      <4>1. PICK i \in DOMAIN port :
              /\ port[i].change.id = y /\ artifacts'[y] = port[i].change.left
              /\ port[i].change.op \in {"create", "import"}
              /\ i \in DOMAIN set[c] /\ set[c][i].op = port[i].change.op
        BY <2>2, <3>1, LandingKinds DEF Typed
      <4>2. port[i].change.op = "create"
        BY <1>1, <1>5, <4>1
      <4> QED
        BY <2>1, <2>2, <4>1, <4>2 DEF Guarded, Typed
    <3> QED
      BY <2>2, <3>1, LandingKinds DEF Typed
  <2>3. SitsUnder(x, k) /\ \A y \in Between(x, k) : ~Typed(artifacts', y)
    <3>1. CASE Held(artifacts, x)
      <4>1. Nearest(artifacts, x) = k
        BY <1>2, <1>3, <3>1 DEF BelongInv, Belongs
      <4>2. SitsUnder(x, k) /\ \A y \in Between(x, k) : ~Typed(artifacts, y)
        BY <1>2, <4>1, NearestIs
      <4> QED
        BY <2>2, <4>2, BetweenType
    <3>2. CASE ~Held(artifacts, x)
      <4>1. PICK i \in DOMAIN port :
              /\ port[i].change.id = x /\ artifacts'[x] = port[i].change.left
              /\ port[i].change.op \in {"create", "import"}
              /\ i \in DOMAIN set[c] /\ set[c][i].op = port[i].change.op
        BY <3>2, LandingKinds
      <4>2. port[i].change.op = "create" /\ port[i].change.left.kind = k
        BY <1>1, <1>5, <4>1
      <4>3. /\ SitsUnder(x, k)
            /\ \A j \in DOMAIN port :
                 port[j].change.op = "write" /\ port[j].change.id \in Between(x, k)
                   => port[j].change.left.kind # TypeOfTypes
        BY <1>1, <1>2, <2>1, <4>1, <4>2 DEF Sited
      <4>4. \A y \in Between(x, k) \ Changed(Bare(port)) : <<y, 0>> \in port[i].through
        BY <2>1, <4>1, <4>2 DEF Guarded
      <4> HIDE DEF k
      <4>5. ASSUME NEW y \in Between(x, k), Typed(artifacts', y) PROVE FALSE
        <5>1. y \in Iris /\ Typed(artifacts, y) /\ Held(artifacts, y)
          BY <2>2, <4>5, BetweenType DEF Typed
        <5>2. CASE y \notin Changed(Bare(port))
          <6>1. <<y, 0>> \in port[i].through
            BY <4>4, <5>2
          <6>2. \A p \in port[i].through : artifacts[p[1]].revision = p[2]
            BY Zenon DEF Passes, Moved
          <6> QED
            BY <5>1, <6>1, <6>2 DEF Held
        <5>3. CASE y \in Changed(Bare(port))
          <6>1. \E j \in DOMAIN port : port[j].change.id = y
            BY <1>1, <5>3 DEF Changed
          <6>2. PICK j \in DOMAIN port :
                  /\ port[j].change.id = y /\ artifacts'[y] = port[j].change.left
                  /\ port[j].change \in Change
                  /\ j \in DOMAIN set[c] /\ set[c][j].op = port[j].change.op
                  /\ port[j].change.op = "delete" => port[j].change.left = Nothing
                  /\ \A l \in DOMAIN port : port[l].change.id = y => l = j
            BY <1>1, <5>1, <6>1, LandingAt
          <6>3. port[j].change.op # "delete"
            BY <4>5, <6>2 DEF Typed, Held, Nothing
          <6>4. port[j].change.op # "create"
            <7>1. artifacts[y].revision = port[j].change.read
              BY <1>1, <6>2, FindsRead
            <7> QED
              BY <1>1, <5>1, <7>1 DEF Stamped, Held
          <6>5. port[j].change.op = "write"
            BY <1>1, <1>5, <6>2, <6>3, <6>4 DEF Change
          <6> QED
            BY <4>3, <4>5, <6>2, <6>5 DEF Typed
        <5> QED
          BY <5>2, <5>3
      <4> QED
        BY <4>3, <4>5
    <3> QED
      BY <3>1, <3>2
  <2>4. Nearest(artifacts', x) = k
    BY <1>2, <2>3, NearestIs
  <2> QED
    BY <1>2, <2>4
<1> QED
  BY <1>4, <1>5

(* What a draft makes sits under its type, and what it replaces is held.   *)
LEMMA DraftSited ==
  ASSUME NEW st \in Stores, NEW ops \in Sets, Accepts(st, ops)
  PROVE  /\ Sited(Drafted(st, ops))
         /\ \A i \in DOMAIN ops : ops[i].op = "write" =>
              Held(st, ops[i].id) /\ st[ops[i].id].kind = Drafted(st, ops)[i].left.kind
<1> DEFINE changes == Drafted(st, ops)
<1>1. /\ DOMAIN ops = 1..Len(ops) /\ Len(ops) \in Nat /\ DOMAIN changes = DOMAIN ops
      /\ \A i \in DOMAIN ops : /\ ops[i] \in Operation /\ ops[i].id \in Iris
                               /\ changes[i].op = ops[i].op /\ changes[i].id = ops[i].id
  BY SetType
<1>2. \A i \in DOMAIN ops : ops[i].op = "write" =>
        /\ Held(st, ops[i].id) /\ st[ops[i].id].kind = changes[i].left.kind
        /\ changes[i].left.revision = st[ops[i].id].revision + 1
  BY DraftActs, DraftLeaves
<1>3. ASSUME NEW i \in DOMAIN ops, changes[i].op = "create", changes[i].left.kind # TypeOfTypes
      PROVE  /\ changes[i].left.kind \in Iris /\ SitsUnder(changes[i].id, changes[i].left.kind)
             /\ \A j \in DOMAIN ops :
                  changes[j].op = "write" /\ changes[j].id \in Between(changes[i].id, changes[i].left.kind)
                    => changes[j].left.kind # TypeOfTypes
  <2> DEFINE before == Upto(st, ops, i - 1)
             x == ops[i].id
             k == changes[i].left.kind
  <2>1. ops[i].op = "create" /\ changes[i].id = x /\ x \in Iris /\ i - 1 \in 0..Len(ops)
    BY <1>1, <1>3
  <2>2. Identity(before, ops[i]) /\ ops[i].kind \in Iris
    BY <2>1, DraftActs
  <2>3. k = ops[i].kind
    BY <2>1, DraftLeaves
  <2>4. Nearest(before, x) = k
    BY <1>3, <2>2, <2>3 DEF Identity
  <2> HIDE DEF k, before
  <2>5. SitsUnder(x, k) /\ \A y \in Between(x, k) : ~Typed(before, y)
    BY <2>1, <2>2, <2>3, <2>4, NearestIs
  <2>6. ASSUME NEW j \in DOMAIN ops, ops[j].op = "write", ops[j].id \in Between(x, k)
        PROVE  changes[j].left.kind # TypeOfTypes
    <3> DEFINE y == ops[j].id
    <3>1. /\ Held(st, y) /\ st[y].kind = changes[j].left.kind /\ y \in Iris
          /\ changes[j].left.revision = st[y].revision + 1
      BY <1>1, <1>2, <2>6
    <3>2. before[y] = changes[j].left \/ before[y] = st[y]
      BY <1>1, <2>1, UptoAt DEF before
    <3>3. st[y].revision \in Nat
      BY <3>1 DEF Stores, Artifact
    <3> HIDE DEF changes, y
    <3>4. Held(before, y) /\ before[y].kind = changes[j].left.kind
      BY <3>1, <3>2, <3>3 DEF Held
    <3>5. ~Typed(before, y)
      BY <2>5, <2>6 DEF y
    <3> QED
      BY <3>4, <3>5 DEF Typed
  <2> QED
    BY <1>1, <2>1, <2>2, <2>3, <2>5, <2>6 DEF k
<1> HIDE DEF changes
<1>4. Sited(changes)
  BY <1>1, <1>3 DEF Sited
<1> QED
  BY <1>2, <1>4 DEF changes

(* What is handed without the lock defines no type, and is compared with   *)
(* nothing held at each IRI between what it makes and its type.            *)
LEMMA HandedGuards ==
  ASSUME NEW st \in Stores, NEW draft, draft.changes \in Seq(Change), Stamped(draft.changes),
         ~Locked(st, draft)
  PROVE  Guarded(Handed(st, draft))
<1> DEFINE changes == draft.changes
           port == Handed(st, draft)
<1>1. Bare(port) = changes
  BY BareHanded
<1>2. /\ DOMAIN port = DOMAIN changes
      /\ \A i \in DOMAIN changes : port[i].change = changes[i] /\ port[i].through = Through(st, draft, i)
  BY HandedIs
<1> HIDE DEF port
<1> SUFFICES ASSUME NEW i \in DOMAIN changes, changes[i].op = "create"
             PROVE  /\ changes[i].left.kind # TypeOfTypes
                    /\ \A y \in Between(changes[i].id, changes[i].left.kind) \ Changed(changes) :
                         <<y, 0>> \in Through(st, draft, i)
  BY <1>1, <1>2 DEF Guarded, port
<1>3. changes[i].left.kind # TypeOfTypes
  BY DEF Locked
<1>4. changes[i].read = 0
  BY DEF Stamped
<1>5. changes[i].id \in Iris
  <2>1. changes[i] \in Change
    BY ElementOfSeq
  <2> QED
    BY <2>1 DEF Change
<1>6. ASSUME NEW y \in Between(changes[i].id, changes[i].left.kind) \ Changed(changes)
      PROVE  <<y, 0>> \in Through(st, draft, i)
  <2>1. Between(changes[i].id, changes[i].left.kind) \subseteq Open(changes[i], Unders(st, draft)[i])
    BY <1>3, <1>4 DEF Open
  <2>2. y \in Guards(st, draft, i)
    BY <1>6, <2>1, Zenon DEF Guards
  <2>3. ~Held(st, y)
    BY <2>2 DEF Locked
  <2>4. y \in Iris
    BY <1>5, <1>6, BetweenType
  <2>5. Put(st, changes)[y] = st[y]
    BY <1>6, <2>4, PutUntouched DEF Changed
  <2>6. ~Held(Put(st, changes), y)
    BY <2>3, <2>5 DEF Held
  <2> QED
    BY <2>2, <2>6 DEF Through
<1> QED
  BY <1>3, <1>6

(* What a set replaces no other set removes, nor gives another kind.       *)
LEMMA ReplacedStaysHeld ==
  ASSUME ReplacedStays(Sets), BelongInv, [Next]_vars,
         NEW ops \in Sets, NEW i \in DOMAIN ops, ops[i].op = "write", Held(artifacts, ops[i].id)
  PROVE  Held(artifacts', ops[i].id) /\ artifacts'[ops[i].id].kind = artifacts[ops[i].id].kind
<1>1. CASE artifacts' = artifacts
  BY <1>1
<1>2. CASE artifacts' # artifacts
  <2>1. TypeInv /\ ops[i].id \in Iris
    <3>1. ops[i] \in Operation
      BY SetsAssumption, ElementOfSeq
    <3> QED
      BY <3>1 DEF BelongInv, StampInv, Operation
  <2>2. PICK c \in Calls, port \in Seq(PortChange) :
          Passes(c, port) /\ (DraftedBefore(c, port) \/ DraftedNow(c, port))
    BY <1>2, <2>1, LandStep DEF DraftedBefore, DraftedNow
  <2>3. ~\E j \in DOMAIN set[c] : set[c][j].op = "delete" /\ set[c][j].id = ops[i].id
    <3>1. set[c] \in Sets
      BY <2>2 DEF Passes
    <3> QED
      BY <3>1 DEF ReplacedStays
  <2> QED
    BY <2>1, <2>2, <2>3, LandingKinds
<1> QED
  BY <1>1, <1>2

LEMMA BelongsStart == Init => BelongInv
BY StampsStart, BeforeAssumption DEF Init, BelongInv, SitedOn

LEMMA BelongsNext == ReplacedStays(Sets) /\ BelongInv /\ [Next]_vars => BelongInv'
<1> SUFFICES ASSUME ReplacedStays(Sets), BelongInv, [Next]_vars PROVE BelongInv'
  OBVIOUS
<1>0. /\ StampInv /\ StampInv' /\ TypeInv /\ Belongs(artifacts)
      /\ artifacts \in Stores /\ at \in [Calls -> Steps]
      /\ judged \in [Calls -> [changes : Seq(Change), types : SUBSET (Iris \X Nat)]]
      /\ handed \in [Calls -> Seq(PortChange)]
  BY StampsNext DEF BelongInv, StampInv, TypeInv, TypeOK, Stores
<1>1. Belongs(artifacts')
  <2>1. CASE artifacts' = artifacts
    BY <1>0, <2>1
  <2>2. CASE artifacts' # artifacts
    <3>1. PICK c \in Calls, port \in Seq(PortChange) :
            Passes(c, port) /\ (DraftedBefore(c, port) \/ DraftedNow(c, port))
      BY <1>0, <2>2, LandStep DEF DraftedBefore, DraftedNow
    <3> QED
      BY <3>1, LandingBelongs
  <2> QED
    BY <2>1, <2>2
<1> SUFFICES ASSUME NEW d \in Calls PROVE SitedOn(d)'
  BY <1>0, <1>1 DEF BelongInv
<1>o. SitedOn(d) /\ OnItsWay(d) /\ StampedOn(d)
  BY <1>0 DEF BelongInv, StampInv, TypeInv
(* What d drafted it goes on with, whatever lands meanwhile.               *)
<1>k. ASSUME NEW changes \in Seq(Change), set[d] \in Sets, FollowsSet(changes, set[d]), Keeps(changes)
      PROVE  \A i \in DOMAIN changes : changes[i].op = "write" =>
               /\ Held(artifacts', changes[i].id)
               /\ artifacts'[changes[i].id].kind = changes[i].left.kind
  <2>1. DOMAIN changes = DOMAIN set[d]
    <3>1. set[d] \in Seq(Operation)
      BY <1>k, SetsAssumption
    <3> QED
      BY <1>k, <3>1 DEF FollowsSet
  <2> QED
    BY <1>k, <2>1, ReplacedStaysHeld DEF FollowsSet, Keeps
<1>s. ASSUME at'[d] = at[d], judged'[d] = judged[d], handed'[d] = handed[d] PROVE SitedOn(d)'
  <2>1. ASSUME at[d] = "hand" PROVE Keeps(judged[d].changes)' /\ Sited(judged[d].changes)'
    <3>1. judged[d].changes \in Seq(Change) /\ judged'[d].changes = judged[d].changes
      BY <1>0, <1>s
    <3>2. /\ Keeps(judged[d].changes) /\ Sited(judged[d].changes)
          /\ FollowsSet(judged[d].changes, set[d]) /\ set[d] \in Sets
      BY <1>o, <2>1 DEF SitedOn, OnItsWay
    <3> DEFINE changes == judged[d].changes
    <3>3. \A i \in DOMAIN changes : changes[i].op = "write" =>
            /\ Held(artifacts', changes[i].id)
            /\ artifacts'[changes[i].id].kind = changes[i].left.kind
      BY <1>k, <3>1, <3>2
    <3> HIDE DEF changes
    <3> QED
      BY <3>1, <3>2, <3>3 DEF Keeps, Sited, changes
  <2>2. ASSUME at[d] = "land" PROVE Keeps(Bare(handed[d]))' /\ Sited(Bare(handed[d]))'
    <3>1. Bare(handed[d]) \in Seq(Change) /\ Bare(handed'[d]) = Bare(handed[d])
      BY <1>0, <1>s, BareType
    <3>2. /\ Keeps(Bare(handed[d])) /\ Sited(Bare(handed[d]))
          /\ FollowsSet(Bare(handed[d]), set[d]) /\ set[d] \in Sets
      BY <1>o, <2>2 DEF SitedOn, OnItsWay
    <3> DEFINE changes == Bare(handed[d])
    <3>3. \A i \in DOMAIN changes : changes[i].op = "write" =>
            /\ Held(artifacts', changes[i].id)
            /\ artifacts'[changes[i].id].kind = changes[i].left.kind
      BY <1>k, <3>1, <3>2
    <3> HIDE DEF changes
    <3> QED
      BY <3>1, <3>2, <3>3 DEF Keeps, Sited, changes
  <2> QED
    BY <1>o, <1>s, <2>1, <2>2 DEF SitedOn, Guarded
<1>e. ASSUME at'[d] \notin {"hand", "land"} PROVE SitedOn(d)'
  BY <1>e DEF SitedOn
<1>2. ASSUME NEW c \in Calls, Judges(c), c = d PROVE SitedOn(d)'
  <2>1. CASE Accepts(artifacts, set[c])
    <3>1. set[c] \in Sets /\ artifacts' = artifacts /\ at'[c] = "hand"
          /\ judged'[c].changes = Drafted(artifacts, set[c])
      BY <1>0, <1>o, <1>2, <2>1 DEF Judges, OnItsWay, Draft
    <3> DEFINE changes == Drafted(artifacts, set[c])
    <3>2. /\ Sited(changes) /\ DOMAIN changes = DOMAIN set[c]
          /\ \A i \in DOMAIN set[c] : changes[i].op = set[c][i].op /\ changes[i].id = set[c][i].id
          /\ \A i \in DOMAIN set[c] : set[c][i].op = "write" =>
              Held(artifacts, set[c][i].id) /\ artifacts[set[c][i].id].kind = changes[i].left.kind
      BY <1>0, <2>1, <3>1, DraftSited, SetType
    <3> HIDE DEF changes
    <3> QED
      BY <1>2, <3>1, <3>2 DEF SitedOn, Keeps, Sited, changes
  <2>2. CASE ~Accepts(artifacts, set[c])
    BY <1>0, <1>2, <1>e, <2>2 DEF Judges, Ends
  <2> QED
    BY <2>1, <2>2
<1>3. ASSUME NEW c \in Calls, Hands(c), c = d, at'[c] = "land" PROVE SitedOn(d)'
  <2> DEFINE port == Handed(artifacts, judged[c])
  <2>1. ~Locked(artifacts, judged[c]) /\ handed'[c] = port /\ artifacts' = artifacts /\ at[c] = "hand"
    BY <1>0, <1>3 DEF Hands, Ends
  <2>2. /\ judged[c].changes \in Seq(Change) /\ Stamped(judged[c].changes)
        /\ Keeps(judged[c].changes) /\ Sited(judged[c].changes)
    BY <1>0, <1>3, <1>o, <2>1 DEF StampedOn, SitedOn
  <2>3. Guarded(port) /\ Bare(port) = judged[c].changes
    BY <1>0, <2>1, <2>2, HandedGuards, BareHanded
  <2> HIDE DEF port
  <2> QED
    BY <1>3, <2>1, <2>2, <2>3 DEF SitedOn, Keeps, Sited, Guarded
<1>4. ASSUME NEW c \in Calls, Asks(c) \/ Lands(c) \/ LandsUnderLock(c), c = d
      PROVE  at'[d] \notin {"hand", "land"}
  BY <1>0, <1>4 DEF Asks, Lands, LandsUnderLock, Ends
<1>5. ASSUME NEW c \in Calls, Asks(c) \/ Judges(c) \/ Hands(c) \/ Lands(c) \/ LandsUnderLock(c), c # d
      PROVE  at'[d] = at[d] /\ judged'[d] = judged[d] /\ handed'[d] = handed[d]
  BY <1>0, <1>5 DEF Asks, Judges, Hands, Lands, LandsUnderLock, Ends
<1>6. ASSUME NEW c \in Calls, Hands(c), c = d, at'[c] # "land" PROVE at'[d] \notin {"hand", "land"}
  BY <1>0, <1>6 DEF Hands, Ends
<1>7. CASE UNCHANGED vars
  BY <1>7, <1>s DEF vars
<1> QED
  BY <1>e, <1>s, <1>2, <1>3, <1>4, <1>5, <1>6, <1>7 DEF Next

(* Every artifact that is no type is under the nearest held type it sits   *)
(* under, whatever types and artifacts other sets define and remove while  *)
(* a set is drafted and handed; where what a set replaces no set removes,  *)
(* without which a replacement lands over what it never read.              *)
THEOREM BelongsThere == ReplacedStays(Sets) => (Spec => []BelongsWhereItSits)
<1> SUFFICES ASSUME ReplacedStays(Sets) PROVE Spec => []BelongsWhereItSits
  OBVIOUS
<1>1. BelongInv /\ [Next]_vars => BelongInv'
  BY BelongsNext
<1>2. BelongInv => BelongsWhereItSits
  BY DEF BelongInv, BelongsWhereItSits
<1> QED
  BY <1>1, <1>2, BelongsStart, PTL DEF Spec

-----------------------------------------------------------------------------
(* The versions kept of a type.  A replacement keeps those there are, each *)
(* at its number, and adds one that reads what its operation says; what is *)
(* made or brought where nothing is held has one.                          *)

LEMMA RevisedVersions ==
  ASSUME NEW held \in Artifact, NEW op \in Operation
  PROVE  LET made == Revised(held, op) IN
         /\ made.kind = held.kind /\ made.revision = held.revision + 1
         /\ \A n \in DOMAIN held.versions :
              n \in DOMAIN made.versions /\ made.versions[n] = held.versions[n]
         /\ \A n \in DOMAIN made.versions :
              \/ n \in DOMAIN held.versions
              \/ n = Len(made.versions) /\ made.versions[n].reads = op.reads
         /\ held.kind = TypeOfTypes => made.versions[Len(made.versions)].reads = op.reads
<1> DEFINE made == Revised(held, op)
           L == Len(held.versions)
<1>1. /\ held.versions \in Seq(TypeVersion) /\ L \in Nat /\ DOMAIN held.versions = 1..L
      /\ held.kind \in Iris \cup {NoIri} /\ held.revision \in Nat
  BY DEF Artifact
<1>2. /\ made.kind = held.kind /\ made.revision = held.revision + 1
      /\ held.kind # TypeOfTypes => made.versions = held.versions
      /\ held.kind = TypeOfTypes =>
           made.versions = Gained(held.versions, L + 1, held.revision + 1, op.reads)
  BY DEF Revised, Artifact
<1> HIDE DEF made
<1>3. CASE held.kind # TypeOfTypes
  BY <1>1, <1>2, <1>3 DEF made
<1>4. CASE held.kind = TypeOfTypes
  <2> DEFINE gained == Gained(held.versions, L + 1, held.revision + 1, op.reads)
  <2>1. L + 1 > L /\ L + 1 \in 1..(L + 1)
    BY <1>1
  <2>2. gained = [n \in 1..(L + 1) |->
           CASE n = L + 1 -> [revision |-> held.revision + 1, reads |-> op.reads]
             [] n \in DOMAIN held.versions /\ n # L + 1 -> held.versions[n]
             [] OTHER -> NotKept]
    BY <2>1 DEF Gained
  <2>3. DOMAIN gained = 1..(L + 1) /\ gained[L + 1].reads = op.reads
    BY <2>1, <2>2
  <2>4. \A n \in 1..L : n \in 1..(L + 1) /\ n # L + 1 /\ gained[n] = held.versions[n]
    BY <1>1, <2>2
  <2>5. Len(gained) = L + 1
    <3>1. op.reads \in SUBSET VersionId
      BY DEF Operation
    <3>2. gained \in Seq(TypeVersion)
      BY <1>1, <3>1, GainedType
    <3> QED
      BY <1>1, <2>3, <3>2
  <2> HIDE DEF gained
  <2>6. made.versions = gained
    BY <1>2, <1>4 DEF gained
  <2>7. \A n \in 1..(L + 1) : n \in 1..L \/ n = L + 1
    BY <1>1
  <2> QED
    BY <1>1, <1>2, <2>3, <2>4, <2>5, <2>6, <2>7 DEF made
<1> QED
  BY <1>3, <1>4

LEMMA BroughtVersions ==
  ASSUME NEW held \in Artifact, held.versions = <<>>, NEW o, o.number \in Nat, o.revision \in Nat,
         o.reads \in SUBSET VersionId,
         NEW n \in DOMAIN Brought(held, o).versions
  PROVE  /\ \/ Brought(held, o).versions[n].reads = {}
            \/ /\ n = Len(Brought(held, o).versions)
               /\ Brought(held, o).versions[n].reads = o.reads
         /\ o.number # 0
<1> DEFINE versions == Brought(held, o).versions
<1>1. o.number # 0 => versions = Gained(<<>>, o.number, o.revision, o.reads)
  BY DEF Brought
<1>2. o.number = 0 => versions = <<>>
  BY DEF Brought
<1>3. o.number # 0
  BY <1>2
<1> DEFINE gained == Gained(<<>>, o.number, o.revision, o.reads)
<1>4. /\ DOMAIN gained = 1..o.number
      /\ gained[o.number].reads = o.reads
      /\ \A k \in 1..o.number : k # o.number => gained[k] = NotKept
  <2>1. o.number > Len(<<>>) /\ DOMAIN <<>> = {} /\ o.number \in 1..o.number
    BY <1>3
  <2>2. gained = [k \in 1..o.number |->
           CASE k = o.number -> [revision |-> o.revision, reads |-> o.reads]
             [] k \in DOMAIN <<>> /\ k # o.number -> <<>>[k]
             [] OTHER -> NotKept]
    BY <2>1 DEF Gained
  <2> HIDE DEF gained
  <2> QED
    BY <2>1, <2>2
<1>5. Len(gained) = o.number
  <2>1. <<>> \in Seq(TypeVersion)
    OBVIOUS
  <2>2. gained \in Seq(TypeVersion)
    BY <2>1, GainedType
  <2> HIDE DEF gained
  <2> QED
    BY <1>4, <2>2
<1> HIDE DEF gained
<1>6. versions = gained
  BY <1>1, <1>3 DEF gained
<1> HIDE DEF versions
<1>7. n \in DOMAIN versions
  BY DEF versions
<1>8. NotKept.reads = {}
  BY DEF NotKept
<1> QED
  BY <1>3, <1>4, <1>5, <1>6, <1>7, <1>8 DEF versions

LEMMA MadeVersions ==
  ASSUME NEW st \in Stores, NEW op \in Operation, op.op = "import" => st[op.id].versions = <<>>,
         NEW made, made = Made(st, op)
  PROVE  /\ op.op = "delete" => made = Nothing
         /\ op.op = "write" =>
              /\ made.kind = st[op.id].kind /\ made.revision = st[op.id].revision + 1
              /\ \A n \in DOMAIN st[op.id].versions :
                   n \in DOMAIN made.versions /\ made.versions[n] = st[op.id].versions[n]
              /\ made.kind = TypeOfTypes => MadeReads(made) = op.reads
         /\ op.op \in {"create", "import"} => made.kind = op.kind
         /\ \A n \in DOMAIN made.versions :
              \/ made.versions[n].reads = {}
              \/ op.op = "write" /\ n \in DOMAIN st[op.id].versions
              \/ /\ n = Len(made.versions) /\ made.versions[n].reads = op.reads
                 /\ op.op = "create" => op.kind = TypeOfTypes
<1>1. /\ op.op \in {"create", "write", "delete", "import"} /\ op.id \in Iris
      /\ op.number \in Nat /\ op.revision \in Nat /\ op.reads \in SUBSET VersionId
  BY DEF Operation
<1>2. st[op.id] \in Artifact
  BY <1>1 DEF Stores
<1>3. CASE op.op = "delete"
  <2>1. made = Nothing
    BY <1>3 DEF Made
  <2>2. DOMAIN Nothing.versions = {}
    BY DEF Nothing
  <2> QED
    BY <1>3, <2>1, <2>2
<1>4. CASE op.op = "write"
  <2>1. made = Revised(st[op.id], op)
    BY <1>4 DEF Made
  <2>2. made.kind = TypeOfTypes => MadeReads(made) = op.reads
    BY <1>2, <2>1, RevisedVersions DEF MadeReads, StandsAt
  <2> QED
    BY <1>2, <1>4, <2>1, <2>2, RevisedVersions
<1>5. CASE op.op = "import"
  <2>1. made = Brought(st[op.id], op)
    BY <1>5 DEF Made
  <2>2. made.kind = op.kind
    BY <2>1 DEF Brought
  <2> QED
    BY <1>1, <1>2, <1>5, <2>1, <2>2, BroughtVersions
<1>6. CASE op.op = "create"
  <2> DEFINE o == [op EXCEPT !.revision = 1, !.number = IF op.kind = TypeOfTypes THEN 1 ELSE 0]
  <2>1. made = Brought(Nothing, o)
    BY <1>6 DEF Made
  <2>2. /\ o.kind = op.kind /\ o.reads = op.reads /\ o.revision = 1
        /\ o.number = IF op.kind = TypeOfTypes THEN 1 ELSE 0
    BY DEF Operation
  <2>3. Nothing \in Artifact /\ Nothing.versions = <<>>
    BY NothingType DEF Nothing
  <2> HIDE DEF o
  <2>4. made.kind = op.kind
    BY <2>1, <2>2 DEF Brought
  <2>5. o.number \in Nat /\ o.revision \in Nat /\ o.reads \in SUBSET VersionId
    BY <1>1, <2>2
  <2>6. \A n \in DOMAIN made.versions :
          /\ made.versions[n].reads = {} \/ (n = Len(made.versions) /\ made.versions[n].reads = op.reads)
          /\ o.number # 0
    BY <2>1, <2>2, <2>3, <2>5, BroughtVersions
  <2> QED
    BY <1>6, <2>2, <2>4, <2>6
<1> QED
  BY <1>1, <1>3, <1>4, <1>5, <1>6

(* Each operation of a set makes of its artifact what it would of the      *)
(* store drafted over, since no other of the set changes that.             *)
LEMMA DraftMakes ==
  ASSUME NEW st \in Stores, NEW ops \in Sets, NEW i \in DOMAIN ops
  PROVE  Drafted(st, ops)[i].left = Made(st, ops[i])
<1>1. /\ ops \in Seq(Operation) /\ DOMAIN ops = 1..Len(ops) /\ Len(ops) \in Nat /\ ops[i].id \in Iris
  BY SetType
<1>2. LeftBefore(st, ops, i)[ops[i].id] = st[ops[i].id]
  <2>1. \A j \in 1..(i - 1) : ops[j].id # ops[i].id
    BY <1>1, OnceAssumption
  <2> QED
    BY <1>1, <2>1, LeftUntouched
<1>3. Drafted(st, ops)[i].left = Made(LeftBefore(st, ops, i), ops[i])
  BY DEF Drafted
<1> QED
  BY <1>2, <1>3, Zenon DEF Made

-----------------------------------------------------------------------------
(* The versions types read, held.  Of what a call drafted: what it         *)
(* replaces only rises, and at the revision it read is what was read       *)
(* (AsMade); what a version it makes reads is held still (ReadsKept); and  *)
(* it removes no type that another may read unless drafted anew under the  *)
(* lock.                                                                   *)

Rises(st, changes) ==
  \A i \in DOMAIN changes : changes[i].op = "write" =>
    changes[i].read <= st[changes[i].id].revision

AsMade(st, changes, ops) ==
  \A i \in DOMAIN changes :
    changes[i].op # "write" \/ changes[i].read = st[changes[i].id].revision =>
      changes[i].left = Made(st, ops[i])

ReadsKept(st, changes, ops) ==
  \A i \in DOMAIN changes : changes[i].op = "write" /\ changes[i].left.kind = TypeOfTypes =>
    \A v \in MadeReads(changes[i].left) : v \in ops[i].reads /\ KeptVersion(Put(st, changes), v)

ReadingOn(c) ==
  /\ at[c] = "hand" =>
       /\ Rises(artifacts, judged[c].changes) /\ AsMade(artifacts, judged[c].changes, set[c])
       /\ ~UnderLock(set[c]) => ReadsKept(artifacts, judged[c].changes, set[c])
       /\ \A i \in DOMAIN judged[c].changes :
            judged[c].changes[i].op = "delete" /\ judged[c].changes[i].id \in ReadIn(Sets) =>
              judged[c].changes[i].was = TypeOfTypes
  /\ at[c] = "land" =>
       /\ Rises(artifacts, Bare(handed[c])) /\ AsMade(artifacts, Bare(handed[c]), set[c])
       /\ ~UnderLock(set[c]) /\ ReadsKept(artifacts, Bare(handed[c]), set[c])
       /\ \A i \in DOMAIN Bare(handed[c]) : Bare(handed[c])[i].op = "delete" =>
            Bare(handed[c])[i].id \notin ReadIn(Sets)

(* What is not held keeps no version; what any version reads may be read   *)
(* by some, and what may be is a type where it is held.                    *)
Emptied(st) == \A x \in Iris : ~Held(st, x) => st[x].versions = <<>>
OnlyRead(st) ==
  \A x \in Iris : \A n \in DOMAIN st[x].versions : \A v \in st[x].versions[n].reads :
    v[1] \in ReadIn(Sets)
ReadTyped(st) == \A t \in ReadIn(Sets) : Held(st, t) => Typed(st, t)

ReadInv ==
  /\ BelongInv /\ ReadsHeld(artifacts) /\ Emptied(artifacts)
  /\ OnlyRead(artifacts) /\ ReadTyped(artifacts)
  /\ \A c \in Calls : ReadingOn(c)

(* A landing makes of each artifact what its operation would of the store  *)
(* it lands on.                                                            *)
LEMMA LandingMakes ==
  ASSUME ReadInv, NEW c \in Calls, NEW port \in Seq(PortChange), Passes(c, port),
         DraftedBefore(c, port) \/ DraftedNow(c, port), NEW z \in Iris
  PROVE  \/ artifacts'[z] = artifacts[z] /\ \A i \in DOMAIN port : port[i].change.id # z
         \/ \E i \in DOMAIN set[c] :
              /\ set[c][i].id = z /\ set[c][i] \in Operation /\ set[c] \in Sets
              /\ i \in DOMAIN port /\ port[i].change.id = z /\ port[i].change.op = set[c][i].op
              /\ artifacts'[z] = port[i].change.left
              /\ artifacts'[z] = Made(artifacts, set[c][i])
              /\ set[c][i].op = "import" => ~Held(artifacts, z) /\ artifacts[z].versions = <<>>
              /\ set[c][i].op = "create" => ~Held(artifacts, z)
              /\ set[c][i].op = "write" => Held(artifacts, z)
<1>0. BelongInv /\ StampInv /\ Emptied(artifacts)
  BY DEF ReadInv, BelongInv
<1>1. /\ artifacts \in Stores /\ set[c] \in Sets /\ TypeInv
      /\ Stamped(Bare(port)) /\ DOMAIN Bare(port) = DOMAIN port
      /\ \A i \in DOMAIN port : Bare(port)[i] = port[i].change
      /\ DraftedNow(c, port) => Bare(port) = Drafted(artifacts, set[c])
      /\ DraftedBefore(c, port) => \A i \in DOMAIN set[c] : set[c][i].op # "import"
  BY <1>0, LandingIs
<1> SUFFICES ASSUME \E i \in DOMAIN port : port[i].change.id = z
             PROVE  \E i \in DOMAIN set[c] :
              /\ set[c][i].id = z /\ set[c][i] \in Operation /\ set[c] \in Sets
              /\ i \in DOMAIN port /\ port[i].change.id = z /\ port[i].change.op = set[c][i].op
              /\ artifacts'[z] = port[i].change.left
              /\ artifacts'[z] = Made(artifacts, set[c][i])
              /\ set[c][i].op = "import" => ~Held(artifacts, z) /\ artifacts[z].versions = <<>>
              /\ set[c][i].op = "create" => ~Held(artifacts, z)
              /\ set[c][i].op = "write" => Held(artifacts, z)
  BY <1>1, LandingAt
<1>2. PICK i \in DOMAIN port :
        /\ port[i].change.id = z /\ artifacts'[z] = port[i].change.left
        /\ i \in DOMAIN set[c] /\ set[c][i].op = port[i].change.op /\ set[c][i].id = z
        /\ \A j \in DOMAIN port : port[j].change.id = z => j = i
  BY <1>1, LandingAt
<1>3. artifacts[z].revision = port[i].change.read
  BY <1>1, <1>2, FindsRead
<1>4. set[c][i] \in Operation
  BY <1>1, <1>2, SetType
<1>5. Bare(port)[i] = port[i].change /\ i \in DOMAIN Bare(port)
  BY <1>1, <1>2
<1>6. CASE DraftedBefore(c, port)
  <2>1. AsMade(artifacts, Bare(port), set[c]) /\ Keeps(Bare(port))
    BY <1>6 DEF DraftedBefore, ReadInv, ReadingOn, BelongInv, SitedOn
  <2>2. artifacts'[z] = Made(artifacts, set[c][i])
    BY <1>2, <1>3, <1>5, <2>1 DEF AsMade
  <2>3. set[c][i].op # "import"
    BY <1>1, <1>2, <1>6
  <2>4. set[c][i].op = "create" => ~Held(artifacts, z)
    BY <1>1, <1>2, <1>3, <1>5 DEF Stamped, Held
  <2>5. set[c][i].op = "write" => Held(artifacts, z)
    BY <1>2, <1>5, <2>1 DEF Keeps
  <2> QED
    BY <1>1, <1>2, <1>4, <2>2, <2>3, <2>4, <2>5
<1>7. CASE DraftedNow(c, port)
  <2>1. Accepts(artifacts, set[c]) /\ Examined(artifacts, set[c]) /\ Bare(port) = Drafted(artifacts, set[c])
    BY <1>1, <1>7 DEF DraftedNow
  <2>2. artifacts'[z] = Made(artifacts, set[c][i])
    BY <1>1, <1>2, <1>5, <2>1, DraftMakes
  <2>3. /\ set[c][i].op = "create" => ~Held(artifacts, z)
        /\ set[c][i].op \in {"write", "delete"} => Held(artifacts, z)
    BY <1>1, <1>2, <2>1, DraftActs
  <2>4. set[c][i].op = "import" => ~Held(artifacts, z)
    BY <1>2, <2>1 DEF Examined
  <2>5. ~Held(artifacts, z) => artifacts[z].versions = <<>>
    BY <1>0 DEF Emptied
  <2> QED
    BY <1>1, <1>2, <1>4, <2>2, <2>3, <2>4, <2>5
<1> QED
  BY <1>6, <1>7

(* A landing keeps every version kept of a type it does not remove.        *)
LEMMA LandingKeeps ==
  ASSUME ReadInv, NEW c \in Calls, NEW port \in Seq(PortChange), Passes(c, port),
         DraftedBefore(c, port) \/ DraftedNow(c, port),
         NEW v, v[1] \in Iris, KeptVersion(artifacts, v), Held(artifacts', v[1])
  PROVE  KeptVersion(artifacts', v)
<1> DEFINE z == v[1]
<1>1. /\ artifacts \in Stores /\ Typed(artifacts, z) /\ Held(artifacts, z) /\ z \in Iris
      /\ v[2] \in DOMAIN artifacts[z].versions /\ artifacts[z].versions[v[2]] # NotKept
  BY DEF ReadInv, BelongInv, StampInv, TypeInv, TypeOK, Stores, KeptVersion, Typed
<1> HIDE DEF z
<1>2. CASE artifacts'[z] = artifacts[z]
  BY <1>1, <1>2 DEF KeptVersion, Typed, Held, z
<1>3. CASE artifacts'[z] # artifacts[z]
  <2>1. PICK i \in DOMAIN set[c] :
          /\ set[c][i].id = z /\ set[c][i] \in Operation
          /\ artifacts'[z] = Made(artifacts, set[c][i])
          /\ set[c][i].op \in {"create", "import"} => ~Held(artifacts, z)
    BY <1>1, <1>3, LandingMakes
  <2>2. set[c][i].op # "delete"
    <3>1. set[c][i].op = "delete" => artifacts'[z] = Nothing
      BY <2>1 DEF Made
    <3> QED
      BY <3>1 DEF Held, Nothing, z
  <2>3. set[c][i].op = "write"
    BY <1>1, <2>1, <2>2 DEF Operation
  <2>4. /\ artifacts'[z].kind = artifacts[z].kind
        /\ \A n \in DOMAIN artifacts[z].versions :
             n \in DOMAIN artifacts'[z].versions /\ artifacts'[z].versions[n] = artifacts[z].versions[n]
    BY <1>1, <2>1, <2>3, MadeVersions
  <2> QED
    BY <1>1, <2>4 DEF KeptVersion, Typed, z
<1> QED
  BY <1>2, <1>3

(* What a version held after a landing reads, a version held before it     *)
(* read, or it is one the landing made.                                    *)
LEMMA LandingVersions ==
  ASSUME ReadInv, NEW c \in Calls, NEW port \in Seq(PortChange), Passes(c, port),
         DraftedBefore(c, port) \/ DraftedNow(c, port),
         NEW x \in Iris, NEW n \in DOMAIN artifacts'[x].versions,
         NEW v \in artifacts'[x].versions[n].reads
  PROVE  \/ /\ n \in DOMAIN artifacts[x].versions /\ v \in artifacts[x].versions[n].reads
            /\ Held(artifacts', x) => Held(artifacts, x) /\ artifacts'[x].kind = artifacts[x].kind
         \/ \E i \in DOMAIN set[c] :
              /\ set[c] \in Sets /\ v \in set[c][i].reads /\ i \in DOMAIN port
              /\ port[i].change.op = set[c][i].op /\ artifacts'[x] = port[i].change.left
              /\ set[c][i].op # "delete" /\ v \in MadeReads(artifacts'[x])
              /\ set[c][i].op = "create" => set[c][i].kind = TypeOfTypes
<1>1. artifacts \in Stores
  BY DEF ReadInv, BelongInv, StampInv, TypeInv, TypeOK, Stores
<1>2. CASE artifacts'[x] = artifacts[x]
  BY <1>2 DEF Held
<1>3. CASE artifacts'[x] # artifacts[x]
  <2>1. PICK i \in DOMAIN set[c] :
          /\ set[c][i].id = x /\ set[c][i] \in Operation /\ set[c] \in Sets
          /\ i \in DOMAIN port /\ port[i].change.op = set[c][i].op
          /\ artifacts'[x] = port[i].change.left
          /\ artifacts'[x] = Made(artifacts, set[c][i])
          /\ set[c][i].op = "import" => artifacts[x].versions = <<>>
          /\ set[c][i].op = "write" => Held(artifacts, x)
    BY <1>3, LandingMakes
  <2>2. set[c][i].op # "delete"
    <3>1. set[c][i].op = "delete" => artifacts'[x] = Nothing
      BY <2>1 DEF Made
    <3>2. DOMAIN Nothing.versions = {}
      BY DEF Nothing
    <3> QED
      BY <3>1, <3>2
  <2> DEFINE made == Made(artifacts, set[c][i])
  <2>3. /\ set[c][i].op = "write" =>
              /\ made.kind = artifacts[x].kind
              /\ \A m \in DOMAIN artifacts[x].versions : made.versions[m] = artifacts[x].versions[m]
        /\ \A m \in DOMAIN made.versions :
              \/ made.versions[m].reads = {}
              \/ set[c][i].op = "write" /\ m \in DOMAIN artifacts[x].versions
              \/ /\ m = Len(made.versions) /\ made.versions[m].reads = set[c][i].reads
                 /\ set[c][i].op = "create" => set[c][i].kind = TypeOfTypes
    <3>1. set[c][i].op = "import" => artifacts[set[c][i].id].versions = <<>>
      BY <2>1
    <3> HIDE DEF made
    <3>2. made = Made(artifacts, set[c][i])
      BY DEF made
    <3> QED
      BY <1>1, <2>1, <3>1, <3>2, MadeVersions
  <2> HIDE DEF made
  <2>4. artifacts'[x] = made
    BY <2>1 DEF made
  <2>5. CASE set[c][i].op = "write" /\ n \in DOMAIN artifacts[x].versions
    BY <2>1, <2>3, <2>4, <2>5
  <2>6. CASE /\ n = Len(made.versions) /\ made.versions[n].reads = set[c][i].reads
             /\ set[c][i].op = "create" => set[c][i].kind = TypeOfTypes
    BY <2>1, <2>2, <2>4, <2>6 DEF MadeReads, StandsAt
  <2> QED
    BY <2>3, <2>4, <2>5, <2>6
<1> QED
  BY <1>2, <1>3

(* No landing removes a type that a version held after it reads: under the *)
(* lock the draft finds its readers (standing.in_the_way), and without it  *)
(* no type is removed that another may read.                               *)
LEMMA LandingReads ==
  ASSUME ReadInv, NEW c \in Calls, NEW port \in Seq(PortChange), Passes(c, port),
         DraftedBefore(c, port) \/ DraftedNow(c, port), Emptied(artifacts')
  PROVE  ReadsHeld(artifacts') /\ OnlyRead(artifacts')
<1>0. BelongInv /\ StampInv /\ ReadsHeld(artifacts) /\ OnlyRead(artifacts) /\ ReadTyped(artifacts)
  BY DEF ReadInv, BelongInv
<1>1. /\ artifacts \in Stores /\ set[c] \in Sets /\ set[c] \in Seq(Operation) /\ TypeInv
      /\ DOMAIN Bare(port) = DOMAIN port
      /\ \A i \in DOMAIN port : Bare(port)[i] = port[i].change
      /\ DraftedNow(c, port) => Bare(port) = Drafted(artifacts, set[c])
      /\ DraftedBefore(c, port) => \A i \in DOMAIN set[c] : set[c][i].op # "import"
      /\ artifacts' = Put(artifacts, Bare(port))
  BY <1>0, LandingIs, SetsAssumption DEF Passes
<1>2. ReadIn(Sets) \subseteq Iris
  BY DEF ReadIn
<1>3. OnlyRead(artifacts')
  <2> SUFFICES ASSUME NEW x \in Iris, NEW n \in DOMAIN artifacts'[x].versions,
                      NEW v \in artifacts'[x].versions[n].reads
               PROVE  v[1] \in ReadIn(Sets)
    BY DEF OnlyRead
  <2>1. CASE n \in DOMAIN artifacts[x].versions /\ v \in artifacts[x].versions[n].reads
    BY <1>0, <2>1 DEF OnlyRead
  <2>2. ASSUME NEW i \in DOMAIN set[c], v \in set[c][i].reads PROVE v[1] \in ReadIn(Sets)
    <3>1. set[c][i] \in Operation
      BY <1>1, SetType
    <3>2. v \in VersionId
      BY <2>2, <3>1 DEF Operation
    <3>3. v[1] \in Iris
      BY <3>2 DEF VersionId
    <3> QED
      BY <1>1, <2>2, <3>3 DEF ReadIn
  <2> QED
    BY <2>1, <2>2, LandingVersions
<1>4. ASSUME NEW x \in Iris, Typed(artifacts', x), NEW n \in DOMAIN artifacts'[x].versions,
             NEW v \in artifacts'[x].versions[n].reads
      PROVE  KeptVersion(artifacts', v)
  <2> DEFINE z == v[1]
  <2>0. z \in ReadIn(Sets) /\ z \in Iris
    BY <1>2, <1>3, <1>4 DEF OnlyRead
  <2>1. CASE /\ n \in DOMAIN artifacts[x].versions /\ v \in artifacts[x].versions[n].reads
             /\ Held(artifacts, x) /\ artifacts'[x].kind = artifacts[x].kind
    <3>1. KeptVersion(artifacts, v)
      BY <1>0, <1>4, <2>1 DEF ReadsHeld, Typed
    <3>2. CASE Held(artifacts', z)
      BY <2>0, <3>1, <3>2, LandingKeeps
    <3>3. CASE ~Held(artifacts', z)
      <4>1. Typed(artifacts, z) /\ Held(artifacts, z)
        BY <3>1 DEF KeptVersion, Typed
      <4>2. PICK i \in DOMAIN set[c] :
              /\ set[c][i].id = z /\ set[c][i] \in Operation
              /\ i \in DOMAIN port /\ port[i].change.id = z /\ port[i].change.op = set[c][i].op
              /\ artifacts'[z] = Made(artifacts, set[c][i])
              /\ set[c][i].op \in {"create", "import"} => ~Held(artifacts, z)
        <5>1. artifacts'[z] # artifacts[z]
          BY <3>3, <4>1 DEF Held
        <5> HIDE DEF z
        <5> QED
          BY <2>0, <5>1, LandingMakes
      <4>3. set[c][i].op = "delete"
        <5>1. ASSUME set[c][i].op = "write" PROVE FALSE
          <6>1. artifacts'[z].revision = artifacts[z].revision + 1
            BY <1>1, <4>2, <5>1, MadeVersions
          <6>2. artifacts[z].revision \in Nat
            BY <1>1, <2>0 DEF Stores, Artifact
          <6> HIDE DEF z
          <6> QED
            BY <3>3, <6>1, <6>2 DEF Held
        <5> QED
          BY <4>1, <4>2, <5>1 DEF Operation
      <4>4. CASE DraftedNow(c, port)
        <5>1. /\ Accepts(artifacts, set[c]) /\ Bare(port) = Drafted(artifacts, set[c])
              /\ i \in DOMAIN Drafted(artifacts, set[c])
              /\ Drafted(artifacts, set[c])[i].op = "delete" /\ Drafted(artifacts, set[c])[i].id = z
              /\ Drafted(artifacts, set[c])[i].was = artifacts[z].kind
          <6>1. /\ Accepts(artifacts, set[c]) /\ Bare(port) = Drafted(artifacts, set[c])
                /\ i \in DOMAIN Drafted(artifacts, set[c])
                /\ Drafted(artifacts, set[c])[i].op = "delete" /\ Drafted(artifacts, set[c])[i].id = z
            BY <1>1, <4>2, <4>3, <4>4, SetType DEF DraftedNow
          <6>2. Drafted(artifacts, set[c])[i].was = artifacts[set[c][i].id].kind
            BY <4>2 DEF Drafted
          <6> QED
            BY <4>2, <6>1, <6>2
        <5> DEFINE changes == Drafted(artifacts, set[c])
        <5>2. Freed(Put(artifacts, changes), changes[i])
          BY <5>1, Zenon DEF Accepts
        <5>3. Readers(artifacts', z) = {}
          <6> HIDE DEF changes
          <6>1. artifacts' = Put(artifacts, changes)
            BY <1>1, <5>1 DEF changes
          <6>2. changes[i].was = TypeOfTypes /\ changes[i].id = z
            BY <4>1, <5>1 DEF Typed, changes
          <6> HIDE DEF z
          <6> QED
            BY <5>2, <6>1, <6>2, Zenon DEF Freed
        <5>4. x # z
          BY <1>4, <3>3 DEF Typed
        <5>5. x \in Readers(artifacts', z)
          BY <1>4, <5>4 DEF Readers
        <5> QED
          BY <5>3, <5>5
      <4>5. CASE DraftedBefore(c, port)
        <5>1. \A j \in DOMAIN Bare(port) : Bare(port)[j].op = "delete" => Bare(port)[j].id \notin ReadIn(Sets)
          BY <4>5 DEF DraftedBefore, ReadInv, ReadingOn
        <5>2. i \in DOMAIN Bare(port) /\ Bare(port)[i].op = "delete" /\ Bare(port)[i].id = z
          BY <1>1, <4>2, <4>3
        <5> QED
          BY <2>0, <5>1, <5>2
      <4> QED
        BY <4>4, <4>5
    <3> QED
      BY <3>2, <3>3
  <2>2. ASSUME NEW i \in DOMAIN set[c],
               /\ set[c] \in Sets /\ v \in set[c][i].reads /\ i \in DOMAIN port
               /\ port[i].change.op = set[c][i].op /\ artifacts'[x] = port[i].change.left
               /\ set[c][i].op # "delete" /\ v \in MadeReads(artifacts'[x])
               /\ set[c][i].op = "create" => set[c][i].kind = TypeOfTypes
        PROVE  KeptVersion(artifacts', v)
    <3>0. i \in DOMAIN Bare(port) /\ Bare(port)[i] = port[i].change
      BY <1>1, <2>2
    <3>1. CASE DraftedNow(c, port)
      <4> DEFINE changes == Drafted(artifacts, set[c])
      <4>1. /\ Accepts(artifacts, set[c]) /\ Bare(port) = changes
            /\ i \in DOMAIN changes /\ changes[i] = port[i].change
        BY <1>1, <3>0, <3>1 DEF DraftedNow
      <4>2. changes[i].op # "delete" => Fits(Put(artifacts, changes), changes[i])
        BY <4>1, Zenon DEF Accepts
      <4> HIDE DEF changes
      <4>3. Fits(artifacts', changes[i]) /\ changes[i].left = artifacts'[x]
        BY <1>1, <2>2, <4>1, <4>2
      <4>4. artifacts'[x].kind = TypeOfTypes
        BY <1>4 DEF Typed
      <4>5. ShapesHeld(artifacts', changes[i])
        BY <4>3, <4>4, Zenon DEF Fits
      <4> QED
        BY <2>2, <4>3, <4>5 DEF ShapesHeld
    <3>2. CASE DraftedBefore(c, port)
      <4>1. ReadsKept(artifacts, Bare(port), set[c]) /\ ~UnderLock(set[c])
        BY <3>2 DEF DraftedBefore, ReadInv, ReadingOn
      <4>2. set[c][i].op # "create" /\ set[c][i].op # "import"
        BY <2>2, <4>1 DEF UnderLock
      <4>3. set[c][i] \in Operation
        BY <1>1, <2>2, SetType
      <4>4. Bare(port)[i].op = "write"
        BY <2>2, <3>0, <4>2, <4>3 DEF Operation
      <4>5. Bare(port)[i].left = artifacts'[x] /\ Bare(port)[i].left.kind = TypeOfTypes
        BY <1>4, <2>2, <3>0 DEF Typed
      <4> QED
        BY <1>1, <2>2, <3>0, <4>1, <4>4, <4>5 DEF ReadsKept
    <3> QED
      BY <3>1, <3>2
  <2>3. Held(artifacts', x)
    BY <1>4 DEF Typed
  <2> QED
    BY <1>4, <2>1, <2>2, <2>3, LandingVersions
<1>5. ReadsHeld(artifacts')
  BY <1>4 DEF ReadsHeld
<1> QED
  BY <1>3, <1>5

(* What a set replaces stands as it did after any step, or beyond the      *)
(* revision it was read at.                                                *)
LEMMA ReplacedRises ==
  ASSUME ReplacedStays(Sets), ReadInv, [Next]_vars,
         NEW x \in Iris, Held(artifacts, x), NEW read \in Nat, read <= artifacts[x].revision,
         NEW ops \in Sets, NEW i \in DOMAIN ops, ops[i].op = "write", ops[i].id = x
  PROVE  artifacts'[x] = artifacts[x] \/ read < artifacts'[x].revision
<1>0. BelongInv /\ TypeInv /\ artifacts \in Stores /\ artifacts[x].revision \in Nat
  BY DEF ReadInv, BelongInv, StampInv, TypeInv, TypeOK, Stores, Artifact
<1> SUFFICES ASSUME artifacts'[x] # artifacts[x] PROVE read < artifacts'[x].revision
  OBVIOUS
<1>1. PICK c \in Calls, port \in Seq(PortChange) :
        Passes(c, port) /\ (DraftedBefore(c, port) \/ DraftedNow(c, port))
  BY <1>0, LandStep DEF DraftedBefore, DraftedNow
<1>2. PICK j \in DOMAIN set[c] :
        /\ set[c][j].id = x /\ set[c][j] \in Operation /\ set[c] \in Sets
        /\ artifacts'[x] = Made(artifacts, set[c][j])
        /\ set[c][j].op \in {"create", "import"} => ~Held(artifacts, x)
  BY <1>1, LandingMakes
<1>3. set[c][j].op # "delete"
  BY <1>2 DEF ReplacedStays
<1>4. set[c][j].op = "write"
  BY <1>2, <1>3 DEF Operation
<1>5. artifacts'[x].revision = artifacts[x].revision + 1
  BY <1>0, <1>2, <1>4, MadeVersions
<1> QED
  BY <1>0, <1>5

(* And is not removed, so that every version kept of it stays kept.        *)
LEMMA ReplacedKept ==
  ASSUME ReplacedStays(Sets), ReadInv, [Next]_vars,
         NEW v, v[1] \in Iris, KeptVersion(artifacts, v),
         NEW ops \in Sets, NEW i \in DOMAIN ops, ops[i].op = "write", ops[i].id = v[1]
  PROVE  KeptVersion(artifacts', v)
<1>0. BelongInv /\ TypeInv
  BY DEF ReadInv, BelongInv, StampInv
<1>1. CASE artifacts' = artifacts
  BY <1>1
<1>2. CASE artifacts' # artifacts
  <2>1. PICK c \in Calls, port \in Seq(PortChange) :
          Passes(c, port) /\ (DraftedBefore(c, port) \/ DraftedNow(c, port))
    BY <1>0, <1>2, LandStep DEF DraftedBefore, DraftedNow
  <2>2. Held(artifacts, v[1]) /\ set[c] \in Sets
    BY <2>1 DEF KeptVersion, Typed, Passes
  <2>3. Held(artifacts', v[1])
    <3>1. ASSUME ~Held(artifacts', v[1]) PROVE FALSE
      <4>1. \E k \in DOMAIN set[c] : set[c][k].op = "delete" /\ set[c][k].id = v[1]
        BY <1>0, <2>1, <2>2, <3>1, LandingKinds
      <4> QED
        BY <2>2, <4>1 DEF ReplacedStays
    <3> QED
      BY <3>1
  <2> QED
    BY <2>1, <2>3, LandingKeeps
<1> QED
  BY <1>1, <1>2

(* What a call drafted stays as it was, whatever else lands: what it       *)
(* replaces is not removed, and no landing of another goes back on a       *)
(* revision; what its types read is not removed either.                    *)
LEMMA DraftStays ==
  ASSUME ReplacedStays(Sets), ReadStays(Sets), ReadInv, [Next]_vars,
         NEW changes \in Seq(Change), NEW ops \in Sets, FollowsSet(changes, ops), Keeps(changes),
         \A i \in DOMAIN ops : ops[i].op # "import",
         Rises(artifacts, changes), AsMade(artifacts, changes, ops)
  PROVE  /\ Rises(artifacts', changes) /\ AsMade(artifacts', changes, ops)
         /\ ~UnderLock(ops) /\ ReadsKept(artifacts, changes, ops) => ReadsKept(artifacts', changes, ops)
<1>0. BelongInv /\ TypeInv /\ artifacts \in Stores /\ artifacts' \in Stores
  BY TypesNext DEF ReadInv, BelongInv, StampInv, TypeInv, TypeOK, Stores
<1>1. /\ DOMAIN changes = DOMAIN ops
      /\ \A i \in DOMAIN changes : /\ changes[i] \in Change /\ changes[i].id \in Iris
                                   /\ changes[i].read \in Nat
                                   /\ ops[i] \in Operation /\ ops[i].reads \subseteq VersionId
                                   /\ ops[i].op = changes[i].op /\ ops[i].id = changes[i].id
  <2>1. ops \in Seq(Operation) /\ \A i \in DOMAIN ops : ops[i] \in Operation
    BY <1>0, SetType
  <2>2. DOMAIN changes = DOMAIN ops
    BY <2>1 DEF FollowsSet
  <2>3. \A i \in DOMAIN changes : changes[i] \in Change
    BY ElementOfSeq
  <2> QED
    BY <2>1, <2>2, <2>3 DEF FollowsSet, Change, Operation
<1>2. CASE artifacts' = artifacts
  BY <1>2
<1>3. CASE artifacts' # artifacts
  <2>1. PICK c \in Calls, port \in Seq(PortChange) :
          Passes(c, port) /\ (DraftedBefore(c, port) \/ DraftedNow(c, port))
    BY <1>0, <1>3, LandStep DEF DraftedBefore, DraftedNow
  <2>2. ASSUME NEW i \in DOMAIN changes, changes[i].op = "write"
        PROVE  \/ artifacts'[changes[i].id] = artifacts[changes[i].id]
               \/ changes[i].read < artifacts'[changes[i].id].revision
    <3> DEFINE x == changes[i].id
    <3>1. /\ x \in Iris /\ Held(artifacts, x) /\ changes[i].read <= artifacts[x].revision
          /\ artifacts[x].revision \in Nat /\ changes[i].read \in Nat
          /\ ops[i].op = "write" /\ ops[i].id = x /\ i \in DOMAIN ops
      BY <1>0, <1>1, <2>2 DEF Keeps, Rises, Stores, Artifact
    <3> HIDE DEF x
    <3> QED
      BY <3>1, ReplacedRises DEF x
  <2>3. Rises(artifacts', changes)
    <3> SUFFICES ASSUME NEW i \in DOMAIN changes, changes[i].op = "write"
                 PROVE  changes[i].read <= artifacts'[changes[i].id].revision
      BY DEF Rises
    <3>1. artifacts'[changes[i].id].revision \in Nat /\ changes[i].read \in Nat
      BY <1>0, <1>1 DEF Stores, Artifact
    <3> QED
      BY <2>2, <3>1 DEF Rises
  <2>4. AsMade(artifacts', changes, ops)
    <3> SUFFICES ASSUME NEW i \in DOMAIN changes,
                        changes[i].op # "write" \/ changes[i].read = artifacts'[changes[i].id].revision
                 PROVE  changes[i].left = Made(artifacts', ops[i])
      BY DEF AsMade
    <3>1. CASE changes[i].op = "write"
      <4>1. artifacts'[changes[i].id] = artifacts[changes[i].id]
        <5>1. artifacts'[changes[i].id].revision \in Nat /\ changes[i].read \in Nat
          BY <1>0, <1>1 DEF Stores, Artifact
        <5> QED
          BY <2>2, <3>1, <5>1
      <4>2. changes[i].left = Made(artifacts, ops[i])
        BY <3>1, <4>1 DEF AsMade
      <4>3. artifacts'[ops[i].id] = artifacts[ops[i].id]
        BY <1>1, <4>1
      <4> QED
        BY <4>2, <4>3, Zenon DEF Made
    <3>2. CASE changes[i].op # "write"
      <4>1. changes[i].left = Made(artifacts, ops[i])
        BY <3>2 DEF AsMade
      <4>2. ops[i].op \in {"delete", "create"}
        BY <1>1, <3>2 DEF Operation
      <4>3. CASE ops[i].op = "delete"
        BY <4>1, <4>3 DEF Made
      <4>4. CASE ops[i].op = "create"
        BY <4>1, <4>4 DEF Made
      <4> QED
        BY <4>2, <4>3, <4>4
    <3> QED
      BY <3>1, <3>2
  <2>5. ASSUME ~UnderLock(ops), ReadsKept(artifacts, changes, ops) PROVE ReadsKept(artifacts', changes, ops)
    <3> SUFFICES ASSUME NEW i \in DOMAIN changes, changes[i].op = "write",
                        changes[i].left.kind = TypeOfTypes, NEW v \in MadeReads(changes[i].left)
                 PROVE  v \in ops[i].reads /\ KeptVersion(Put(artifacts', changes), v)
      BY DEF ReadsKept
    <3>1. v \in ops[i].reads /\ KeptVersion(Put(artifacts, changes), v)
      BY <2>5 DEF ReadsKept
    <3> DEFINE z == v[1]
    <3>2. z \in Iris
      <4>1. v \in VersionId
        BY <1>1, <3>1
      <4> QED
        BY <4>1 DEF VersionId
    <3> HIDE DEF z
    <3>3. CASE z \in Changed(changes)
      <4>1. Put(artifacts', changes)[z] = Put(artifacts, changes)[z]
        BY <3>2, <3>3 DEF Put
      <4> QED
        BY <3>1, <4>1 DEF KeptVersion, Typed, Held, z
    <3>4. CASE z \notin Changed(changes)
      <4>1. Put(artifacts', changes)[z] = artifacts'[z] /\ Put(artifacts, changes)[z] = artifacts[z]
        BY <3>2, <3>4 DEF Put
      <4>2. KeptVersion(artifacts, v)
        BY <3>1, <4>1 DEF KeptVersion, Typed, Held, z
      <4>3. Held(artifacts', z)
        <5>1. ASSUME ~Held(artifacts', z) PROVE FALSE
          <6>1. Held(artifacts, z)
            BY <4>2 DEF KeptVersion, Typed, z
          <6>2. PICK j \in DOMAIN set[c] : set[c][j].op = "delete" /\ set[c][j].id = z
            BY <1>0, <2>1, <3>2, <5>1, <6>1, LandingKinds
          <6>3. set[c] \in Sets
            BY <2>1 DEF Passes
          <6>4. i \in DOMAIN ops /\ \E w \in ops[i].reads : w[1] = set[c][j].id
            BY <1>1, <3>1, <6>2 DEF z
          <6> QED
            BY <2>5, <6>2, <6>3, <6>4 DEF ReadStays
        <5> QED
          BY <5>1
      <4>4. KeptVersion(artifacts', v)
        BY <2>1, <3>2, <4>2, <4>3, LandingKeeps DEF z
      <4> QED
        BY <3>1, <4>1, <4>4 DEF KeptVersion, Typed, Held, z
    <3> QED
      BY <3>3, <3>4
  <2> QED
    BY <2>3, <2>4, <2>5
<1> QED
  BY <1>2, <1>3

(* A draft over the store as it stands is made of it.                      *)
LEMMA DraftReads ==
  ASSUME ReadInv, NEW ops \in Sets, Accepts(artifacts, ops),
         NEW changes, changes = Drafted(artifacts, ops)
  PROVE  /\ Rises(artifacts, changes) /\ AsMade(artifacts, changes, ops)
         /\ ReadsKept(artifacts, changes, ops)
         /\ \A i \in DOMAIN changes :
              changes[i].op = "delete" /\ changes[i].id \in ReadIn(Sets) => changes[i].was = TypeOfTypes
<1>0. artifacts \in Stores /\ ReadTyped(artifacts)
  BY DEF ReadInv, BelongInv, StampInv, TypeInv, TypeOK, Stores
<1>1. /\ ops \in Seq(Operation) /\ DOMAIN ops = 1..Len(ops) /\ Len(ops) \in Nat
      /\ DOMAIN changes = DOMAIN ops
      /\ \A i \in DOMAIN ops : /\ ops[i] \in Operation /\ ops[i].id \in Iris
                               /\ changes[i].op = ops[i].op /\ changes[i].id = ops[i].id
  BY <1>0, SetType
<1>2. \A i \in DOMAIN ops : changes[i].left = Made(artifacts, ops[i])
  BY <1>0, DraftMakes
<1>3. ASSUME NEW i \in DOMAIN ops, ops[i].op = "write"
      PROVE  changes[i].read = artifacts[ops[i].id].revision
  <2>1. LeftBefore(artifacts, ops, i)[ops[i].id] = artifacts[ops[i].id]
    <3>1. \A j \in 1..(i - 1) : ops[j].id # ops[i].id
      BY <1>1, OnceAssumption
    <3> QED
      BY <1>0, <1>1, <3>1, LeftUntouched
  <2>2. changes[i].read = ReadAt(artifacts, ops, i)
    BY DEF Drafted
  <2> QED
    BY <1>3, <2>1, <2>2 DEF ReadAt
<1>4. Rises(artifacts, changes)
  <2> SUFFICES ASSUME NEW i \in DOMAIN changes, changes[i].op = "write"
               PROVE  changes[i].read <= artifacts[changes[i].id].revision
    BY DEF Rises
  <2>1. changes[i].read = artifacts[changes[i].id].revision /\ artifacts[changes[i].id].revision \in Nat
    BY <1>0, <1>1, <1>3 DEF Stores, Artifact
  <2> QED
    BY <2>1
<1>5. AsMade(artifacts, changes, ops)
  BY <1>1, <1>2 DEF AsMade
<1>6. ReadsKept(artifacts, changes, ops)
  <2> SUFFICES ASSUME NEW i \in DOMAIN changes, changes[i].op = "write",
                      changes[i].left.kind = TypeOfTypes, NEW v \in MadeReads(changes[i].left)
               PROVE  v \in ops[i].reads /\ KeptVersion(Put(artifacts, changes), v)
    BY DEF ReadsKept
  <2>1. v \in ops[i].reads
    <3>1. ops[i].op = "write" /\ ops[i] \in Operation /\ changes[i].left = Made(artifacts, ops[i])
      BY <1>1, <1>2
    <3>2. MadeReads(changes[i].left) = ops[i].reads
      BY <1>0, <3>1, MadeVersions
    <3> QED
      BY <3>2
  <2>2. Fits(Put(artifacts, changes), changes[i])
    BY Zenon DEF Accepts
  <2>3. ShapesHeld(Put(artifacts, changes), changes[i])
    BY <2>2, Zenon DEF Fits
  <2> QED
    BY <2>1, <2>3 DEF ShapesHeld
<1>7. ASSUME NEW i \in DOMAIN changes, changes[i].op = "delete", changes[i].id \in ReadIn(Sets)
      PROVE  changes[i].was = TypeOfTypes
  <2>1. changes[i].was = artifacts[ops[i].id].kind
    BY <1>1 DEF Drafted
  <2>2. Held(artifacts, ops[i].id)
    BY <1>0, <1>1, <1>7, DraftActs
  <2> QED
    BY <1>0, <1>1, <1>7, <2>1, <2>2 DEF ReadTyped, Typed
<1> QED
  BY <1>4, <1>5, <1>6, <1>7

LEMMA ReadsStart == ReadAsTypes(Sets) /\ Init => ReadInv
<1> SUFFICES ASSUME ReadAsTypes(Sets), Init PROVE ReadInv
  OBVIOUS
<1>1. artifacts = Before /\ BelongInv /\ \A c \in Calls : at[c] = "idle"
  BY BelongsStart DEF Init
<1>2. Emptied(Before)
  BY BeforeAssumption DEF Emptied, Nothing
<1>3. OnlyRead(Before)
  <2> SUFFICES ASSUME NEW x \in Iris, NEW n \in DOMAIN Before[x].versions,
                      NEW v \in Before[x].versions[n].reads
               PROVE  v[1] \in ReadIn(Sets)
    BY DEF OnlyRead
  <2>1. Before[x].versions \in Seq(TypeVersion)
    BY BeforeAssumption DEF Artifact
  <2>2. Before[x].versions[n] \in TypeVersion
    BY <2>1, ElementOfSeq
  <2>3. v \in VersionId
    BY <2>2 DEF TypeVersion
  <2>4. v[1] \in Iris
    BY <2>3 DEF VersionId
  <2> QED
    BY <2>4 DEF ReadIn
<1>4. ReadTyped(Before)
  BY DEF ReadTyped, ReadAsTypes, MadeAsTypes
<1>5. \A c \in Calls : ReadingOn(c)
  BY <1>1 DEF ReadingOn
<1> QED
  BY <1>1, <1>2, <1>3, <1>4, <1>5, BeforeAssumption DEF ReadInv

(* A landing leaves nothing of what it removes, and makes what types may   *)
(* read types.                                                             *)
LEMMA LandingEmpties ==
  ASSUME ReadAsTypes(Sets), ReadInv, NEW c \in Calls, NEW port \in Seq(PortChange), Passes(c, port),
         DraftedBefore(c, port) \/ DraftedNow(c, port)
  PROVE  Emptied(artifacts') /\ ReadTyped(artifacts')
<1>0. artifacts \in Stores /\ Emptied(artifacts) /\ ReadTyped(artifacts) /\ BelongInv
  BY DEF ReadInv, BelongInv, StampInv, TypeInv, TypeOK, Stores
<1>1. ASSUME NEW x \in Iris, ~Held(artifacts', x) PROVE artifacts'[x].versions = <<>>
  <2>1. CASE artifacts'[x] = artifacts[x]
    BY <1>0, <1>1, <2>1 DEF Emptied, Held
  <2>2. CASE artifacts'[x] # artifacts[x]
    <3>1. PICK i \in DOMAIN set[c] :
            /\ set[c][i].id = x /\ set[c][i] \in Operation /\ set[c] \in Sets
            /\ artifacts'[x] = Made(artifacts, set[c][i])
            /\ i \in DOMAIN port
      BY <2>2, LandingMakes
    <3>2. set[c][i].op = "delete" => artifacts'[x].versions = <<>>
      BY <3>1 DEF Made, Nothing
    <3>3. set[c][i].op # "write"
      <4>1. artifacts[x].revision \in Nat
        BY <1>0 DEF Stores, Artifact
      <4>2. set[c][i].op = "write" => artifacts'[x].revision = artifacts[x].revision + 1
        BY <1>0, <3>1, MadeVersions
      <4> QED
        BY <1>1, <4>1, <4>2 DEF Held
    <3>4. set[c][i].op \notin {"create", "import"}
      <4>1. Made(artifacts, set[c][i]) = Drafted(artifacts, set[c])[i].left
        BY <1>0, <3>1, DraftMakes
      <4>2. set[c][i].op \in {"create", "import"} => Drafted(artifacts, set[c])[i].left.revision # 0
        BY <1>0, <3>1, DraftLeaves
      <4> QED
        BY <1>1, <3>1, <4>1, <4>2 DEF Held
    <3> QED
      BY <3>1, <3>2, <3>3, <3>4 DEF Operation
  <2> QED
    BY <2>1, <2>2
<1>2. ASSUME NEW t \in ReadIn(Sets), Held(artifacts', t) PROVE Typed(artifacts', t)
  <2>0. t \in Iris
    BY DEF ReadIn
  <2>1. CASE Held(artifacts, t)
    BY <1>0, <1>2, <2>0, <2>1, LandingKinds DEF ReadTyped, Typed
  <2>2. CASE ~Held(artifacts, t)
    <3>1. PICK i \in DOMAIN port :
            /\ artifacts'[t] = port[i].change.left
            /\ port[i].change.op \in {"create", "import"}
            /\ i \in DOMAIN set[c] /\ set[c][i].op = port[i].change.op /\ set[c][i].id = t
      BY <1>0, <1>2, <2>0, <2>2, LandingKinds
    <3>2. PICK j \in DOMAIN set[c] :
            /\ set[c][j].id = t /\ set[c][j] \in Operation /\ set[c] \in Sets
            /\ artifacts'[t] = Made(artifacts, set[c][j])
            /\ set[c][j].op = "import" => artifacts[t].versions = <<>>
      <4>1. artifacts'[t] # artifacts[t]
        BY <1>2, <2>2 DEF Held
      <4> QED
        BY <2>0, <4>1, LandingMakes
    <3>3. i = j
      BY <3>1, <3>2, OnceAssumption
    <3>4. set[c][j].kind = TypeOfTypes
      BY <3>1, <3>2, <3>3 DEF ReadAsTypes, MadeAsTypes
    <3>5. artifacts'[t].kind = set[c][j].kind
      BY <1>0, <3>1, <3>2, <3>3, MadeVersions
    <3> QED
      BY <1>2, <3>4, <3>5 DEF Typed
  <2> QED
    BY <2>1, <2>2
<1> QED
  BY <1>1, <1>2 DEF Emptied, ReadTyped

LEMMA ReadsNext ==
  ReplacedStays(Sets) /\ ReadStays(Sets) /\ ReadAsTypes(Sets) /\ ReadInv /\ [Next]_vars => ReadInv'
<1> SUFFICES ASSUME ReplacedStays(Sets), ReadStays(Sets), ReadAsTypes(Sets), ReadInv, [Next]_vars
             PROVE  ReadInv'
  OBVIOUS
<1>0. /\ BelongInv /\ BelongInv' /\ TypeInv /\ artifacts \in Stores /\ at \in [Calls -> Steps]
      /\ set \in [Calls -> Seq(Operation)]
      /\ judged \in [Calls -> [changes : Seq(Change), types : SUBSET (Iris \X Nat)]]
      /\ handed \in [Calls -> Seq(PortChange)]
  BY BelongsNext DEF ReadInv, BelongInv, StampInv, TypeInv, TypeOK, Stores
<1>1. /\ ReadsHeld(artifacts') /\ Emptied(artifacts')
      /\ OnlyRead(artifacts') /\ ReadTyped(artifacts')
  <2>1. CASE artifacts' = artifacts
    BY <2>1 DEF ReadInv
  <2>2. CASE artifacts' # artifacts
    <3>1. PICK c \in Calls, port \in Seq(PortChange) :
            Passes(c, port) /\ (DraftedBefore(c, port) \/ DraftedNow(c, port))
      BY <1>0, <2>2, LandStep DEF DraftedBefore, DraftedNow
    <3>2. Emptied(artifacts') /\ ReadTyped(artifacts')
      BY <3>1, LandingEmpties
    <3> QED
      BY <3>1, <3>2, LandingReads
  <2> QED
    BY <2>1, <2>2
<1> SUFFICES ASSUME NEW d \in Calls PROVE ReadingOn(d)'
  BY <1>0, <1>1 DEF ReadInv, ReadsHeld, Emptied, OnlyRead, ReadTyped
<1>o. ReadingOn(d) /\ SitedOn(d) /\ OnItsWay(d) /\ StampedOn(d)
  BY <1>0 DEF ReadInv, BelongInv, StampInv, TypeInv
<1>e. ASSUME at'[d] \notin {"hand", "land"} PROVE ReadingOn(d)'
  BY <1>e DEF ReadingOn
<1>s. ASSUME at'[d] = at[d], set'[d] = set[d], judged'[d] = judged[d], handed'[d] = handed[d]
      PROVE  ReadingOn(d)'
  <2>1. CASE at[d] = "hand"
    <3> DEFINE changes == judged[d].changes
    <3>1. /\ changes \in Seq(Change) /\ set[d] \in Sets /\ FollowsSet(changes, set[d]) /\ Keeps(changes)
          /\ \A i \in DOMAIN set[d] : set[d][i].op # "import"
          /\ Rises(artifacts, changes) /\ AsMade(artifacts, changes, set[d])
          /\ ~UnderLock(set[d]) => ReadsKept(artifacts, changes, set[d])
      BY <1>0, <1>o, <2>1 DEF OnItsWay, SitedOn, StampedOn, ReadingOn
    <3>2. /\ Rises(artifacts', changes) /\ AsMade(artifacts', changes, set[d])
          /\ ~UnderLock(set[d]) => ReadsKept(artifacts', changes, set[d])
      BY <3>1, DraftStays
    <3>3. \A i \in DOMAIN changes :
            changes[i].op = "delete" /\ changes[i].id \in ReadIn(Sets) => changes[i].was = TypeOfTypes
      BY <1>o, <2>1 DEF ReadingOn
    <3>4. judged'[d].changes = changes
      BY <1>s
    <3> HIDE DEF changes
    <3> QED
      BY <1>s, <2>1, <3>2, <3>3, <3>4 DEF ReadingOn
  <2>2. CASE at[d] = "land"
    <3> DEFINE changes == Bare(handed[d])
    <3>1. /\ changes \in Seq(Change) /\ set[d] \in Sets /\ FollowsSet(changes, set[d]) /\ Keeps(changes)
          /\ \A i \in DOMAIN set[d] : set[d][i].op # "import"
          /\ Rises(artifacts, changes) /\ AsMade(artifacts, changes, set[d])
          /\ ~UnderLock(set[d]) /\ ReadsKept(artifacts, changes, set[d])
      BY <1>0, <1>o, <2>2, BareType DEF OnItsWay, SitedOn, StampedOn, ReadingOn
    <3>2. /\ Rises(artifacts', changes) /\ AsMade(artifacts', changes, set[d])
          /\ ReadsKept(artifacts', changes, set[d])
      BY <3>1, DraftStays
    <3>3. \A i \in DOMAIN changes : changes[i].op = "delete" => changes[i].id \notin ReadIn(Sets)
      BY <1>o, <2>2 DEF ReadingOn
    <3>4. Bare(handed'[d]) = changes
      BY <1>s
    <3> HIDE DEF changes
    <3> QED
      BY <1>s, <2>2, <3>1, <3>2, <3>3, <3>4 DEF ReadingOn
  <2>3. CASE at[d] \notin {"hand", "land"}
    BY <1>e, <1>s, <2>3
  <2> QED
    BY <2>1, <2>2, <2>3
<1>2. ASSUME NEW c \in Calls, Judges(c), c = d PROVE ReadingOn(d)'
  <2>1. CASE Accepts(artifacts, set[c])
    <3> DEFINE changes == Drafted(artifacts, set[c])
    <3>1. /\ set[c] \in Sets /\ artifacts' = artifacts /\ set' = set /\ at'[c] = "hand"
          /\ judged'[c].changes = changes
      BY <1>0, <1>o, <1>2, <2>1 DEF Judges, OnItsWay, Draft
    <3>2. /\ Rises(artifacts, changes) /\ AsMade(artifacts, changes, set[c])
          /\ ReadsKept(artifacts, changes, set[c])
          /\ \A i \in DOMAIN changes :
              changes[i].op = "delete" /\ changes[i].id \in ReadIn(Sets) => changes[i].was = TypeOfTypes
      BY <2>1, <3>1, DraftReads
    <3> HIDE DEF changes
    <3> QED
      BY <1>2, <3>1, <3>2 DEF ReadingOn
  <2>2. CASE ~Accepts(artifacts, set[c])
    BY <1>0, <1>2, <1>e, <2>2 DEF Judges, Ends
  <2> QED
    BY <2>1, <2>2
<1>3. ASSUME NEW c \in Calls, Hands(c), c = d, at'[c] = "land" PROVE ReadingOn(d)'
  <2> DEFINE port == Handed(artifacts, judged[c])
             changes == judged[c].changes
  <2>1. /\ ~Locked(artifacts, judged[c]) /\ handed'[c] = port /\ artifacts' = artifacts
        /\ at[c] = "hand" /\ set' = set
    BY <1>0, <1>3 DEF Hands, Ends
  <2>2. /\ changes \in Seq(Change) /\ FollowsSet(changes, set[c]) /\ set[c] \in Sets
        /\ \A i \in DOMAIN set[c] : set[c][i].op # "import"
        /\ Rises(artifacts, changes) /\ AsMade(artifacts, changes, set[c])
        /\ ~UnderLock(set[c]) => ReadsKept(artifacts, changes, set[c])
        /\ \A i \in DOMAIN changes :
             changes[i].op = "delete" /\ changes[i].id \in ReadIn(Sets) => changes[i].was = TypeOfTypes
    BY <1>0, <1>3, <1>o, <2>1 DEF OnItsWay, StampedOn, ReadingOn
  <2>3. Bare(port) = changes
    BY <2>2, BareHanded
  <2>4. ~UnderLock(set[c])
    <3> SUFFICES ASSUME NEW i \in DOMAIN set[c], set[c][i].op = "create", set[c][i].kind = TypeOfTypes
                 PROVE  FALSE
      BY <2>2 DEF UnderLock
    <3>1. set[c] \in Seq(Operation) /\ set[c][i] \in Operation
      BY <1>0, <2>2, SetType
    <3>2. i \in DOMAIN changes /\ changes[i].op = "create"
      <4>1. DOMAIN changes = DOMAIN set[c]
        BY <2>2, <3>1 DEF FollowsSet
      <4> HIDE DEF changes
      <4> QED
        BY <2>2, <4>1 DEF FollowsSet
    <3>3. changes[i].left = Made(artifacts, set[c][i])
      BY <2>2, <3>2 DEF AsMade
    <3>4. changes[i].left.kind = TypeOfTypes
      <4>1. Drafted(artifacts, set[c])[i].left.kind = set[c][i].kind
        BY <1>0, <2>2, DraftLeaves
      <4>2. Drafted(artifacts, set[c])[i].left = Made(artifacts, set[c][i])
        BY <1>0, <2>2, DraftMakes
      <4> QED
        BY <3>3, <4>1, <4>2
    <3> QED
      BY <2>1, <3>2, <3>4 DEF Locked
  <2>5. \A i \in DOMAIN changes : changes[i].op = "delete" => changes[i].id \notin ReadIn(Sets)
    BY <2>1, <2>2 DEF Locked
  <2> HIDE DEF port, changes
  <2> QED
    BY <1>3, <2>1, <2>2, <2>3, <2>4, <2>5 DEF ReadingOn
<1>4. ASSUME NEW c \in Calls, Asks(c) \/ Lands(c) \/ LandsUnderLock(c), c = d
      PROVE  at'[d] \notin {"hand", "land"}
  BY <1>0, <1>4 DEF Asks, Lands, LandsUnderLock, Ends
<1>5. ASSUME NEW c \in Calls, Asks(c) \/ Judges(c) \/ Hands(c) \/ Lands(c) \/ LandsUnderLock(c), c # d
      PROVE  at'[d] = at[d] /\ set'[d] = set[d] /\ judged'[d] = judged[d] /\ handed'[d] = handed[d]
  BY <1>0, <1>5 DEF Asks, Judges, Hands, Lands, LandsUnderLock, Ends
<1>6. ASSUME NEW c \in Calls, Hands(c), c = d, at'[c] # "land" PROVE at'[d] \notin {"hand", "land"}
  BY <1>0, <1>6 DEF Hands, Ends
<1>7. CASE UNCHANGED vars
  BY <1>7, <1>s DEF vars
<1> QED
  BY <1>e, <1>s, <1>2, <1>3, <1>4, <1>5, <1>6, <1>7 DEF Next

(* Every version of a type that another's version reads is held while the  *)
(* version that reads it is, whatever types other sets remove while a set  *)
(* is drafted, handed and landed (standing.in_the_way); where what is      *)
(* replaced is not removed, what a set's types read is removed by none or  *)
(* the set is drafted under the lock, and nothing else is made in the      *)
(* place of a type that is read.                                           *)
THEOREM ReadTypesKept ==
  ReplacedStays(Sets) /\ ReadStays(Sets) /\ ReadAsTypes(Sets) => (Spec => []ReadTypesHeld)
<1> SUFFICES ASSUME ReplacedStays(Sets), ReadStays(Sets), ReadAsTypes(Sets)
             PROVE  Spec => []ReadTypesHeld
  OBVIOUS
<1>1. Init => ReadInv
  BY ReadsStart
<1>2. ReadInv /\ [Next]_vars => ReadInv'
  BY ReadsNext
<1>3. ReadInv => ReadTypesHeld
  BY DEF ReadInv, ReadTypesHeld
<1> QED
  BY <1>1, <1>2, <1>3, PTL DEF Spec

-----------------------------------------------------------------------------
(* What the check of the whole store finds.  It finds nothing where every  *)
(* link held is one of a kind its field allows, or to an IRI that belongs  *)
(* to a type its field allows, and the version each artifact conforms to   *)
(* is kept.                                                                *)

MayLand(st, link) ==
  IF Held(st, link.target) THEN st[link.target].kind \in Kinds[link.field]
  ELSE Nearest(st, link.target) \in Kinds[link.field]

LinksFit(st) ==
  \A y \in Iris : Held(st, y) => \A link \in LinksOf(st, y) : MayLand(st, link)

VersionsHeld(st) ==
  \A y \in Iris : Held(st, y) => KeptVersion(st, Conforming(st[y]))

(* What may be under a link is a type where it is held, and a link held is *)
(* under such.                                                             *)
LinkedTyped(st) == \A t \in LinkedIn(Sets) : Held(st, t) => Typed(st, t)
OnlyLinked(st) ==
  \A y \in Iris : \A link \in LinksOf(st, y) : Kinds[link.field] \subseteq LinkedIn(Sets)

(* A type that some set removes is told by its revision.                   *)
RemovedIn(sets) == {t \in Iris : \E ops \in sets : \E i \in DOMAIN ops : ops[i].op = "delete" /\ ops[i].id = t}
RemovedCount(st) == \A t \in RemovedIn(Sets) : Typed(st, t) => Counted(st[t])

(* The version each change leaves its artifact conforming to is kept: by   *)
(* the set itself; or of a type that may be removed, while it stands at    *)
(* the revision it was read at; or for as long as there is a store.        *)
ConformsBy(st, changes, i, read) ==
  LET v == Conforming(changes[i].left)
  IN /\ v[1] \in Iris
     /\ IF v[1] \in Changed(changes) THEN KeptVersion(Put(st, changes), v)
        ELSE IF v[1] \in RemovedIn(Sets)
        THEN \E p \in read : p[1] = v[1] /\ v[2] \in 1..p[2]
        ELSE KeptVersion(st, v)

(* Nothing held, and nothing replaced as a type, lies between what a link  *)
(* names and the type it is handed under.                                  *)
VouchesFor(port, i, x, u) ==
  /\ SitsUnder(x, u)
  /\ \A y \in Between(x, u) :
       IF y \in Changed(Bare(port))
       THEN \A k \in DOMAIN port : port[k].change.id = y /\ port[k].change.op = "write" =>
              port[k].change.left.kind # TypeOfTypes
       ELSE <<y, 0>> \in port[i].through

Vouching(port) ==
  \A i \in DOMAIN port : \A j \in DOMAIN port[i].change.left.links :
    port[i].unders[j] \in Iris => VouchesFor(port, i, port[i].change.left.links[j].target, port[i].unders[j])

CheckingOn(c) ==
  /\ at[c] = "hand" =>
       /\ \A i \in DOMAIN judged[c].changes : judged[c].changes[i].op # "delete" =>
            ConformsBy(artifacts, judged[c].changes, i, judged[c].types)
       /\ \A i \in DOMAIN judged[c].changes :
            judged[c].changes[i].op = "delete" /\ judged[c].changes[i].id \in LinkedIn(Sets) =>
              judged[c].changes[i].was = TypeOfTypes
  /\ at[c] = "land" =>
       /\ \A i \in DOMAIN handed[c] : handed[c][i].change.op # "delete" =>
            ConformsBy(artifacts, Bare(handed[c]), i, handed[c][i].through)
       /\ \A i \in DOMAIN handed[c] : handed[c][i].change.op = "delete" =>
            handed[c][i].change.id \notin LinkedIn(Sets)
       /\ Vouching(handed[c])

CheckInv ==
  /\ ReadInv /\ LinksFit(artifacts) /\ VersionsHeld(artifacts)
  /\ LinkedTyped(artifacts) /\ OnlyLinked(artifacts) /\ RemovedCount(artifacts)
  /\ \A c \in Calls : CheckingOn(c)

(* So much is enough for the check to find nothing.                        *)
LEMMA NothingFound ==
  ASSUME NEW st \in Stores
  PROVE  Everything(st).violations = {} <=> LinksFit(st) /\ VersionsHeld(st)
<1> DEFINE unlanded(y) == Unlanded(st, st[y], HeldWaiting(st, y), FALSE)
<1>1. Everything(st).violations = {} <=>
        \A y \in Iris : Held(st, y) => unlanded(y) = {} /\ KeptVersion(st, Conforming(st[y]))
  <2> HIDE DEF unlanded
  <2>1. Everything(st).violations =
          (UNION {{<<x, i>> : i \in unlanded(x)} : x \in {x \in Iris : Held(st, x)}})
          \cup {<<x, 0>> : x \in {y \in {x \in Iris : Held(st, x)} : ~KeptVersion(st, Conforming(st[y]))}}
    BY Zenon DEF Everything, unlanded
  <2>2. ASSUME Everything(st).violations = {}, NEW y \in Iris, Held(st, y)
        PROVE  unlanded(y) = {} /\ KeptVersion(st, Conforming(st[y]))
    <3>1. \A i \in unlanded(y) : <<y, i>> \in Everything(st).violations
      BY <2>1, <2>2
    <3>2. ~KeptVersion(st, Conforming(st[y])) => <<y, 0>> \in Everything(st).violations
      BY <2>1, <2>2
    <3> QED
      BY <2>2, <3>1, <3>2
  <2>3. ASSUME \A y \in Iris : Held(st, y) => unlanded(y) = {} /\ KeptVersion(st, Conforming(st[y]))
        PROVE  Everything(st).violations = {}
    BY <2>1, <2>3
  <2> QED
    BY <2>2, <2>3
<1>2. ASSUME NEW y \in Iris
      PROVE  unlanded(y) = {} <=> \A link \in LinksOf(st, y) : MayLand(st, link)
  <2> DEFINE links == st[y].links
  <2>1. \A j \in DOMAIN links : Waits(st, links[j]) => Told(links)[j] \in HeldWaiting(st, y)
    BY DEF HeldWaiting
  <2>2. unlanded(y) = {} <=>
          \A j \in DOMAIN links :
            LinkLands(st, links[j]) \/ (Told(links)[j] \in HeldWaiting(st, y) /\ KeepsWaiting(st, links[j]))
    BY DEF Unlanded
  <2>3. \A j \in DOMAIN links :
          /\ LinkLands(st, links[j]) => MayLand(st, links[j])
          /\ KeepsWaiting(st, links[j]) => MayLand(st, links[j])
          /\ MayLand(st, links[j]) => LinkLands(st, links[j]) \/ (Waits(st, links[j]) /\ KeepsWaiting(st, links[j]))
    BY DEF LinkLands, MayLand, KeepsWaiting, Waits
  <2>4. (\A link \in LinksOf(st, y) : MayLand(st, link)) <=> \A j \in DOMAIN links : MayLand(st, links[j])
    BY DEF LinksOf
  <2> HIDE DEF unlanded, links
  <2> QED
    BY <2>1, <2>2, <2>3, <2>4
<1> HIDE DEF unlanded
<1> QED
  BY <1>1, <1>2 DEF LinksFit, VersionsHeld

(* A version kept is told by what stands where its type is.                *)
LEMMA KeptWhere ==
  ASSUME NEW st, NEW other, NEW v, st[v[1]] = other[v[1]]
  PROVE  KeptVersion(st, v) <=> KeptVersion(other, v)
BY DEF KeptVersion, Typed, Held

(* Stores told alike at an artifact are told alike once a change is put.   *)
LEMMA PutAgrees ==
  ASSUME NEW st, NEW other, NEW changes, NEW x \in Iris, x \in Changed(changes)
  PROVE  Put(st, changes)[x] = Put(other, changes)[x]
BY DEF Put

(* What each change of a draft leaves conforms to a version kept, and what *)
(* its type was read at is told beside it.                                 *)
LEMMA DraftConforms ==
  ASSUME NEW st \in Stores, NEW ops \in Sets, Accepts(st, ops), Belongs(st), RemovedCount(st),
         NEW changes, changes = Drafted(st, ops),
         NEW i \in DOMAIN changes, changes[i].op # "delete"
  PROVE  ConformsBy(st, changes, i, TypesRead(st, changes))
<1> DEFINE v == Conforming(changes[i].left)
           left == Put(st, changes)
<1>1. /\ changes[i] \in Change /\ i \in DOMAIN ops /\ ops[i] \in Operation /\ ops[i].id \in Iris
      /\ changes[i].op = ops[i].op /\ changes \in Seq(Change)
  BY SetType
<1>2. KeptVersion(left, v)
  BY Zenon DEF Accepts, Fits
<1>3. v[1] = changes[i].left.kind /\ v[2] = changes[i].left.version
  BY DEF Conforming
<1>4. v[1] \in Iris
  <2>1. CASE ops[i].op \in {"create", "import"}
    <3>1. changes[i].left.kind = ops[i].kind
      BY <1>1, <2>1, DraftLeaves
    <3> QED
      BY <1>1, <1>3, <2>1, <3>1, GivenAssumption DEF Operation
  <2>2. CASE ops[i].op = "write"
    <3>1. changes[i].left.kind = st[ops[i].id].kind /\ Held(st, ops[i].id)
      BY <1>1, <2>2, DraftLeaves, DraftActs
    <3>2. st[ops[i].id].kind \in Iris \cup {NoIri}
      BY <1>1 DEF Stores, Artifact
    <3> QED
      BY <1>1, <1>3, <3>1, <3>2, NoIriAssumption DEF Belongs
  <2> QED
    BY <1>1, <2>1, <2>2 DEF Operation
<1> HIDE DEF v
<1>5. CASE v[1] \in Changed(changes)
  BY <1>2, <1>4, <1>5 DEF ConformsBy, v
<1>6. CASE v[1] \notin Changed(changes)
  <2>1. left[v[1]] = st[v[1]]
    BY <1>4, <1>6, PutUntouched DEF Changed
  <2>2. KeptVersion(st, v)
    BY <1>2, <2>1, KeptWhere
  <2>3. ASSUME v[1] \in RemovedIn(Sets)
        PROVE  \E p \in TypesRead(st, changes) : p[1] = v[1] /\ v[2] \in 1..p[2]
    <3>1. Typed(st, v[1]) /\ v[2] \in DOMAIN st[v[1]].versions
      BY <2>2 DEF KeptVersion
    <3>2. st[v[1]].revision = Len(st[v[1]].versions)
      BY <2>3, <3>1 DEF RemovedCount, Counted
    <3>3. st[v[1]].versions \in Seq(TypeVersion)
      BY <1>4 DEF Stores, Artifact
    <3>4. v[2] \in 1..st[v[1]].revision
      BY <3>1, <3>2, <3>3
    <3>5. <<v[1], st[v[1]].revision>> \in TypesRead(st, changes)
      <4>1. v[1] \in ReadBy(left, changes[i])
        BY <1>3 DEF ReadBy
      <4> QED
        BY <1>4, <1>6, <3>1, <4>1 DEF TypesRead
    <3> QED
      BY <3>4, <3>5
  <2> QED
    BY <1>4, <1>6, <2>2, <2>3 DEF ConformsBy, v
<1> QED
  BY <1>5, <1>6

(* And so of what is handed on, judged by the same drafts.                 *)
LEMMA HandedConforms ==
  ASSUME NEW st \in Stores, NEW draft, draft.changes \in Seq(Change),
         NEW port, port = Handed(st, draft),
         NEW i \in DOMAIN draft.changes, draft.changes[i].op # "delete",
         ConformsBy(st, draft.changes, i, draft.types)
  PROVE  ConformsBy(st, Bare(port), i, port[i].through)
<1> DEFINE changes == draft.changes
           v == Conforming(changes[i].left)
<1>1. Bare(port) = changes
  BY BareHanded
<1>2. port[i].through = Through(st, draft, i)
  BY HandedIs
<1>3. v[1] \in ReadBy(Put(st, changes), changes[i])
  BY DEF ReadBy, Conforming
<1>4. \A p \in draft.types : p[1] = v[1] => p \in Through(st, draft, i)
  BY <1>3 DEF Through
<1> HIDE DEF changes
<1> QED
  BY <1>1, <1>2, <1>4 DEF ConformsBy, changes

(* What is handed without the lock is compared with nothing held at each   *)
(* IRI between what a link names and the type it is handed under.          *)
LEMMA HandedVouches ==
  ASSUME NEW st \in Stores, NEW draft, draft.changes \in Seq(Change), Stamped(draft.changes),
         \A i, k \in DOMAIN draft.changes : draft.changes[i].id = draft.changes[k].id => i = k,
         ~Locked(st, draft)
  PROVE  Vouching(Handed(st, draft))
<1> DEFINE changes == draft.changes
           port == Handed(st, draft)
           types == DraftTypes(st, draft)
<1>1. Bare(port) = changes
  BY BareHanded
<1>2. /\ DOMAIN port = DOMAIN changes
      /\ \A i \in DOMAIN changes :
           /\ port[i].change = changes[i] /\ port[i].through = Through(st, draft, i)
           /\ port[i].unders = Unders(st, draft)[i]
  BY HandedIs
<1> SUFFICES ASSUME NEW i \in DOMAIN changes, NEW j \in DOMAIN changes[i].left.links,
                    Unders(st, draft)[i][j] \in Iris
             PROVE  VouchesFor(port, i, changes[i].left.links[j].target, Unders(st, draft)[i][j])
  BY <1>2 DEF Vouching
<1> DEFINE links == changes[i].left.links
           x == links[j].target
           unders == Unders(st, draft)[i]
           u == unders[j]
<1>3. changes \in Seq(Change) /\ \A k \in DOMAIN changes : changes[k] \in Change
  BY ElementOfSeq
<1>4. x \in Iris
  <2>1. links \in Seq(Link)
    BY <1>3 DEF Change, Artifact
  <2>2. links[j] \in Link
    BY <2>1, ElementOfSeq
  <2> QED
    BY <2>2 DEF Link
<1>5. unders = UndersFor(changes[i], types)
  BY UndersAre
<1>6. DOMAIN unders = DOMAIN links /\ u = NearestIn(x, types) /\ u \in Iris
  BY <1>5 DEF UndersFor
<1> HIDE DEF types, unders, x, u
<1>7. PICK n \in RanksIn(x, types) : u = Above[x][n] /\ \A m \in RanksIn(x, types) : n <= m
  <2>1. RanksIn(x, types) # {}
    BY <1>6, NoIriAssumption DEF NearestIn, LowestOf
  <2> QED
    BY <1>4, <1>6, <2>1, LowestIs
<1>8. SitsUnder(x, u)
  BY <1>7 DEF RanksIn, SitsUnder
<1>9. ASSUME NEW y \in Between(x, u) PROVE y \in Iris /\ y \notin types
  <2>1. PICK m \in DOMAIN Above[x] : Above[x][m] = y /\ \A l \in 1..m : Above[x][l] # u
    BY <1>4, <1>9, BetweenIs
  <2>2. n \in Nat /\ m \in Nat /\ n \in 1..Len(Above[x])
    BY <1>4, <1>7, <2>1, AboveType DEF RanksIn
  <2>3. ~(n <= m)
    BY <1>7, <2>1, <2>2
  <2>4. m \notin RanksIn(x, types)
    BY <1>7, <2>3
  <2> QED
    BY <1>4, <1>9, <2>1, <2>4, BetweenType DEF RanksIn
<1>10. Between(x, u) \subseteq Open(changes[i], unders)
  <2>1. j \in {k \in DOMAIN unders : unders[k] # NoIri}
    BY <1>6, NoIriAssumption DEF u
  <2> QED
    BY <2>1 DEF Open, x, u
<1>11. ASSUME NEW y \in Between(x, u), y \notin Changed(changes) PROVE <<y, 0>> \in Through(st, draft, i)
  <2>1. y \in Guards(st, draft, i)
    BY <1>10, <1>11, Zenon DEF Guards, unders
  <2>2. ~Held(st, y)
    BY <2>1 DEF Locked
  <2>3. Put(st, changes)[y] = st[y]
    BY <1>9, <1>11, PutUntouched DEF Changed
  <2>4. ~Held(Put(st, changes), y)
    BY <2>2, <2>3 DEF Held
  <2> QED
    BY <2>1, <2>4 DEF Through
<1>12. ASSUME NEW y \in Between(x, u), NEW k \in DOMAIN changes, changes[k].id = y, changes[k].op = "write"
       PROVE  changes[k].left.kind # TypeOfTypes
  <2>1. y \in Changed(changes) /\ DOMAIN changes = 1..Len(changes) /\ Len(changes) \in Nat
    BY <1>3, <1>12 DEF Changed
  <2>2. LastOf(changes, y) = k
    BY <1>12, <2>1, LastThere
  <2>3. Put(st, changes)[y] = changes[k].left
    BY <1>9, <2>1, <2>2 DEF Put
  <2>4. changes[k].left.revision = changes[k].read + 1 /\ changes[k].read \in Nat
    BY <1>3, <1>12 DEF Stamped, Change
  <2>5. Held(Put(st, changes), y)
    BY <2>3, <2>4 DEF Held
  <2> QED
    BY <1>9, <2>3, <2>5 DEF DraftTypes, types
<1> HIDE DEF port, changes
<1>13. VouchesFor(port, i, x, u)
  BY <1>1, <1>2, <1>8, <1>11, <1>12 DEF VouchesFor
<1> QED
  BY <1>13 DEF x, u, changes, links, unders, port

(* What keeps a version conformed to is there as long as it is needed.     *)
LEMMA ConformsStays ==
  ASSUME ReadInv, [Next]_vars, NEW changes, NEW i, NEW read, ConformsBy(artifacts, changes, i, read)
  PROVE  ConformsBy(artifacts', changes, i, read)
<1> DEFINE v == Conforming(changes[i].left)
<1>1. v[1] \in Iris
  BY DEF ConformsBy
<1> HIDE DEF v
<1>2. CASE v[1] \in Changed(changes)
  <2>1. Put(artifacts, changes)[v[1]] = Put(artifacts', changes)[v[1]]
    BY <1>1, <1>2, PutAgrees
  <2>2. KeptVersion(Put(artifacts, changes), v) <=> KeptVersion(Put(artifacts', changes), v)
    BY <2>1, KeptWhere
  <2> QED
    BY <1>2, <2>2 DEF ConformsBy, v
<1>3. CASE v[1] \notin Changed(changes) /\ v[1] \in RemovedIn(Sets)
  BY <1>3 DEF ConformsBy, v
<1>4. CASE v[1] \notin Changed(changes) /\ v[1] \notin RemovedIn(Sets)
  <2>1. KeptVersion(artifacts, v)
    BY <1>4 DEF ConformsBy, v
  <2>2. ASSUME artifacts' # artifacts PROVE KeptVersion(artifacts', v)
    <3>1. BelongInv /\ TypeInv
      BY DEF ReadInv, BelongInv, StampInv
    <3>2. PICK c \in Calls, port \in Seq(PortChange) :
            Passes(c, port) /\ (DraftedBefore(c, port) \/ DraftedNow(c, port))
      BY <2>2, <3>1, LandStep DEF DraftedBefore, DraftedNow
    <3>3. Held(artifacts, v[1])
      BY <2>1 DEF KeptVersion, Typed
    <3>4. Held(artifacts', v[1])
      <4>1. ASSUME ~Held(artifacts', v[1]) PROVE FALSE
        <5>1. \E k \in DOMAIN set[c] : set[c][k].op = "delete" /\ set[c][k].id = v[1]
          BY <1>1, <3>1, <3>2, <3>3, <4>1, LandingKinds
        <5>2. set[c] \in Sets
          BY <3>2 DEF Passes
        <5> QED
          BY <1>1, <1>4, <5>1, <5>2 DEF RemovedIn
      <4> QED
        BY <4>1
    <3> QED
      BY <1>1, <2>1, <3>2, <3>4, LandingKeeps
  <2>3. KeptVersion(artifacts', v)
    BY <2>1, <2>2
  <2> QED
    BY <1>1, <1>4, <2>3 DEF ConformsBy, v
<1> QED
  BY <1>2, <1>3, <1>4

(* What the port checks of a landing, over the store it leaves.            *)
LEMMA LandingChecked ==
  ASSUME NEW c \in Calls, NEW port \in Seq(PortChange), Passes(c, port)
  PROVE  AllLand(artifacts, artifacts', port) /\ NoneLinked(artifacts, artifacts', port)
<1>1. LET after == Put(artifacts, [i \in DOMAIN port |-> port[i].change])
      IN AllLand(artifacts, after, port) /\ NoneLinked(artifacts, after, port)
  BY Zenon DEF Passes, Integral
<1> QED
  BY <1>1 DEF Passes, Bare

(* The version an artifact conforms to is kept by every landing: of what   *)
(* it changes, as its draft found it or as another that is told the same;  *)
(* of the rest, because no type is removed that something outside the set  *)
(* is of (sqlite_checks._integral).                                        *)
LEMMA LandingConforms ==
  ASSUME CheckInv, NEW c \in Calls, NEW port \in Seq(PortChange), Passes(c, port),
         DraftedBefore(c, port) \/ DraftedNow(c, port)
  PROVE  VersionsHeld(artifacts')
<1> SUFFICES ASSUME NEW y \in Iris, Held(artifacts', y)
             PROVE  KeptVersion(artifacts', Conforming(artifacts'[y]))
  BY DEF VersionsHeld
<1>0. ReadInv /\ BelongInv /\ StampInv /\ TypeInv
  BY DEF CheckInv, ReadInv, BelongInv, StampInv
<1>1. /\ artifacts \in Stores /\ set[c] \in Sets /\ DOMAIN Bare(port) = DOMAIN port
      /\ \A i \in DOMAIN port : Bare(port)[i] = port[i].change
      /\ DraftedNow(c, port) => Bare(port) = Drafted(artifacts, set[c])
  BY <1>0, LandingIs
<1>2. AllLand(artifacts, artifacts', port) /\ NoneLinked(artifacts, artifacts', port)
  BY LandingChecked
<1> DEFINE v == Conforming(artifacts'[y])
<1>3. v[1] = artifacts'[y].kind /\ v[2] = artifacts'[y].version
  BY DEF Conforming
<1>4. CASE \A i \in DOMAIN port : port[i].change.id # y
  <2>1. artifacts'[y] = artifacts[y]
    BY <1>0, <1>4, LandingAt
  <2>2. Held(artifacts, y)
    BY <2>1 DEF Held
  <2>3. KeptVersion(artifacts, v)
    BY <2>1, <2>2 DEF CheckInv, VersionsHeld
  <2>4. v[1] \in Iris
    <3>1. artifacts[y].kind \in Iris \cup {NoIri}
      BY <1>1 DEF Stores, Artifact
    <3> QED
      BY <1>0, <1>3, <2>1, <2>2, <3>1, NoIriAssumption DEF BelongInv, Belongs
  <2> HIDE DEF v
  <2>5. Held(artifacts, v[1])
    BY <2>3 DEF KeptVersion, Typed
  <2>6. Held(artifacts', v[1])
    <3>1. ASSUME ~Held(artifacts', v[1]) PROVE FALSE
      <4>1. PICK i \in DOMAIN port : port[i].change.id = v[1]
        <5>1. artifacts'[v[1]] # artifacts[v[1]]
          BY <2>5, <3>1 DEF Held
        <5> QED
          BY <1>0, <2>4, <5>1, LandingAt
      <4>2. v[1] \in {port[j].change.id : j \in DOMAIN port}
        BY <4>1
      <4>3. y \in Iris \ {port[j].change.id : j \in DOMAIN port}
        BY <1>4
      <4>4. artifacts'[y].kind # v[1]
        BY <1>2, <2>5, <3>1, <4>2, <4>3, Zenon DEF NoneLinked
      <4> QED
        BY <1>3, <4>4
    <3> QED
      BY <3>1
  <2>7. KeptVersion(artifacts', v)
    BY <1>0, <2>3, <2>4, <2>6, LandingKeeps
  <2> QED
    BY <2>7 DEF v
<1>5. CASE \E i \in DOMAIN port : port[i].change.id = y
  <2>1. PICK i \in DOMAIN port :
          /\ port[i].change.id = y /\ artifacts'[y] = port[i].change.left
          /\ port[i].change.op = "delete" => port[i].change.left = Nothing
    BY <1>0, <1>5, LandingAt
  <2>2. port[i].change.op # "delete"
    BY <2>1 DEF Held, Nothing
  <2>3. Typed(artifacts', v[1])
    BY <1>2, <1>3, <2>1, <2>2 DEF AllLand
  <2>4. CASE DraftedNow(c, port)
    <3> DEFINE changes == Drafted(artifacts, set[c])
    <3>1. Accepts(artifacts, set[c]) /\ artifacts' = Put(artifacts, changes)
          /\ i \in DOMAIN changes /\ changes[i] = port[i].change
      BY <1>1, <2>4 DEF DraftedNow, Passes
    <3>2. Fits(Put(artifacts, changes), changes[i])
      BY <2>2, <3>1, Zenon DEF Accepts
    <3> QED
      BY <2>1, <3>1, <3>2 DEF Fits
  <2>5. CASE DraftedBefore(c, port)
    <3>1. ConformsBy(artifacts, Bare(port), i, port[i].through)
      BY <2>2, <2>5 DEF DraftedBefore, CheckInv, CheckingOn
    <3>2. artifacts' = Put(artifacts, Bare(port)) /\ v = Conforming(Bare(port)[i].left)
      BY <1>1, <2>1 DEF Passes
    <3> HIDE DEF v
    <3>3. CASE v[1] \in Changed(Bare(port))
      BY <3>1, <3>2, <3>3 DEF ConformsBy, v
    <3>4. CASE v[1] \notin Changed(Bare(port))
      <4>0. v[1] \in Iris
        BY <3>1, <3>2 DEF ConformsBy
      <4>1. artifacts'[v[1]] = artifacts[v[1]]
        BY <3>2, <3>4, <4>0, PutUntouched DEF Changed
      <4>2. KeptVersion(artifacts, v)
        <5>1. CASE v[1] \in RemovedIn(Sets)
          <6>1. PICK p \in port[i].through : p[1] = v[1] /\ v[2] \in 1..p[2]
            BY <3>1, <3>2, <3>4, <5>1 DEF ConformsBy
          <6>2. artifacts[v[1]].revision = p[2]
            <7>1. \A q \in port[i].through : artifacts[q[1]].revision = q[2]
              BY Zenon DEF Passes, Moved
            <7> QED
              BY <6>1, <7>1
          <6>3. Typed(artifacts, v[1])
            BY <2>3, <4>1 DEF Typed, Held, v
          <6>4. Counted(artifacts[v[1]])
            BY <5>1, <6>3 DEF CheckInv, RemovedCount
          <6>5. artifacts[v[1]].versions \in Seq(TypeVersion)
            BY <1>1, <4>0 DEF Stores, Artifact
          <6> QED
            BY <6>1, <6>2, <6>3, <6>4, <6>5 DEF Counted, KeptVersion
        <5>2. CASE v[1] \notin RemovedIn(Sets)
          BY <3>1, <3>2, <3>4, <5>2 DEF ConformsBy
        <5> QED
          BY <5>1, <5>2
      <4> QED
        BY <4>1, <4>2, KeptWhere DEF v
    <3> QED
      BY <3>3, <3>4
  <2> QED
    BY <2>4, <2>5
<1> QED
  BY <1>4, <1>5

(* What an operation makes of its artifact: the links it gives, and a type *)
(* created of one version.                                                 *)
LEMMA MadeLinks ==
  ASSUME NEW st \in Stores, NEW op \in Operation, NEW made, made = Made(st, op)
  PROVE  /\ op.op = "delete" => made = Nothing
         /\ op.op # "delete" => made.links = op.links
         /\ op.op = "create" /\ op.kind = TypeOfTypes => Counted(made)
<1>1. CASE op.op = "delete"
  BY <1>1 DEF Made
<1>2. CASE op.op = "write"
  <2>1. made = Revised(st[op.id], op)
    BY <1>2 DEF Made
  <2>2. st[op.id] \in Artifact
    BY DEF Stores, Operation
  <2> QED
    BY <1>2, <2>1, <2>2 DEF Revised, Artifact
<1>3. CASE op.op = "import"
  <2>1. made = Brought(st[op.id], op)
    BY <1>3 DEF Made
  <2> QED
    BY <1>3, <2>1 DEF Brought
<1>4. CASE op.op = "create"
  <2> DEFINE o == [op EXCEPT !.revision = 1, !.number = IF op.kind = TypeOfTypes THEN 1 ELSE 0]
  <2>1. made = Brought(Nothing, o)
    BY <1>4 DEF Made
  <2>2. o.links = op.links /\ o.revision = 1 /\ (op.kind = TypeOfTypes => o.number = 1)
    BY DEF Operation
  <2> HIDE DEF o
  <2>3. made.links = op.links
    BY <2>1, <2>2 DEF Brought
  <2>4. ASSUME op.kind = TypeOfTypes PROVE Counted(made)
    <3>1. made.versions = Gained(<<>>, 1, 1, o.reads) /\ made.revision = 1
      BY <2>1, <2>2, <2>4 DEF Brought, Nothing
    <3>2. made.versions = [n \in 1..1 |-> [revision |-> 1, reads |-> o.reads]]
      <4>1. (IF 1 > Len(<<>>) THEN 1 ELSE Len(<<>>)) = 1
        OBVIOUS
      <4> QED
        BY <3>1, <4>1 DEF Gained
    <3>3. Len(made.versions) = 1 /\ DOMAIN made.versions = {1} /\ made.versions[1].revision = 1
      BY <3>2
    <3>4. NotKept.revision = 0
      BY DEF NotKept
    <3> QED
      BY <3>1, <3>3, <3>4 DEF Counted
  <2> QED
    BY <1>4, <2>3, <2>4
<1> QED
  BY <1>1, <1>2, <1>3, <1>4 DEF Operation

(* A type that may be removed is told by its revision after every landing: *)
(* none is replaced or imported, and one created is at its first.          *)
LEMMA LandingCounts ==
  ASSUME ReplacedStays(Sets), RemovedCounted(Sets), CheckInv,
         NEW c \in Calls, NEW port \in Seq(PortChange), Passes(c, port),
         DraftedBefore(c, port) \/ DraftedNow(c, port)
  PROVE  RemovedCount(artifacts')
<1> SUFFICES ASSUME NEW t \in RemovedIn(Sets), Typed(artifacts', t) PROVE Counted(artifacts'[t])
  BY DEF RemovedCount
<1>0. ReadInv /\ StampInv /\ artifacts \in Stores /\ t \in Iris
  BY LandingIs DEF CheckInv, ReadInv, BelongInv, RemovedIn
<1>1. PICK others \in Sets : \E j \in DOMAIN others : others[j].op = "delete" /\ others[j].id = t
  BY DEF RemovedIn
<1>2. CASE artifacts'[t] = artifacts[t]
  <2>1. Typed(artifacts, t)
    BY <1>2 DEF Typed, Held
  <2> QED
    BY <1>2, <2>1 DEF CheckInv, RemovedCount
<1>3. CASE artifacts'[t] # artifacts[t]
  <2>1. PICK i \in DOMAIN set[c] :
          /\ set[c][i].id = t /\ set[c][i] \in Operation /\ set[c] \in Sets
          /\ artifacts'[t] = Made(artifacts, set[c][i])
          /\ set[c][i].op = "import" => artifacts[t].versions = <<>>
    BY <1>0, <1>3, LandingMakes
  <2>2. set[c][i].op # "delete"
    BY <1>0, <2>1, MadeLinks DEF Typed, Held, Nothing
  <2>3. set[c][i].op # "write"
    BY <1>1, <2>1 DEF ReplacedStays
  <2>4. set[c][i].op # "import"
    BY <1>1, <2>1 DEF RemovedCounted
  <2>5. set[c][i].op = "create"
    BY <2>1, <2>2, <2>3, <2>4 DEF Operation
  <2>6. artifacts'[t].kind = set[c][i].kind
    BY <1>0, <2>1, <2>5, MadeVersions
  <2> QED
    BY <1>0, <2>1, <2>5, <2>6, MadeLinks DEF Typed
<1> QED
  BY <1>2, <1>3

(* What may be under a link is a type after every landing, and every link  *)
(* is one that some set brings.                                            *)
LEMMA LandingLinked ==
  ASSUME LinkedAsTypes(Sets), CheckInv,
         NEW c \in Calls, NEW port \in Seq(PortChange), Passes(c, port),
         DraftedBefore(c, port) \/ DraftedNow(c, port)
  PROVE  LinkedTyped(artifacts') /\ OnlyLinked(artifacts')
<1>0. ReadInv /\ BelongInv /\ StampInv /\ artifacts \in Stores
  BY LandingIs DEF CheckInv, ReadInv, BelongInv
<1>1. ASSUME NEW t \in LinkedIn(Sets), Held(artifacts', t) PROVE Typed(artifacts', t)
  <2>0. t \in Iris
    BY DEF LinkedIn
  <2>1. CASE Held(artifacts, t)
    <3>1. Typed(artifacts, t)
      BY <2>1 DEF CheckInv, LinkedTyped
    <3>2. artifacts'[t].kind = artifacts[t].kind
      BY <1>0, <1>1, <2>0, <2>1, LandingKinds
    <3> QED
      BY <1>1, <3>1, <3>2 DEF Typed
  <2>2. CASE ~Held(artifacts, t)
    <3>1. artifacts'[t] # artifacts[t]
      BY <1>1, <2>2 DEF Held
    <3>2. PICK i \in DOMAIN set[c] :
            /\ set[c][i].id = t /\ set[c][i] \in Operation /\ set[c] \in Sets
            /\ artifacts'[t] = Made(artifacts, set[c][i])
            /\ set[c][i].op = "import" => artifacts[t].versions = <<>>
            /\ set[c][i].op = "write" => Held(artifacts, t)
      BY <1>0, <2>0, <3>1, LandingMakes
    <3>3. set[c][i].op # "delete"
      BY <1>0, <1>1, <3>2, MadeLinks DEF Held, Nothing
    <3>4. set[c][i].op \in {"create", "import"}
      BY <2>2, <3>2, <3>3 DEF Operation
    <3>5. artifacts'[t].kind = set[c][i].kind
      BY <1>0, <3>2, <3>4, MadeVersions
    <3>6. set[c][i].kind = TypeOfTypes
      BY <1>1, <3>2, <3>4 DEF LinkedAsTypes, MadeAsTypes
    <3> QED
      BY <1>1, <3>5, <3>6 DEF Typed
  <2> QED
    BY <2>1, <2>2
<1>2. ASSUME NEW y \in Iris, NEW link \in LinksOf(artifacts', y)
      PROVE  Kinds[link.field] \subseteq LinkedIn(Sets)
  <2>1. CASE artifacts'[y] = artifacts[y]
    <3>1. link \in LinksOf(artifacts, y)
      BY <1>2, <2>1 DEF LinksOf
    <3> QED
      BY <3>1 DEF CheckInv, OnlyLinked
  <2>2. CASE artifacts'[y] # artifacts[y]
    <3>1. PICK i \in DOMAIN set[c] :
            /\ set[c][i] \in Operation /\ set[c] \in Sets
            /\ artifacts'[y] = Made(artifacts, set[c][i])
      BY <1>0, <2>2, LandingMakes
    <3>2. PICK j \in DOMAIN artifacts'[y].links : link = artifacts'[y].links[j]
      BY <1>2 DEF LinksOf
    <3>3. artifacts'[y].links = set[c][i].links
      <4>1. DOMAIN Nothing.links = {}
        BY DEF Nothing
      <4> QED
        BY <1>0, <3>1, <3>2, <4>1, MadeLinks
    <3>4. link \in Link
      <4>1. set[c][i].links \in Seq(Link)
        BY <3>1 DEF Operation
      <4> QED
        BY <3>2, <3>3, <4>1, ElementOfSeq
    <3>5. Kinds[link.field] \in SUBSET Iris
      BY <3>4, KindsAssumption DEF Link
    <3> QED
      BY <3>1, <3>2, <3>3, <3>5 DEF LinkedIn
  <2> QED
    BY <2>1, <2>2
<1> QED
  BY <1>1, <1>2 DEF LinkedTyped, OnlyLinked
-----------------------------------------------------------------------------
(* Where a link that waits may land.  What it names would belong to the    *)
(* nearest held type above it, and of two such types one is nearer.        *)
LEMMA NearestWasIs ==
  ASSUME NEW st, NEW x \in Iris, NEW t \in Iris, SitsUnder(x, t),
         \A y \in Between(x, t) : ~Typed(st, y)
  PROVE  NearestWas(st, x, t)
<1> DEFINE T == {i \in DOMAIN Above[x] : Above[x][i] = t}
<1>1. T \in SUBSET Nat /\ T # {} /\ DOMAIN Above[x] = 1..Len(Above[x]) /\ Len(Above[x]) \in Nat
  BY AboveType DEF SitsUnder
<1>2. PICK i \in T : \A j \in T : i <= j
  BY <1>1, LeastNumber
<1>3. ASSUME NEW j \in 1..(i - 1) PROVE ~Typed(st, Above[x][j]) /\ Above[x][j] # t
  <2>1. j \in DOMAIN Above[x] /\ \A l \in 1..j : l \in DOMAIN Above[x] /\ ~(i <= l)
    BY <1>1, <1>2, <1>3
  <2>2. \A l \in 1..j : Above[x][l] # t
    BY <1>2, <2>1
  <2>3. Above[x][j] \in Between(x, t)
    BY <2>1, <2>2, BetweenIs
  <2>4. j \in 1..j
    BY <1>1, <2>1
  <2> QED
    BY <2>2, <2>3, <2>4
<1> QED
  BY <1>2, <1>3 DEF NearestWas

(* Of two IRIs above one, an IRI no nearer than the other is above it.     *)
LEMMA OneNearer ==
  ASSUME NEW x \in Iris, NEW s \in Iris, NEW t \in Iris, SitsUnder(x, s), SitsUnder(x, t),
         s \notin Between(x, t), t \notin Between(x, s)
  PROVE  s = t
<1> SUFFICES ASSUME s # t PROVE FALSE
  OBVIOUS
<1> DEFINE T == {i \in DOMAIN Above[x] : Above[x][i] \in {s, t}}
<1>1. T \in SUBSET Nat /\ T # {} /\ DOMAIN Above[x] = 1..Len(Above[x]) /\ Len(Above[x]) \in Nat
  BY AboveType DEF SitsUnder
<1>2. PICK i \in T : \A j \in T : i <= j
  BY <1>1, LeastNumber
<1>3. ASSUME NEW l \in 1..i, Above[x][l] \in {s, t} PROVE l = i
  <2>1. l \in T /\ l \in Nat /\ i \in Nat /\ l <= i
    BY <1>1, <1>2, <1>3
  <2> QED
    BY <1>2, <2>1
<1>4. CASE Above[x][i] = s
  <2>1. \A l \in 1..i : Above[x][l] # t
    BY <1>3, <1>4
  <2> QED
    BY <1>2, <1>4, <2>1, BetweenIs
<1>5. CASE Above[x][i] = t
  <2>1. \A l \in 1..i : Above[x][l] # s
    BY <1>3, <1>5
  <2> QED
    BY <1>2, <1>5, <2>1, BetweenIs
<1> QED
  BY <1>2, <1>4, <1>5

(* What is between an IRI and a nearer one above it is between the two.    *)
LEMMA BetweenNearer ==
  ASSUME NEW x \in Iris, NEW k \in Iris, NEW z \in Between(x, k)
  PROVE  Between(x, z) \subseteq Between(x, k)
<1>1. PICK n \in DOMAIN Above[x] : Above[x][n] = z /\ \A l \in 1..n : Above[x][l] # k
  BY BetweenIs
<1>2. DOMAIN Above[x] = 1..Len(Above[x]) /\ Len(Above[x]) \in Nat
  BY AboveType
<1>3. ASSUME NEW y \in Between(x, z) PROVE y \in Between(x, k)
  <2>1. PICK j \in DOMAIN Above[x] : Above[x][j] = y /\ \A l \in 1..j : Above[x][l] # z
    BY BetweenIs
  <2>2. ~(n <= j)
    BY <1>1, <1>2, <2>1
  <2>3. \A l \in 1..j : l \in 1..n
    BY <1>2, <2>1, <2>2
  <2>4. SitsUnder(x, k)
    BY BetweenIs
  <2> QED
    BY <1>1, <2>1, <2>3, <2>4, BetweenIs
<1> QED
  BY <1>3

(* As a set of creates or imports is drafted, an IRI that a link outside   *)
(* it waits on belongs to the type it did, until something is made there:  *)
(* a type nearer to it is refused (standing.under).                        *)
LEMMA GrowthStays ==
  ASSUME NEW st \in Stores, NEW ops \in Sets, Accepts(st, ops), Examined(st, ops),
         \A i \in DOMAIN ops : ops[i].op \in {"create", "import"},
         NEW y \in Iris, \A i \in DOMAIN ops : ops[i].id # y,
         NEW link \in LinksOf(st, y), NEW x \in Iris, x = link.target, ~Held(st, x),
         NEW k \in Iris, Nearest(st, x) = k,
         NEW m \in 0..Len(ops), \A i \in 1..m : ops[i].id # x
  PROVE  Nearest(Upto(st, ops, m), x) = k
<1> DEFINE N == Len(ops)
           U(n) == Upto(st, ops, n)
           left(i) == Drafted(st, ops)[i].left
           T == {n \in Nat : n <= m => Nearest(U(n), x) = k}
<1>1. /\ DOMAIN ops = 1..N /\ N \in Nat /\ m \in Nat /\ m <= N
      /\ \A i \in DOMAIN ops : ops[i] \in Operation /\ ops[i].id \in Iris
      /\ \A i, j \in DOMAIN ops : ops[i].id = ops[j].id => i = j
  BY SetType, OnceAssumption
<1>2. \A n \in 0..N, z \in Iris :
        /\ \A i \in DOMAIN ops : ops[i].id = z => U(n)[z] = IF i <= n THEN left(i) ELSE st[z]
        /\ (\A i \in DOMAIN ops : ops[i].id # z) => U(n)[z] = st[z]
  BY UptoAt
<1>3. \A i \in DOMAIN ops : left(i).kind = ops[i].kind
  BY DraftLeaves
<1>4. ASSUME NEW i \in DOMAIN ops
      PROVE  ~Held(st, ops[i].id) /\ (ops[i].kind = TypeOfTypes => SitsFree(U(i - 1), ops[i].id))
  <2>1. CASE ops[i].op = "create"
    <3>1. ~Held(st, ops[i].id) /\ Identity(U(i - 1), ops[i])
      BY <2>1, DraftActs
    <3> QED
      BY <3>1 DEF Identity
  <2>2. CASE ops[i].op = "import"
    BY <2>2, Zenon DEF Examined, Upto
  <2> QED
    BY <2>1, <2>2
<1> HIDE DEF N, U, left
<1>5. \A n \in 0..m, z \in Iris : (\A i \in 1..n : ops[i].id # z) => U(n)[z] = st[z]
  <2> SUFFICES ASSUME NEW n \in 0..m, NEW z \in Iris, \A i \in 1..n : ops[i].id # z
               PROVE  U(n)[z] = st[z]
    OBVIOUS
  <2>1. n \in 0..N /\ \A i \in DOMAIN ops : i <= n => i \in 1..n
    BY <1>1
  <2> QED
    BY <1>2, <2>1
<1>6. 0 \in T
  <2>1. \A z \in Iris : U(0)[z] = st[z]
    BY <1>1, <1>5
  <2>2. SitsUnder(x, k) /\ Typed(st, k) /\ \A z \in Between(x, k) : ~Typed(st, z)
    BY NearestIs
  <2>3. Between(x, k) \subseteq Iris
    BY BetweenType
  <2>4. Typed(U(0), k) /\ \A z \in Between(x, k) : ~Typed(U(0), z)
    BY <2>1, <2>2, <2>3 DEF Typed, Held
  <2> QED
    BY <2>2, <2>4, NearestIs
<1>7. ASSUME NEW n \in Nat, n \in T PROVE n + 1 \in T
  <2> SUFFICES ASSUME n + 1 <= m PROVE Nearest(U(n + 1), x) = k
    OBVIOUS
  <2>1. /\ n \in 0..m /\ n + 1 \in 0..N /\ n \in 0..N /\ n + 1 \in 1..m /\ n + 1 \in DOMAIN ops
        /\ (n + 1) - 1 = n
    BY <1>1
  <2> DEFINE op == ops[n + 1]
             z == op.id
  <2>2. SitsUnder(x, k) /\ Typed(U(n), k) /\ \A w \in Between(x, k) : ~Typed(U(n), w)
    BY <1>7, <2>1, NearestIs
  <2>3. z \in Iris /\ ~Held(st, z) /\ (op.kind = TypeOfTypes => SitsFree(U(n), z))
    BY <1>1, <1>4, <2>1
  <2>4. ASSUME NEW w \in Iris, w # z PROVE U(n + 1)[w] = U(n)[w]
    <3>1. CASE \E i \in DOMAIN ops : ops[i].id = w
      <4>1. PICK i \in DOMAIN ops : ops[i].id = w
        BY <3>1
      <4>2. i <= n <=> i <= n + 1
        BY <1>1, <2>4, <4>1
      <4> QED
        BY <1>2, <2>1, <4>1, <4>2
    <3>2. CASE ~\E i \in DOMAIN ops : ops[i].id = w
      BY <1>2, <2>1, <3>2
    <3> QED
      BY <3>1, <3>2
  <2>5. U(n)[z] = st[z] /\ U(n + 1)[z] = left(n + 1)
    <3>1. ~(n + 1 <= n) /\ n + 1 <= n + 1
      OBVIOUS
    <3> QED
      BY <1>2, <2>1, <2>3, <3>1
  <2>6. ~Held(U(n), z)
    BY <2>3, <2>5 DEF Held
  <2> HIDE DEF op, z
  <2>7. Typed(U(n + 1), k)
    <3>1. k # z
      BY <2>2, <2>6 DEF Typed
    <3> QED
      BY <2>2, <2>4, <3>1 DEF Typed, Held
  <2>8. ASSUME NEW w \in Between(x, k), Typed(U(n + 1), w) PROVE FALSE
    <3>1. w \in Iris /\ ~Typed(U(n), w)
      BY <2>2, <2>8, BetweenType
    <3>2. w = z
      BY <2>4, <2>8, <3>1 DEF Typed, Held
    <3>3. op.kind = TypeOfTypes
      BY <1>3, <2>1, <2>5, <2>8, <3>2 DEF Typed, op
    <3>4. SitsFree(U(n), z)
      BY <2>3, <3>3
    <3>5. SitsUnder(z, k) /\ Between(z, k) \subseteq Between(x, k) /\ SitsUnder(x, z)
      BY <2>8, <3>2, BetweenNests
    <3>6. Nearest(U(n), z) = k
      BY <2>2, <2>3, <3>5, NearestIs
    <3>7. \A v \in WaitingOn(U(n)) : ~NearestWas(U(n), v[2].target, z)
      BY <3>4, <3>6, NoIriAssumption, Zenon DEF SitsFree
    <3>8. U(n)[y] = st[y] /\ U(n)[x] = st[x]
      <4>1. \A i \in 1..n : ops[i].id # y /\ ops[i].id # x
        BY <1>1, <2>1
      <4> QED
        BY <1>5, <2>1, <4>1
    <3>9. <<y, link>> \in WaitingOn(U(n))
      <4>1. link \in LinksOf(U(n), y)
        BY <3>8 DEF LinksOf
      <4>2. ~Held(U(n), link.target)
        BY <3>8 DEF Held
      <4> QED
        BY <4>1, <4>2 DEF WaitingOn
    <3>10. Between(x, z) \subseteq Between(x, k)
      BY <2>8, <3>2, BetweenNearer
    <3>11. NearestWas(U(n), x, z)
      BY <2>2, <2>3, <3>5, <3>10, NearestWasIs
    <3> QED
      BY <3>7, <3>9, <3>11
  <2> QED
    BY <2>2, <2>7, <2>8, NearestIs
<1> HIDE DEF T
<1>8. m \in T
  BY <1>1, <1>6, <1>7, EveryNumber
<1> QED
  BY <1>1, <1>8 DEF T, U

(* A set landed as first drafted makes no type.                            *)
LEMMA LandingMakesNoType ==
  ASSUME BelongInv, NEW c \in Calls, NEW port \in Seq(PortChange), Passes(c, port),
         DraftedBefore(c, port), NEW z \in Iris, Typed(artifacts', z)
  PROVE  Typed(artifacts, z)
<1>1. \A i \in DOMAIN set[c] : set[c][i].op # "import"
  BY LandingIs DEF BelongInv
<1>2. ASSUME ~Held(artifacts, z) PROVE FALSE
  <2>1. PICK i \in DOMAIN port :
          /\ port[i].change.id = z /\ artifacts'[z] = port[i].change.left
          /\ port[i].change.op \in {"create", "import"}
          /\ i \in DOMAIN set[c] /\ set[c][i].op = port[i].change.op
    BY <1>2, LandingKinds DEF Typed
  <2>2. port[i].change.op = "create"
    BY <1>1, <2>1
  <2>3. Guarded(port)
    BY DEF DraftedBefore, BelongInv, SitedOn
  <2> QED
    BY <2>1, <2>2, <2>3 DEF Guarded, Typed
<1> QED
  BY <1>2, LandingKinds DEF Typed

(* What a landing changes leaves its links landing, or waiting as they     *)
(* may: a link to an IRI not held is under the type it was handed under,   *)
(* for nothing was defined between them (_vouched).                        *)
LEMMA ChangedLinks ==
  ASSUME LinkedAsTypes(Sets), CheckInv,
         NEW c \in Calls, NEW port \in Seq(PortChange), Passes(c, port),
         DraftedBefore(c, port) \/ DraftedNow(c, port),
         NEW y \in Iris, Held(artifacts', y), \E i \in DOMAIN port : port[i].change.id = y,
         NEW link \in LinksOf(artifacts', y)
  PROVE  MayLand(artifacts', link)
<1>0. ReadInv /\ BelongInv /\ StampInv /\ TypeInv
  BY DEF CheckInv, ReadInv, BelongInv, StampInv
<1>1. /\ artifacts \in Stores /\ set[c] \in Sets /\ DOMAIN Bare(port) = DOMAIN port
      /\ \A i \in DOMAIN port : Bare(port)[i] = port[i].change
      /\ DraftedNow(c, port) => Bare(port) = Drafted(artifacts, set[c])
      /\ DraftedBefore(c, port) => \A i \in DOMAIN set[c] : set[c][i].op # "import"
  BY <1>0, LandingIs
<1>2. PICK i \in DOMAIN port :
        /\ port[i].change.id = y /\ artifacts'[y] = port[i].change.left /\ port[i].change \in Change
        /\ port[i].change.op = "delete" => port[i].change.left = Nothing
  BY <1>0, LandingAt
<1>3. port[i].change.op # "delete"
  BY <1>2 DEF Held, Nothing
<1>4. PICK j \in DOMAIN port[i].change.left.links : link = port[i].change.left.links[j]
  BY <1>2 DEF LinksOf
<1>5. CASE DraftedNow(c, port)
  <2> DEFINE changes == Drafted(artifacts, set[c])
  <2>1. Accepts(artifacts, set[c]) /\ artifacts' = Put(artifacts, changes)
        /\ i \in DOMAIN changes /\ changes[i] = port[i].change
    BY <1>1, <1>5 DEF DraftedNow, Passes
  <2>2. Fits(Put(artifacts, changes), changes[i])
    BY <1>3, <2>1, Zenon DEF Accepts
  <2>3. LinkLands(artifacts', link) \/ KeepsWaiting(artifacts', link)
    BY <1>4, <2>1, <2>2 DEF Fits, Unlanded
  <2> QED
    BY <2>3 DEF LinkLands, KeepsWaiting, MayLand
<1>6. CASE DraftedBefore(c, port)
  <2> DEFINE x == link.target
             u == port[i].unders[j]
  <2>1. LandsIn(artifacts', WaitedBefore(artifacts, port), port[i], j)
    BY <1>2, <1>3, <1>4, LandingChecked DEF AllLand
  <2>2. CASE Held(artifacts', x)
    BY <1>4, <2>1, <2>2 DEF LandsIn, MayLand
  <2>3. CASE ~Held(artifacts', x)
    <3>1. u \in Kinds[link.field] /\ Held(artifacts', u)
      BY <1>4, <2>1, <2>3 DEF LandsIn, Vouched
    <3>2. link \in Link
      <4>1. port[i].change.left.links \in Seq(Link)
        BY <1>2 DEF Change, Artifact
      <4> QED
        BY <1>4, <4>1, ElementOfSeq
    <3>3. x \in Iris /\ u \in Iris
      BY <3>1, <3>2, KindsAssumption DEF Link
    <3>4. VouchesFor(port, i, x, u)
      BY <1>4, <1>6, <3>3 DEF DraftedBefore, CheckInv, CheckingOn, Vouching
    <3>5. Typed(artifacts', u)
      <4>1. OnlyLinked(artifacts') /\ LinkedTyped(artifacts')
        BY LandingLinked
      <4> QED
        BY <3>1, <4>1 DEF OnlyLinked, LinkedTyped
    <3> HIDE DEF x, u
    <3>6. ASSUME NEW z \in Between(x, u), Typed(artifacts', z) PROVE FALSE
      <4>1. z \in Iris
        BY <3>3, <3>6, BetweenType
      <4>2. CASE z \notin Changed(Bare(port))
        <5>1. <<z, 0>> \in port[i].through
          BY <3>4, <3>6, <4>2 DEF VouchesFor
        <5>2. \A p \in port[i].through : artifacts[p[1]].revision = p[2]
          BY Zenon DEF Passes, Moved
        <5>3. artifacts'[z] = artifacts[z]
          BY <4>1, <4>2, PutUntouched DEF Passes, Changed
        <5> QED
          BY <3>6, <5>1, <5>2, <5>3 DEF Typed, Held
      <4>3. CASE z \in Changed(Bare(port))
        <5>1. \E k \in DOMAIN port : port[k].change.id = z
          BY <1>1, <4>3 DEF Changed
        <5>2. PICK k \in DOMAIN port :
                /\ port[k].change.id = z /\ artifacts'[z] = port[k].change.left
                /\ port[k].change \in Change
                /\ k \in DOMAIN set[c] /\ set[c][k].op = port[k].change.op
                /\ port[k].change.op = "delete" => port[k].change.left = Nothing
          BY <1>0, <4>1, <5>1, LandingAt
        <5>3. port[k].change.op # "delete"
          BY <3>6, <5>2 DEF Typed, Held, Nothing
        <5>4. port[k].change.op # "create"
          <6>1. Guarded(port)
            BY <1>0, <1>6 DEF DraftedBefore, BelongInv, SitedOn
          <6> QED
            BY <3>6, <5>2, <6>1 DEF Guarded, Typed
        <5>5. port[k].change.op = "write"
          BY <1>1, <1>6, <5>2, <5>3, <5>4 DEF Change
        <5> QED
          BY <3>4, <3>6, <4>3, <5>2, <5>5 DEF VouchesFor, Typed
      <4> QED
        BY <4>2, <4>3
    <3>7. SitsUnder(x, u)
      BY <3>4 DEF VouchesFor
    <3>8. Nearest(artifacts', x) = u
      BY <3>3, <3>5, <3>6, <3>7, NearestIs
    <3> QED
      BY <2>3, <3>1, <3>8 DEF MayLand, x, u
  <2> QED
    BY <2>2, <2>3
<1> QED
  BY <1>5, <1>6

(* A link waiting on an IRI goes on belonging to the type it did, or what  *)
(* is made there is of that type, where a set landed as first drafted: it  *)
(* makes no type, and removes none a link may be under.                    *)
LEMMA WaitsBefore ==
  ASSUME CheckInv, NEW c \in Calls, NEW port \in Seq(PortChange), Passes(c, port),
         DraftedBefore(c, port),
         NEW x \in Iris, ~Held(artifacts, x), NEW k \in LinkedIn(Sets), Nearest(artifacts, x) = k
  PROVE  IF Held(artifacts', x) THEN artifacts'[x].kind = k ELSE Nearest(artifacts', x) = k
<1>0. BelongInv /\ StampInv /\ TypeInv
  BY DEF CheckInv, ReadInv, BelongInv, StampInv
<1>1. \A i \in DOMAIN set[c] : set[c][i].op # "import"
  BY <1>0, LandingIs
<1>2. k \in Iris
  BY DEF LinkedIn
<1>3. SitsUnder(x, k) /\ Typed(artifacts, k) /\ \A z \in Between(x, k) : ~Typed(artifacts, z)
  BY <1>2, NearestIs
<1>4. Typed(artifacts', k)
  <2>1. Held(artifacts', k)
    <3>1. ASSUME ~Held(artifacts', k) PROVE FALSE
      <4>1. artifacts'[k] # artifacts[k]
        BY <1>3, <3>1 DEF Typed, Held
      <4>2. PICK i \in DOMAIN port :
              /\ port[i].change.id = k /\ artifacts'[k] = port[i].change.left
              /\ i \in DOMAIN set[c] /\ set[c][i].op = port[i].change.op /\ set[c][i].id = k
              /\ \A j \in DOMAIN port : port[j].change.id = k => j = i
        BY <1>0, <1>2, <4>1, LandingAt
      <4>3. PICK j \in DOMAIN set[c] : set[c][j].op = "delete" /\ set[c][j].id = k
        BY <1>0, <1>2, <1>3, <3>1, LandingKinds DEF Typed
      <4>4. i = j
        BY <1>0, <4>2, <4>3, LandingIs, OnceAssumption
      <4>5. port[i].change.op = "delete"
        BY <4>2, <4>3, <4>4
      <4> QED
        BY <4>2, <4>5 DEF DraftedBefore, CheckInv, CheckingOn
    <3> QED
      BY <3>1
  <2> QED
    BY <1>0, <1>2, <1>3, <2>1, LandingKinds DEF Typed
<1>5. \A z \in Between(x, k) : ~Typed(artifacts', z)
  BY <1>0, <1>3, LandingMakesNoType, BetweenType
<1>6. Nearest(artifacts', x) = k
  BY <1>2, <1>3, <1>4, <1>5, NearestIs
<1>7. ASSUME Held(artifacts', x) PROVE artifacts'[x].kind = k
  <2>1. artifacts'[x].kind # TypeOfTypes
    <3>1. ~Typed(artifacts, x)
      BY DEF Typed
    <3> QED
      BY <1>0, <1>7, <3>1, LandingMakesNoType DEF Typed
  <2>2. Belongs(artifacts')
    BY <1>0, LandingBelongs
  <2> QED
    BY <1>6, <1>7, <2>1, <2>2 DEF Belongs
<1> QED
  BY <1>6, <1>7

(* And where its set was drafted anew under the lock: what is removed      *)
(* leaves no link waiting under it (standing.in_the_way), and what is made *)
(* comes no nearer to what a link waits on than the type that was.         *)
LEMMA WaitsNow ==
  ASSUME CheckInv, NEW c \in Calls, NEW port \in Seq(PortChange), Passes(c, port),
         DraftedNow(c, port),
         NEW y \in Iris, \A i \in DOMAIN port : port[i].change.id # y,
         NEW link \in LinksOf(artifacts, y), NEW x \in Iris, x = link.target,
         ~Held(artifacts, x), NEW k \in Iris, Nearest(artifacts, x) = k
  PROVE  IF Held(artifacts', x) THEN artifacts'[x].kind = k ELSE Nearest(artifacts', x) = k
<1> DEFINE ops == set[c]
           N == Len(ops)
           changes == Drafted(artifacts, ops)
           U(n) == Upto(artifacts, ops, n)
<1>0. BelongInv /\ StampInv /\ TypeInv
  BY DEF CheckInv, ReadInv, BelongInv, StampInv
<1>1. /\ artifacts \in Stores /\ ops \in Sets /\ DOMAIN Bare(port) = DOMAIN port
      /\ \A i \in DOMAIN port : Bare(port)[i] = port[i].change
      /\ Bare(port) = changes
  BY <1>0, LandingIs
<1>2. /\ DOMAIN ops = 1..N /\ N \in Nat /\ DOMAIN changes = 1..N
      /\ \A i \in DOMAIN ops : /\ ops[i] \in Operation /\ ops[i].id \in Iris
                               /\ changes[i].op = ops[i].op /\ changes[i].id = ops[i].id
      /\ \A i, j \in DOMAIN ops : ops[i].op = ops[j].op
      /\ \A i, j \in DOMAIN ops : ops[i].id = ops[j].id => i = j
  BY <1>1, SetType, OneKindAssumption, OnceAssumption
<1>3. /\ Accepts(artifacts, ops) /\ Examined(artifacts, ops)
      /\ artifacts' = Put(artifacts, changes) /\ artifacts' = U(N)
  BY <1>1, UptoWhole DEF DraftedNow, Passes
<1>4. SitsUnder(x, k) /\ Typed(artifacts, k) /\ \A z \in Between(x, k) : ~Typed(artifacts, z)
  BY NearestIs
<1>5. \A i \in DOMAIN ops : ops[i].id # y
  BY <1>1, <1>2
<1>6. artifacts'[y] = artifacts[y]
  BY <1>0, LandingAt
<1>7. Between(x, k) \subseteq Iris
  BY BetweenType
<1> HIDE DEF changes, U, N
<1>8. CASE \A i \in DOMAIN ops : ops[i].op \in {"write", "delete"}
  <2>1. ASSUME NEW z \in Iris, Held(artifacts', z)
        PROVE  Held(artifacts, z) /\ artifacts'[z].kind = artifacts[z].kind
    <3>1. Held(artifacts, z)
      BY <1>0, <1>8, <2>1, LandingKinds
    <3> QED
      BY <1>0, <2>1, <3>1, LandingKinds
  <2>2. ~Held(artifacts', x)
    BY <2>1
  <2>3. \A z \in Between(x, k) : ~Typed(artifacts', z)
    BY <1>4, <1>7, <2>1 DEF Typed
  <2>4. Held(artifacts', k)
    <3>1. ASSUME ~Held(artifacts', k) PROVE FALSE
      <4>1. PICK i \in DOMAIN ops : ops[i].op = "delete" /\ ops[i].id = k
        BY <1>0, <1>4, <3>1, LandingKinds DEF Typed
      <4>2. changes[i].op = "delete" /\ changes[i].id = k /\ changes[i].was = artifacts[k].kind
            /\ i \in DOMAIN changes
        BY <1>2, <4>1 DEF Drafted, changes
      <4>3. Freed(artifacts', changes[i])
        BY <1>3, <4>2, Zenon DEF Accepts, changes
      <4>4. \A w \in WaitingOn(artifacts') : ~NearestWas(artifacts', w[2].target, k)
        BY <1>4, <4>2, <4>3 DEF Freed, Typed
      <4>5. <<y, link>> \in WaitingOn(artifacts')
        <5>1. link \in LinksOf(artifacts', y)
          BY <1>6 DEF LinksOf
        <5> QED
          BY <2>2, <5>1 DEF WaitingOn
      <4>6. NearestWas(artifacts', x, k)
        BY <1>4, <2>3, NearestWasIs
      <4> QED
        BY <4>4, <4>5, <4>6
    <3> QED
      BY <3>1
  <2>5. Typed(artifacts', k)
    BY <1>4, <2>1, <2>4 DEF Typed
  <2> QED
    BY <1>4, <2>2, <2>3, <2>5, NearestIs
<1>9. CASE \A i \in DOMAIN ops : ops[i].op \in {"create", "import"}
  <2>1. ASSUME NEW m \in 0..N, \A i \in 1..m : ops[i].id # x PROVE Nearest(U(m), x) = k
    BY <1>1, <1>3, <1>5, <1>9, <2>1, GrowthStays DEF N, U
  <2>2. CASE \A i \in DOMAIN ops : ops[i].id # x
    <3>1. artifacts'[x] = artifacts[x]
      <4>1. N \in 0..N
        BY <1>2
      <4> QED
        BY <1>1, <1>3, <2>2, <4>1, UptoAt DEF U, N
    <3>2. Nearest(artifacts', x) = k
      BY <1>2, <1>3, <2>1, <2>2
    <3> QED
      BY <3>1, <3>2 DEF Held
  <2>3. CASE \E i \in DOMAIN ops : ops[i].id = x
    <3>1. PICK i \in DOMAIN ops : ops[i].id = x
      BY <2>3
    <3> DEFINE before == U(i - 1)
    <3>2. /\ i - 1 \in 0..N /\ N \in 0..N
          /\ \A l \in DOMAIN ops : l <= i - 1 => l <= N /\ l # i
          /\ \A l \in 1..(i - 1) : l \in DOMAIN ops /\ l # i
      BY <1>2
    <3>3. Nearest(before, x) = k
      <4>1. \A l \in 1..(i - 1) : ops[l].id # x
        BY <1>2, <3>1, <3>2
      <4> QED
        BY <2>1, <3>2, <4>1
    <3>4. SitsUnder(x, k) /\ Typed(before, k) /\ \A z \in Between(x, k) : ~Typed(before, z)
      BY <3>3, NearestIs
    <3>5. \A n \in 0..N, z \in Iris :
            /\ \A l \in DOMAIN ops : ops[l].id = z => U(n)[z] = IF l <= n THEN changes[l].left ELSE artifacts[z]
            /\ (\A l \in DOMAIN ops : ops[l].id # z) => U(n)[z] = artifacts[z]
      BY <1>1, UptoAt DEF U, N, changes
    <3>6. \A l \in DOMAIN ops : ~Held(artifacts, ops[l].id)
      <4> SUFFICES ASSUME NEW l \in DOMAIN ops PROVE ~Held(artifacts, ops[l].id)
        OBVIOUS
      <4>1. CASE ops[l].op = "create"
        BY <1>1, <1>3, <4>1, DraftActs
      <4>2. CASE ops[l].op = "import"
        BY <1>3, <4>2, Zenon DEF Examined
      <4> QED
        BY <1>9, <4>1, <4>2
    <3>7. /\ changes[i].left.kind = ops[i].kind /\ changes[i].left.revision # 0
          /\ artifacts'[x] = changes[i].left
      <4>1. i <= N
        BY <1>2
      <4> QED
        BY <1>1, <1>3, <1>9, <3>1, <3>2, <3>5, <4>1, DraftLeaves DEF changes
    <3>8. before[y] = artifacts[y] /\ before[x] = artifacts[x]
      <4>1. ~(i <= i - 1)
        BY <1>2
      <4> QED
        BY <1>5, <3>1, <3>2, <3>5, <4>1
    <3>9. Typed(artifacts', k)
      <4>1. CASE \E l \in DOMAIN ops : ops[l].id = k
        <5>1. PICK l \in DOMAIN ops : ops[l].id = k
          BY <4>1
        <5> QED
          BY <1>4, <3>6, <5>1 DEF Typed
      <4>2. CASE ~\E l \in DOMAIN ops : ops[l].id = k
        <5>1. artifacts'[k] = artifacts[k]
          BY <1>3, <3>2, <3>5, <4>2
        <5> QED
          BY <1>4, <5>1 DEF Typed, Held
      <4> QED
        BY <4>1, <4>2
    <3> HIDE DEF before
    <3>10. CASE ops[i].kind = TypeOfTypes
      <4>1. SitsFree(before, x)
        <5>1. CASE ops[i].op = "create"
          <6>1. Identity(U(i - 1), ops[i])
            BY <1>1, <1>3, <5>1, DraftActs DEF U
          <6> QED
            BY <3>1, <3>10, <6>1 DEF Identity, before
        <5>2. CASE ops[i].op = "import"
          BY <1>3, <3>1, <3>10, <5>2, Zenon DEF Examined, Upto, before, U
        <5> QED
          BY <1>9, <5>1, <5>2
      <4>2. <<y, link>> \in WaitingOn(before)
        <5>1. link \in LinksOf(before, y) /\ ~Held(before, x)
          BY <3>8 DEF LinksOf, Held
        <5> QED
          BY <5>1 DEF WaitingOn
      <4>3. k = TypeOfTypes
        <5>1. \A w \in WaitingOn(before) : w[2].target = x => k = TypeOfTypes
          BY <3>3, <4>1, NoIriAssumption, Zenon DEF SitsFree
        <5> QED
          BY <4>2, <5>1
      <4> QED
        BY <3>7, <3>10, <4>3 DEF Held
    <3>11. CASE ops[i].kind # TypeOfTypes
      <4> DEFINE t == ops[i].kind
      <4>1. Held(artifacts', x) /\ artifacts'[x].kind = t /\ t \in Iris
        <5>1. t # NoIri /\ t \in Iris \cup {NoIri}
          BY <1>1, <1>2, <1>9, GivenAssumption DEF Operation
        <5> QED
          BY <3>7, <5>1 DEF Held
      <4>2. Nearest(artifacts', x) = t
        <5>1. Belongs(artifacts')
          BY <1>0, LandingBelongs
        <5> QED
          BY <3>11, <4>1, <5>1 DEF Belongs
      <4>3. SitsUnder(x, t) /\ \A z \in Between(x, t) : ~Typed(artifacts', z)
        BY <4>1, <4>2, NearestIs
      <4>4. Typed(before, t)
        <5>1. Acts(Put(artifacts, SubSeq(changes, 1, i - 1)), ops[i])
          BY <1>3, Zenon DEF Accepts, changes
        <5>2. KeptVersion(before, <<t, ops[i].version>>)
          BY <1>9, <5>1 DEF Acts, before, U, Upto, changes
        <5> QED
          BY <5>2 DEF KeptVersion
      <4> HIDE DEF t
      <4>5. t \notin Between(x, k) /\ k \notin Between(x, t)
        BY <3>4, <3>9, <4>3, <4>4
      <4>6. t = k
        BY <1>4, <4>1, <4>3, <4>5, OneNearer
      <4> QED
        BY <4>1, <4>6
    <3> QED
      BY <3>10, <3>11
  <2> QED
    BY <2>2, <2>3
<1>10. (\A i \in DOMAIN ops : ops[i].op \in {"write", "delete"})
       \/ (\A i \in DOMAIN ops : ops[i].op \in {"create", "import"})
  <2>1. \A i \in DOMAIN ops : ops[i].op \in {"create", "write", "delete", "import"}
    BY <1>2 DEF Operation
  <2> QED
    BY <1>2, <2>1
<1> QED
  BY <1>8, <1>9, <1>10

(* Every link held after a landing may land where it does.                 *)
LEMMA LandingFits ==
  ASSUME LinkedAsTypes(Sets), CheckInv,
         NEW c \in Calls, NEW port \in Seq(PortChange), Passes(c, port),
         DraftedBefore(c, port) \/ DraftedNow(c, port)
  PROVE  LinksFit(artifacts')
<1> SUFFICES ASSUME NEW y \in Iris, Held(artifacts', y), NEW link \in LinksOf(artifacts', y)
             PROVE  MayLand(artifacts', link)
  BY DEF LinksFit
<1>0. BelongInv /\ StampInv /\ TypeInv
  BY DEF CheckInv, ReadInv, BelongInv, StampInv
<1>1. CASE \E i \in DOMAIN port : port[i].change.id = y
  BY <1>1, ChangedLinks
<1>2. CASE \A i \in DOMAIN port : port[i].change.id # y
  <2> DEFINE x == link.target
  <2>1. artifacts'[y] = artifacts[y]
    BY <1>0, <1>2, LandingAt
  <2>2. link \in LinksOf(artifacts, y) /\ Held(artifacts, y)
    BY <2>1 DEF LinksOf, Held
  <2>3. MayLand(artifacts, link)
    BY <2>2 DEF CheckInv, LinksFit
  <2>4. link \in Link
    <3>1. artifacts[y].links \in Seq(Link)
      BY <1>0, LandingIs DEF Stores, Artifact
    <3> QED
      BY <2>2, <3>1, ElementOfSeq DEF LinksOf
  <2>5. x \in Iris /\ Kinds[link.field] \in SUBSET Iris
    BY <2>4, KindsAssumption DEF Link
  <2>6. Kinds[link.field] \subseteq LinkedIn(Sets)
    BY <2>2 DEF CheckInv, OnlyLinked
  <2>7. CASE Held(artifacts, x)
    <3>1. Held(artifacts', x)
      <4>1. ASSUME ~Held(artifacts', x) PROVE FALSE
        <5>1. artifacts'[x] # artifacts[x]
          BY <2>7, <4>1 DEF Held
        <5>2. \E i \in DOMAIN port : port[i].change.id = x
          BY <1>0, <2>5, <5>1, LandingAt
        <5>3. x \in {port[i].change.id : i \in DOMAIN port} /\ y \notin {port[i].change.id : i \in DOMAIN port}
          BY <1>2, <5>2
        <5>4. <<y, link>> \in LinksIn(artifacts', x)
          BY DEF LinksIn
        <5>5. NoneLinked(artifacts, artifacts', port)
          BY LandingChecked
        <5>6. \A l \in LinksIn(artifacts', x) :
                l[1] \in {port[i].change.id : i \in DOMAIN port} \/ Held(artifacts', x)
          BY <2>7, <5>3, <5>5, Zenon DEF NoneLinked
        <5> QED
          BY <4>1, <5>3, <5>4, <5>6
      <4> QED
        BY <4>1
    <3>2. artifacts'[x].kind = artifacts[x].kind
      BY <1>0, <2>5, <2>7, <3>1, LandingKinds
    <3> QED
      BY <2>3, <2>7, <3>1, <3>2 DEF MayLand
  <2>8. CASE ~Held(artifacts, x)
    <3> DEFINE k == Nearest(artifacts, x)
    <3>1. k \in Kinds[link.field]
      BY <2>3, <2>8 DEF MayLand
    <3>2. k \in Iris /\ k \in LinkedIn(Sets)
      BY <2>5, <2>6, <3>1
    <3>3. IF Held(artifacts', x) THEN artifacts'[x].kind = k ELSE Nearest(artifacts', x) = k
      <4> HIDE DEF x
      <4>1. CASE DraftedBefore(c, port)
        BY <2>5, <2>8, <3>2, <4>1, WaitsBefore
      <4>2. CASE DraftedNow(c, port)
        BY <1>2, <2>2, <2>5, <2>8, <3>2, <4>2, WaitsNow DEF x
      <4> QED
        BY <4>1, <4>2
    <3> QED
      BY <3>1, <3>3 DEF MayLand
  <2> QED
    BY <2>7, <2>8
<1> QED
  BY <1>1, <1>2

-----------------------------------------------------------------------------
(* The invariant holds of the store the history starts from.               *)
LEMMA ChecksStart ==
  ReadAsTypes(Sets) /\ LinkedAsTypes(Sets) /\ RemovedCounted(Sets) /\ Init => CheckInv
<1> SUFFICES ASSUME ReadAsTypes(Sets), LinkedAsTypes(Sets), RemovedCounted(Sets), Init PROVE CheckInv
  OBVIOUS
<1>1. ReadInv
  BY ReadsStart
<1>2. artifacts = Before /\ artifacts \in Stores
  BY BeforeAssumption DEF Init, Stores
<1>3. LinksFit(artifacts) /\ VersionsHeld(artifacts)
  BY <1>2, BeforeAssumption, NothingFound
<1>4. LinkedTyped(artifacts)
  BY <1>2 DEF LinkedTyped, LinkedAsTypes, MadeAsTypes
<1>5. OnlyLinked(artifacts)
  <2> SUFFICES ASSUME NEW y \in Iris, NEW link \in LinksOf(artifacts, y)
               PROVE  Kinds[link.field] \subseteq LinkedIn(Sets)
    BY DEF OnlyLinked
  <2>1. link \in Link
    <3>1. artifacts[y].links \in Seq(Link)
      BY <1>2 DEF Stores, Artifact
    <3> QED
      BY <3>1, ElementOfSeq DEF LinksOf
  <2>2. Kinds[link.field] \in SUBSET Iris
    BY <2>1, KindsAssumption DEF Link
  <2> QED
    BY <1>2, <2>2 DEF LinkedIn
<1>6. RemovedCount(artifacts)
  BY <1>2 DEF RemovedCount, RemovedCounted, RemovedIn
<1>7. \A c \in Calls : CheckingOn(c)
  BY DEF Init, CheckingOn
<1> QED
  BY <1>1, <1>3, <1>4, <1>5, <1>6, <1>7 DEF CheckInv

(* And every step keeps it.                                                *)
LEMMA ChecksNext ==
  /\ ReplacedStays(Sets) /\ ReadStays(Sets) /\ ReadAsTypes(Sets)
  /\ LinkedAsTypes(Sets) /\ RemovedCounted(Sets) /\ CheckInv /\ [Next]_vars
  => CheckInv'
<1> SUFFICES ASSUME ReplacedStays(Sets), ReadStays(Sets), ReadAsTypes(Sets),
                    LinkedAsTypes(Sets), RemovedCounted(Sets), CheckInv, [Next]_vars
             PROVE  CheckInv'
  OBVIOUS
<1>0. ReadInv /\ BelongInv /\ StampInv /\ TypeInv /\ ReadInv'
  BY ReadsNext DEF CheckInv, ReadInv, BelongInv, StampInv
<1>s. artifacts \in Stores
  BY <1>0 DEF TypeInv, TypeOK, Stores
<1>1. /\ LinksFit(artifacts') /\ VersionsHeld(artifacts') /\ LinkedTyped(artifacts')
      /\ OnlyLinked(artifacts') /\ RemovedCount(artifacts')
  <2>1. CASE artifacts' = artifacts
    BY <2>1 DEF CheckInv
  <2>2. CASE artifacts' # artifacts
    <3>1. PICK c \in Calls, port \in Seq(PortChange) :
            Passes(c, port) /\ (DraftedBefore(c, port) \/ DraftedNow(c, port))
      BY <1>0, <2>2, LandStep DEF DraftedBefore, DraftedNow
    <3> QED
      BY <3>1, LandingFits, LandingConforms, LandingLinked, LandingCounts
  <2> QED
    BY <2>1, <2>2
<1>2. ASSUME NEW d \in Calls PROVE CheckingOn(d)'
  <2>o. CheckingOn(d) /\ OnItsWay(d) /\ StampedOn(d)
    BY <1>0 DEF CheckInv, TypeInv, StampInv
  <2>e. ASSUME at'[d] \notin {"hand", "land"} PROVE CheckingOn(d)'
    BY <2>e DEF CheckingOn
  (* What d drafted it goes on with, whatever lands meanwhile.             *)
  <2>s. ASSUME at'[d] = at[d], judged'[d] = judged[d], handed'[d] = handed[d] PROVE CheckingOn(d)'
    <3>1. ASSUME at[d] = "hand", NEW i \in DOMAIN judged[d].changes, judged[d].changes[i].op # "delete"
          PROVE  ConformsBy(artifacts', judged[d].changes, i, judged[d].types)
      BY <1>0, <2>o, <3>1, ConformsStays DEF CheckingOn
    <3>2. ASSUME at[d] = "land", NEW i \in DOMAIN handed[d], handed[d][i].change.op # "delete"
          PROVE  ConformsBy(artifacts', Bare(handed[d]), i, handed[d][i].through)
      BY <1>0, <2>o, <3>2, ConformsStays DEF CheckingOn
    <3>3. Bare(handed'[d]) = Bare(handed[d]) /\ (Vouching(handed[d]) => Vouching(handed'[d]))
      BY <2>s
    <3> QED
      BY <2>o, <2>s, <3>1, <3>2, <3>3 DEF CheckingOn
  <2>1. ASSUME NEW c \in Calls, Judges(c), c = d PROVE CheckingOn(d)'
    <3>1. CASE Accepts(artifacts, set[c])
      <4> DEFINE changes == Drafted(artifacts, set[c])
      <4>1. set[c] \in Sets /\ artifacts' = artifacts /\ at'[c] = "hand"
            /\ judged'[c].changes = changes /\ judged'[c].types = TypesRead(artifacts, changes)
        BY <1>0, <2>o, <2>1, <3>1 DEF Judges, OnItsWay, Draft, TypeInv, TypeOK
      <4>2. \A i \in DOMAIN changes : changes[i].op # "delete" =>
              ConformsBy(artifacts, changes, i, TypesRead(artifacts, changes))
        BY <1>0, <1>s, <3>1, <4>1, DraftConforms DEF CheckInv, BelongInv
      <4>3. ASSUME NEW i \in DOMAIN changes, changes[i].op = "delete", changes[i].id \in LinkedIn(Sets)
            PROVE  changes[i].was = TypeOfTypes
        <5>1. /\ i \in DOMAIN set[c] /\ set[c][i].op = "delete" /\ set[c][i].id = changes[i].id
              /\ changes[i].was = artifacts[changes[i].id].kind
          BY <1>s, <4>1, <4>3, SetType DEF Drafted
        <5>2. Held(artifacts, changes[i].id)
          BY <1>s, <3>1, <4>1, <5>1, DraftActs
        <5> QED
          BY <4>3, <5>1, <5>2 DEF CheckInv, LinkedTyped, Typed
      <4> HIDE DEF changes
      <4> QED
        BY <2>1, <4>1, <4>2, <4>3 DEF CheckingOn
    <3>2. CASE ~Accepts(artifacts, set[c])
      BY <1>0, <2>1, <2>e, <3>2 DEF Judges, Ends, TypeInv, TypeOK
    <3> QED
      BY <3>1, <3>2
  <2>2. ASSUME NEW c \in Calls, Hands(c), c = d, at'[c] = "land" PROVE CheckingOn(d)'
    <3> DEFINE port == Handed(artifacts, judged[c])
               changes == judged[c].changes
    <3>1. ~Locked(artifacts, judged[c]) /\ handed'[c] = port /\ artifacts' = artifacts /\ at[c] = "hand"
      BY <1>0, <2>2 DEF Hands, Ends, TypeInv, TypeOK
    <3>2. changes \in Seq(Change) /\ Stamped(changes) /\ FollowsSet(changes, set[c]) /\ set[c] \in Sets
      BY <1>0, <2>2, <2>o, <3>1 DEF StampedOn, OnItsWay, TypeInv, TypeOK
    <3>3. \A i, k \in DOMAIN changes : changes[i].id = changes[k].id => i = k
      <4>1. DOMAIN changes = DOMAIN set[c]
        <5>1. set[c] \in Seq(Operation)
          BY <3>2, SetsAssumption
        <5> QED
          BY <3>2, <5>1 DEF FollowsSet
      <4> QED
        BY <3>2, <4>1, OnceAssumption DEF FollowsSet
    <3>4. Vouching(port)
      BY <1>s, <3>1, <3>2, <3>3, HandedVouches
    <3>5. /\ DOMAIN port = DOMAIN changes
          /\ \A i \in DOMAIN changes : port[i].change = changes[i]
      BY HandedIs
    <3>6. ASSUME NEW i \in DOMAIN changes, changes[i].op # "delete"
          PROVE  ConformsBy(artifacts, Bare(port), i, port[i].through)
      <4>1. ConformsBy(artifacts, changes, i, judged[c].types)
        BY <2>2, <2>o, <3>1, <3>6 DEF CheckingOn
      <4> QED
        BY <1>s, <3>2, <3>6, <4>1, HandedConforms
    <3>7. ASSUME NEW i \in DOMAIN changes, changes[i].op = "delete", changes[i].id \in LinkedIn(Sets)
          PROVE  FALSE
      <4>1. changes[i].was = TypeOfTypes
        BY <2>2, <2>o, <3>1, <3>7 DEF CheckingOn
      <4> QED
        BY <3>1, <3>7, <4>1 DEF Locked
    <3> HIDE DEF port
    <3> QED
      BY <2>2, <3>1, <3>4, <3>5, <3>6, <3>7 DEF CheckingOn
  <2>3. ASSUME NEW c \in Calls, Asks(c) \/ Lands(c) \/ LandsUnderLock(c), c = d
        PROVE  at'[d] \notin {"hand", "land"}
    BY <1>0, <2>3 DEF Asks, Lands, LandsUnderLock, Ends, TypeInv, TypeOK
  <2>4. ASSUME NEW c \in Calls, Asks(c) \/ Judges(c) \/ Hands(c) \/ Lands(c) \/ LandsUnderLock(c), c # d
        PROVE  at'[d] = at[d] /\ judged'[d] = judged[d] /\ handed'[d] = handed[d]
    BY <1>0, <2>4 DEF Asks, Judges, Hands, Lands, LandsUnderLock, Ends, TypeInv, TypeOK
  <2>5. ASSUME NEW c \in Calls, Hands(c), c = d, at'[c] # "land" PROVE at'[d] \notin {"hand", "land"}
    BY <1>0, <2>5 DEF Hands, Ends, TypeInv, TypeOK
  <2>6. CASE UNCHANGED vars
    BY <2>6, <2>s DEF vars
  <2> QED
    BY <2>e, <2>s, <2>1, <2>2, <2>3, <2>4, <2>5, <2>6 DEF Next
<1> QED
  BY <1>0, <1>1, <1>2 DEF CheckInv

(* The check of the whole store finds nothing, whatever sets landed while  *)
(* others were drafted, handed and landed: every artifact conforms to a    *)
(* version of its type that is kept, and every link lands or waits as it   *)
(* may (check.everything); where what is replaced is not removed, what     *)
(* types read is removed by none or under the lock, nothing but types is   *)
(* made where a type is read or a link may land, and the types that are    *)
(* removed are told by their revisions.                                    *)
THEOREM NothingToFind ==
  ReplacedStays(Sets) /\ ReadStays(Sets) /\ ReadAsTypes(Sets)
  /\ LinkedAsTypes(Sets) /\ RemovedCounted(Sets)
  => (Spec => []CheckFindsNothing)
<1> SUFFICES ASSUME ReplacedStays(Sets), ReadStays(Sets), ReadAsTypes(Sets),
                    LinkedAsTypes(Sets), RemovedCounted(Sets)
             PROVE  Spec => []CheckFindsNothing
  OBVIOUS
<1>1. Init => CheckInv
  BY ChecksStart
<1>2. CheckInv /\ [Next]_vars => CheckInv'
  BY ChecksNext
<1>3. CheckInv => CheckFindsNothing
  <2> SUFFICES ASSUME CheckInv PROVE CheckFindsNothing
    OBVIOUS
  <2>1. artifacts \in Stores
    BY DEF CheckInv, ReadInv, BelongInv, StampInv, TypeInv, TypeOK, Stores
  <2> QED
    BY <2>1, NothingFound DEF CheckInv, CheckFindsNothing
<1> QED
  BY <1>1, <1>2, <1>3, PTL DEF Spec

-----------------------------------------------------------------------------
(* A set landed as drafted is one its draft would accept there and then.   *)
(* Of what a call drafted: it removes what was held; a version it makes of *)
(* a type reads no version of that type; and a version its artifact is     *)
(* moved to is no earlier than the one it conforms to, while it stands as  *)
(* it was read, and is kept where the set itself replaces its type later.  *)

Moving(st, changes, ops) ==
  \A i \in DOMAIN changes :
    /\ changes[i].op = "delete" => changes[i].read # 0
    /\ changes[i].op = "write" /\ changes[i].left.kind = TypeOfTypes =>
         \A v \in MadeReads(changes[i].left) : v[1] # changes[i].id
    /\ changes[i].op = "write" /\ ops[i].version # 0 =>
         /\ changes[i].read = st[changes[i].id].revision =>
              st[changes[i].id].version <= ops[i].version
         /\ \A j \in DOMAIN changes : i <= j /\ changes[j].id = changes[i].left.kind =>
              KeptVersion(st, Conforming(changes[i].left))

MovingOn(c) ==
  /\ at[c] = "hand" => Moving(artifacts, judged[c].changes, set[c])
  /\ at[c] = "land" => Moving(artifacts, Bare(handed[c]), set[c])

(* What is not held is nothing.                                            *)
Cleared(st) == \A x \in Iris : ~Held(st, x) => st[x] = Nothing

AcceptInv == CheckInv /\ Cleared(artifacts) /\ \A c \in Calls : MovingOn(c)

(* What a replacement leaves conforms to the version it names.             *)
LEMMA RevisedMoves ==
  ASSUME NEW st \in Stores, NEW op \in Operation, op.op = "write", op.version # 0
  PROVE  Conforming(Made(st, op)) = <<st[op.id].kind, op.version>>
<1>1. st[op.id] \in Artifact /\ Made(st, op) = Revised(st[op.id], op)
  BY DEF Stores, Operation, Made
<1>2. Revised(st[op.id], op).kind = st[op.id].kind /\ Revised(st[op.id], op).version = op.version
  BY <1>1 DEF Revised, Artifact
<1> QED
  BY <1>1, <1>2 DEF Conforming

(* A draft over the store as it stands moves its artifacts as it may.      *)
LEMMA DraftMoves ==
  ASSUME NEW st \in Stores, NEW ops \in Sets, Accepts(st, ops),
         NEW changes, changes = Drafted(st, ops)
  PROVE  Moving(st, changes, ops)
<1>1. /\ ops \in Seq(Operation) /\ DOMAIN ops = 1..Len(ops) /\ Len(ops) \in Nat
      /\ DOMAIN changes = DOMAIN ops
      /\ \A i \in DOMAIN ops : /\ ops[i] \in Operation /\ ops[i].id \in Iris
                               /\ changes[i].op = ops[i].op /\ changes[i].id = ops[i].id
  BY SetType
<1> SUFFICES ASSUME NEW i \in DOMAIN ops
             PROVE
    /\ changes[i].op = "delete" => changes[i].read # 0
    /\ changes[i].op = "write" /\ changes[i].left.kind = TypeOfTypes =>
         \A v \in MadeReads(changes[i].left) : v[1] # changes[i].id
    /\ changes[i].op = "write" /\ ops[i].version # 0 =>
         /\ changes[i].read = st[changes[i].id].revision =>
              st[changes[i].id].version <= ops[i].version
         /\ \A j \in DOMAIN changes : i <= j /\ changes[j].id = changes[i].left.kind =>
              KeptVersion(st, Conforming(changes[i].left))
  BY <1>1 DEF Moving
<1> DEFINE before == Upto(st, ops, i - 1)
           x == ops[i].id
<1>2. ASSUME ops[i].op = "delete" PROVE changes[i].read # 0
  <2>1. LeftBefore(st, ops, i)[x] = st[x]
    <3>1. \A j \in 1..(i - 1) : ops[j].id # x
      BY <1>1, OnceAssumption
    <3> QED
      BY <1>1, <3>1, LeftUntouched
  <2>2. changes[i].read = ReadAt(st, ops, i)
    BY DEF Drafted
  <2>3. Held(st, x)
    BY <1>2, DraftActs
  <2> QED
    BY <1>2, <2>1, <2>2, <2>3 DEF ReadAt, Held
<1>3. ASSUME ops[i].op = "write", changes[i].left.kind = TypeOfTypes
      PROVE  \A v \in MadeReads(changes[i].left) : v[1] # changes[i].id
  <2>1. changes[i].op # "delete"
    BY <1>1, <1>3
  <2>2. Fits(Put(st, changes), changes[i])
    BY <1>1, <2>1, Zenon DEF Accepts
  <2>3. ShapesHeld(Put(st, changes), changes[i])
    BY <1>3, <2>2, Zenon DEF Fits
  <2> QED
    BY <2>3 DEF ShapesHeld
<1>4. ASSUME ops[i].op = "write", ops[i].version # 0
      PROVE  /\ st[x].version <= ops[i].version
             /\ \A j \in DOMAIN changes : i <= j /\ changes[j].id = changes[i].left.kind =>
                  KeptVersion(st, Conforming(changes[i].left))
  <2>1. before[x] = st[x]
    BY DraftActs
  <2>2. Acts(before, ops[i])
    BY Zenon DEF Accepts, Upto
  <2> HIDE DEF before
  <2>3. ops[i].version >= st[x].version /\ KeptVersion(before, <<st[x].kind, ops[i].version>>)
    BY <1>4, <2>1, <2>2 DEF Acts, MovesTo
  <2>4. st[x].version \in Nat /\ ops[i].version \in Nat
    BY <1>1 DEF Stores, Artifact, Operation
  <2>5. Conforming(changes[i].left) = <<st[x].kind, ops[i].version>>
    BY <1>1, <1>4, DraftMakes, RevisedMoves
  <2>6. changes[i].left.kind = st[x].kind
    BY <2>5 DEF Conforming
  <2>7. ASSUME NEW j \in DOMAIN changes, i <= j, changes[j].id = changes[i].left.kind
        PROVE  KeptVersion(st, Conforming(changes[i].left))
    <3> DEFINE t == st[x].kind
    <3>1. j \in DOMAIN ops /\ ops[j].id = t /\ t \in Iris /\ ~(j <= i - 1) /\ i - 1 \in 0..Len(ops)
      BY <1>1, <2>6, <2>7
    <3>2. before[t] = st[t]
      BY <3>1, UptoAt DEF before
    <3>3. KeptVersion(st, <<t, ops[i].version>>)
      BY <2>3, <3>2, KeptWhere
    <3> QED
      BY <2>5, <3>3
  <2> QED
    BY <2>3, <2>4, <2>7
<1> QED
  BY <1>1, <1>2, <1>3, <1>4

(* What a call drafted goes on as it was judged, whatever else lands.      *)
LEMMA MovingStays ==
  ASSUME ReplacedStays(Sets), ReadInv, [Next]_vars,
         NEW changes \in Seq(Change), NEW ops \in Sets, FollowsSet(changes, ops), Keeps(changes),
         Rises(artifacts, changes), Moving(artifacts, changes, ops)
  PROVE  Moving(artifacts', changes, ops)
<1>1. /\ DOMAIN changes = DOMAIN ops
      /\ \A i \in DOMAIN changes : /\ changes[i] \in Change /\ changes[i].id \in Iris
                                   /\ changes[i].read \in Nat
                                   /\ ops[i].op = changes[i].op /\ ops[i].id = changes[i].id
  <2>1. ops \in Seq(Operation)
    BY SetsAssumption
  <2>2. DOMAIN changes = DOMAIN ops
    BY <2>1 DEF FollowsSet
  <2>3. \A i \in DOMAIN changes : changes[i] \in Change
    BY ElementOfSeq
  <2> QED
    BY <2>1, <2>2, <2>3 DEF FollowsSet, Change
<1> SUFFICES ASSUME NEW i \in DOMAIN changes, changes[i].op = "write", ops[i].version # 0
             PROVE
         /\ changes[i].read = artifacts'[changes[i].id].revision =>
              artifacts'[changes[i].id].version <= ops[i].version
         /\ \A j \in DOMAIN changes : i <= j /\ changes[j].id = changes[i].left.kind =>
              KeptVersion(artifacts', Conforming(changes[i].left))
  BY DEF Moving
<1> DEFINE x == changes[i].id
           v == Conforming(changes[i].left)
<1>2. /\ x \in Iris /\ Held(artifacts, x) /\ changes[i].read \in Nat
      /\ changes[i].read <= artifacts[x].revision /\ ops[i].op = "write" /\ ops[i].id = x
      /\ i \in DOMAIN ops
  BY <1>1 DEF Keeps, Rises
<1>3. /\ changes[i].read = artifacts[x].revision => artifacts[x].version <= ops[i].version
      /\ \A j \in DOMAIN changes : i <= j /\ changes[j].id = changes[i].left.kind =>
           KeptVersion(artifacts, v)
  BY DEF Moving
<1>4. ASSUME changes[i].read = artifacts'[x].revision PROVE artifacts'[x].version <= ops[i].version
  <2> HIDE DEF x
  <2>1. artifacts'[x] = artifacts[x]
    BY <1>2, <1>4, ReplacedRises
  <2> QED
    BY <1>3, <1>4, <2>1
<1>5. ASSUME NEW j \in DOMAIN changes, i <= j, changes[j].id = changes[i].left.kind
      PROVE  KeptVersion(artifacts', v)
  <2>1. v[1] = changes[j].id /\ v[1] \in Iris
    BY <1>1, <1>5 DEF Conforming
  <2>2. j \in DOMAIN ops /\ ops[j].op = "write" /\ ops[j].id = v[1]
    BY <1>1, <1>2, <1>5, <2>1, OneKindAssumption
  <2>3. KeptVersion(artifacts, v)
    BY <1>3, <1>5
  <2> HIDE DEF v
  <2> QED
    BY <2>1, <2>2, <2>3, ReplacedKept
<1> QED
  BY <1>4, <1>5

(* A landing leaves nothing of what it removes, no link and no part.       *)
LEMMA LandingClears ==
  ASSUME ReadInv, Cleared(artifacts), NEW c \in Calls, NEW port \in Seq(PortChange), Passes(c, port),
         DraftedBefore(c, port) \/ DraftedNow(c, port)
  PROVE  Cleared(artifacts')
<1>0. BelongInv /\ StampInv /\ TypeInv /\ artifacts \in Stores
  BY DEF ReadInv, BelongInv, StampInv, TypeInv, TypeOK, Stores
<1> SUFFICES ASSUME NEW x \in Iris, ~Held(artifacts', x) PROVE artifacts'[x] = Nothing
  BY DEF Cleared
<1>1. CASE artifacts'[x] = artifacts[x]
  BY <1>1 DEF Cleared, Held
<1>2. CASE artifacts'[x] # artifacts[x]
  <2>1. PICK i \in DOMAIN set[c] :
          /\ set[c][i].id = x /\ set[c][i] \in Operation /\ set[c] \in Sets
          /\ artifacts'[x] = Made(artifacts, set[c][i])
    BY <1>2, LandingMakes
  <2>2. set[c][i].op # "write"
    <3>1. artifacts[x].revision \in Nat
      BY <1>0 DEF Stores, Artifact
    <3>2. set[c][i].op = "write" => artifacts'[x].revision = artifacts[x].revision + 1
      BY <1>0, <2>1, MadeVersions
    <3> QED
      BY <3>1, <3>2 DEF Held
  <2>3. set[c][i].op \notin {"create", "import"}
    <3>1. Made(artifacts, set[c][i]) = Drafted(artifacts, set[c])[i].left
      BY <1>0, <2>1, DraftMakes
    <3>2. set[c][i].op \in {"create", "import"} => Drafted(artifacts, set[c])[i].left.revision # 0
      BY <1>0, <2>1, DraftLeaves
    <3> QED
      BY <2>1, <3>1, <3>2 DEF Held
  <2>4. artifacts'[x] = Nothing
    BY <2>1, <2>2, <2>3 DEF Operation, Made
  <2> QED
    BY <2>4
<1> QED
  BY <1>1, <1>2

-----------------------------------------------------------------------------
(* Drafted anew over the store it lands on, a set landed as first drafted  *)
(* leaves what it did: each change finds its artifact as it was read.      *)
LEMMA LandingDrafts ==
  ASSUME ReadInv, NEW c \in Calls, NEW port \in Seq(PortChange), Passes(c, port),
         DraftedBefore(c, port), NEW ops, ops = set[c], NEW changes, changes = Drafted(artifacts, ops)
  PROVE  /\ ops \in Sets /\ DOMAIN ops = 1..Len(ops) /\ Len(ops) \in Nat
         /\ DOMAIN changes = DOMAIN ops /\ DOMAIN port = DOMAIN ops
         /\ \A i \in DOMAIN ops :
              /\ ops[i] \in Operation /\ ops[i].id \in Iris /\ ops[i].op # "import"
              /\ port[i].change \in Change /\ port[i].change.read = artifacts[ops[i].id].revision
              /\ port[i].change.op = ops[i].op /\ port[i].change.id = ops[i].id
              /\ changes[i].op = ops[i].op /\ changes[i].id = ops[i].id
              /\ changes[i].left = port[i].change.left /\ changes[i].left = Made(artifacts, ops[i])
              /\ artifacts'[ops[i].id] = changes[i].left
         /\ artifacts' = Put(artifacts, changes)
<1>0. BelongInv /\ StampInv
  BY DEF ReadInv, BelongInv
<1>1. /\ artifacts \in Stores /\ ops \in Sets /\ TypeInv /\ DOMAIN Bare(port) = DOMAIN port
      /\ \A i \in DOMAIN port : Bare(port)[i] = port[i].change
      /\ \A i \in DOMAIN ops : ops[i].op # "import"
  BY <1>0, LandingIs
<1>2. /\ ops \in Seq(Operation) /\ DOMAIN ops = 1..Len(ops) /\ Len(ops) \in Nat
      /\ DOMAIN changes = DOMAIN ops /\ changes \in Seq(Change)
      /\ \A i \in DOMAIN ops : /\ ops[i] \in Operation /\ ops[i].id \in Iris
                               /\ changes[i].op = ops[i].op /\ changes[i].id = ops[i].id
  BY <1>1, SetType
<1>3. /\ DOMAIN port = DOMAIN ops
      /\ \A i \in DOMAIN ops : port[i].change.op = ops[i].op /\ port[i].change.id = ops[i].id
  <2>1. FollowsSet(Bare(port), ops) /\ Len(Bare(port)) = Len(port)
    BY BareType DEF Passes
  <2>2. DOMAIN port = DOMAIN ops
    BY <1>2, <2>1 DEF FollowsSet
  <2> QED
    BY <1>1, <2>1, <2>2 DEF FollowsSet
<1>4. ASSUME NEW i \in DOMAIN ops
      PROVE  /\ port[i].change \in Change /\ port[i].change.read = artifacts[ops[i].id].revision
             /\ changes[i].left = port[i].change.left /\ changes[i].left = Made(artifacts, ops[i])
             /\ artifacts'[ops[i].id] = changes[i].left
  <2>1. PICK k \in DOMAIN port :
          /\ port[k].change.id = ops[i].id /\ artifacts'[ops[i].id] = port[k].change.left
          /\ port[k].change \in Change
          /\ \A j \in DOMAIN port : port[j].change.id = ops[i].id => j = k
    BY <1>1, <1>2, <1>3, LandingAt
  <2>2. k = i
    BY <1>3, <2>1
  <2>3. port[i].change.read = artifacts[ops[i].id].revision
    BY <1>1, <1>3, <2>1, <2>2, FindsRead
  <2>4. port[i].change.left = Made(artifacts, ops[i])
    <3>1. AsMade(artifacts, Bare(port), ops)
      BY DEF DraftedBefore, ReadInv, ReadingOn
    <3> QED
      BY <1>1, <1>3, <2>3, <3>1 DEF AsMade
  <2>5. changes[i].left = Made(artifacts, ops[i])
    BY <1>1, DraftMakes
  <2> QED
    BY <2>1, <2>2, <2>3, <2>4, <2>5
<1>5. artifacts' = Put(artifacts, changes)
  <2>1. ASSUME NEW y \in Iris PROVE artifacts'[y] = Upto(artifacts, ops, Len(ops))[y]
    <3>0. Len(ops) \in 0..Len(ops)
      BY <1>2
    <3>1. CASE \E i \in DOMAIN ops : ops[i].id = y
      <4>1. PICK i \in DOMAIN ops : ops[i].id = y
        BY <3>1
      <4>2. Upto(artifacts, ops, Len(ops))[y] = changes[i].left
        <5>1. i <= Len(ops)
          BY <1>2
        <5> QED
          BY <1>1, <3>0, <4>1, <5>1, UptoAt
      <4> QED
        BY <1>4, <4>1, <4>2
    <3>2. CASE ~\E i \in DOMAIN ops : ops[i].id = y
      <4>1. Upto(artifacts, ops, Len(ops))[y] = artifacts[y]
        BY <1>1, <3>0, <3>2, UptoAt
      <4>2. artifacts'[y] = artifacts[y]
        BY <1>1, <1>3, <3>2, LandingAt
      <4> QED
        BY <4>1, <4>2
    <3> QED
      BY <3>1, <3>2
  <2>2. Upto(artifacts, ops, Len(ops)) = Put(artifacts, changes)
    BY <1>1, UptoWhole
  <2> QED
    BY <2>1, <2>2 DEF Passes, Put
<1> QED
  BY <1>1, <1>2, <1>3, <1>4, <1>5

(* And each operation can act on what those before it leave.               *)
LEMMA LandingActs ==
  ASSUME AcceptInv, NEW c \in Calls, NEW port \in Seq(PortChange), Passes(c, port),
         DraftedBefore(c, port), NEW ops, ops = set[c], NEW i \in DOMAIN ops
  PROVE  Acts(Upto(artifacts, ops, i - 1), ops[i])
<1> DEFINE changes == Drafted(artifacts, ops)
           before == Upto(artifacts, ops, i - 1)
           x == ops[i].id
           left == changes[i].left
           v == Conforming(left)
<1>0. CheckInv /\ ReadInv /\ BelongInv /\ StampInv /\ TypeInv /\ artifacts \in Stores
  BY DEF AcceptInv, CheckInv, ReadInv, BelongInv, StampInv, TypeInv, TypeOK, Stores
<1>1. /\ ops \in Sets /\ DOMAIN ops = 1..Len(ops) /\ Len(ops) \in Nat
      /\ DOMAIN changes = DOMAIN ops /\ DOMAIN port = DOMAIN ops
      /\ \A j \in DOMAIN ops :
           /\ ops[j] \in Operation /\ ops[j].id \in Iris /\ ops[j].op # "import"
           /\ port[j].change \in Change /\ port[j].change.read = artifacts[ops[j].id].revision
           /\ port[j].change.op = ops[j].op /\ port[j].change.id = ops[j].id
           /\ changes[j].left = port[j].change.left /\ changes[j].left = Made(artifacts, ops[j])
           /\ artifacts'[ops[j].id] = changes[j].left
  BY <1>0, LandingDrafts
<1>2. /\ DOMAIN Bare(port) = DOMAIN port /\ \A j \in DOMAIN port : Bare(port)[j] = port[j].change
      /\ Stamped(Bare(port))
  BY <1>0, LandingIs
<1>3. Keeps(Bare(port)) /\ Guarded(port) /\ Moving(artifacts, Bare(port), ops)
  BY DEF DraftedBefore, AcceptInv, MovingOn, CheckInv, ReadInv, BelongInv, SitedOn
<1>4. \A j, k \in DOMAIN ops : ops[j].op = ops[k].op /\ (ops[j].id = ops[k].id => j = k)
  BY <1>1, OneKindAssumption, OnceAssumption
<1> HIDE DEF changes
<1>5. /\ i - 1 \in 0..Len(ops) /\ ~(i <= i - 1)
      /\ \A y \in Iris, j \in DOMAIN ops : ops[j].id = y =>
           before[y] = IF j <= i - 1 THEN changes[j].left ELSE artifacts[y]
      /\ \A y \in Iris : (\A j \in DOMAIN ops : ops[j].id # y) => before[y] = artifacts[y]
  <2>1. i - 1 \in 0..Len(ops) /\ ~(i <= i - 1)
    BY <1>1
  <2>2. \A y \in Iris :
          /\ \A j \in DOMAIN ops : ops[j].id = y =>
               before[y] = IF j <= i - 1 THEN Drafted(artifacts, ops)[j].left ELSE artifacts[y]
          /\ (\A j \in DOMAIN ops : ops[j].id # y) => before[y] = artifacts[y]
    BY <1>0, <1>1, <2>1, UptoAt
  <2> HIDE DEF before
  <2> QED
    BY <2>1, <2>2 DEF changes
<1> HIDE DEF before
<1>6. before[x] = artifacts[x] /\ (Held(before, x) <=> Held(artifacts, x))
  BY <1>1, <1>5 DEF Held
<1>7. \A y \in Iris : before[y] = artifacts[y] \/ before[y] = artifacts'[y]
  BY <1>1, <1>5
<1>8. \A y \in Iris : (\A j \in DOMAIN ops : ops[j].id # y) => artifacts'[y] = artifacts[y]
  BY <1>0, <1>1, LandingAt
<1>9. ASSUME ops[i].op # "delete" PROVE KeptVersion(artifacts', v) /\ Held(artifacts', x)
  <2>1. left.revision # 0
    <3>1. ops[i].op \in {"create", "write"}
      BY <1>1, <1>9 DEF Operation
    <3>2. port[i].change.read \in Nat
      BY <1>1 DEF Change
    <3> QED
      BY <1>1, <1>2, <3>1, <3>2 DEF Stamped
  <2>2. Held(artifacts', x) /\ artifacts'[x] = left
    BY <1>1, <2>1 DEF Held
  <2>3. VersionsHeld(artifacts')
    BY <1>0, LandingConforms
  <2> QED
    BY <1>1, <2>2, <2>3 DEF VersionsHeld
<1>10. CASE ops[i].op = "delete"
  <2>1. Held(artifacts, x)
    BY <1>1, <1>2, <1>3, <1>10 DEF Moving, Held
  <2> QED
    BY <1>6, <1>10, <2>1 DEF Acts, before
<1>11. CASE ops[i].op = "create"
  <2> DEFINE t == ops[i].kind
  <2>1. t \in Iris /\ left.kind = t /\ v = <<t, ops[i].version>>
    <3>1. t \in Iris
      BY <1>1, <1>11, GivenAssumption DEF Operation
    <3>2. left.kind = t /\ left.version = ops[i].version
      <4>1. left = Made(artifacts, ops[i])
        BY <1>1
      <4> HIDE DEF left
      <4> QED
        BY <1>1, <1>11, <4>1 DEF Made, Brought, Operation
    <3> QED
      BY <3>1, <3>2 DEF Conforming
  <2>2. t # TypeOfTypes
    BY <1>1, <1>3, <1>11, <2>1 DEF Guarded
  <2>3. KeptVersion(artifacts', <<t, ops[i].version>>) /\ Held(artifacts', x) /\ artifacts'[x].kind = t
    BY <1>1, <1>9, <1>11, <2>1
  <2>4. \A j \in DOMAIN ops : ~Held(artifacts, ops[j].id)
    BY <1>1, <1>2, <1>4, <1>11 DEF Stamped, Held
  <2>5. ASSUME NEW y \in Iris, ~Typed(artifacts', y) PROVE ~Typed(before, y)
    <3>1. CASE \E j \in DOMAIN ops : ops[j].id = y
      BY <1>7, <2>4, <2>5, <3>1 DEF Typed, Held
    <3>2. CASE \A j \in DOMAIN ops : ops[j].id # y
      BY <1>7, <1>8, <2>5, <3>2 DEF Typed, Held
    <3> QED
      BY <3>1, <3>2
  <2> HIDE DEF t
  <2>6. before[t] = artifacts'[t]
    <3>1. Typed(artifacts', t)
      BY <2>3 DEF KeptVersion
    <3>2. Typed(artifacts, t)
      BY <1>0, <2>1, <3>1, LandingMakesNoType
    <3>3. \A j \in DOMAIN ops : ops[j].id # t
      BY <2>4, <3>2 DEF Typed
    <3> QED
      BY <1>7, <1>8, <2>1, <3>3
  <2>7. KeptVersion(before, <<t, ops[i].version>>)
    BY <2>3, <2>6, KeptWhere
  <2>8. Nearest(before, x) = t
    <3>1. Belongs(artifacts')
      BY <1>0, LandingBelongs
    <3>2. Nearest(artifacts', x) = t
      BY <1>1, <2>2, <2>3, <3>1 DEF Belongs, t
    <3>3. SitsUnder(x, t) /\ \A z \in Between(x, t) : ~Typed(artifacts', z)
      BY <1>1, <2>1, <3>2, NearestIs
    <3>4. Between(x, t) \subseteq Iris
      BY <1>1, BetweenType
    <3>5. Typed(before, t)
      BY <2>7 DEF KeptVersion
    <3> QED
      BY <1>1, <2>1, <2>5, <3>3, <3>4, <3>5, NearestIs
  <2>9. Identity(before, ops[i])
    BY <1>6, <2>2, <2>4, <2>8 DEF Identity, t
  <2> QED
    BY <1>11, <2>7, <2>9 DEF Acts, t, before
<1>12. CASE ops[i].op = "write"
  <2>1. Held(artifacts, x)
    BY <1>1, <1>2, <1>3, <1>12 DEF Keeps
  <2>2. ASSUME ops[i].version # 0 PROVE MovesTo(before, x, ops[i].version)
    <3> DEFINE t == artifacts[x].kind
    <3>1. v = <<t, ops[i].version>> /\ left.kind = t
      <4>1. v = <<t, ops[i].version>>
        BY <1>0, <1>1, <1>12, <2>2, RevisedMoves
      <4> QED
        BY <4>1 DEF Conforming
    <3>2. /\ artifacts[x].version <= ops[i].version
          /\ \A j \in DOMAIN ops : i <= j /\ ops[j].id = t => KeptVersion(artifacts, v)
      <4>1. /\ i \in DOMAIN Bare(port) /\ Bare(port)[i] = port[i].change /\ DOMAIN Bare(port) = DOMAIN ops
            /\ \A j \in DOMAIN ops : Bare(port)[j].id = ops[j].id
        BY <1>1, <1>2
      <4>2. Bare(port)[i].op = "write" /\ Bare(port)[i].left = left /\ Bare(port)[i].id = x
            /\ Bare(port)[i].read = artifacts[x].revision
        BY <1>1, <1>12, <4>1
      <4> HIDE DEF left, x, t
      <4>3. /\ artifacts[x].version <= ops[i].version
            /\ \A j \in DOMAIN ops : i <= j /\ Bare(port)[j].id = left.kind => KeptVersion(artifacts, v)
        BY <1>3, <2>2, <4>1, <4>2 DEF Moving
      <4> QED
        BY <3>1, <4>1, <4>3
    <3>3. artifacts[x].version \in Nat /\ ops[i].version \in Nat
      BY <1>0, <1>1 DEF Stores, Artifact, Operation
    <3>4. KeptVersion(artifacts', v)
      BY <1>9, <1>12
    <3>5. t \in Iris
      <4>1. artifacts[x].kind \in Iris \cup {NoIri}
        BY <1>0, <1>1 DEF Stores, Artifact
      <4> QED
        BY <1>0, <1>1, <2>1, <4>1, NoIriAssumption DEF BelongInv, Belongs
    <3>6. KeptVersion(before, <<t, ops[i].version>>)
      <4> HIDE DEF t, v
      <4>1. CASE \E j \in DOMAIN ops : j <= i - 1 /\ ops[j].id = t
        <5>1. before[t] = artifacts'[t]
          BY <1>1, <1>5, <3>5, <4>1
        <5> QED
          BY <3>1, <3>4, <5>1, KeptWhere
      <4>2. CASE \E j \in DOMAIN ops : ~(j <= i - 1) /\ ops[j].id = t
        <5>1. PICK j \in DOMAIN ops : ~(j <= i - 1) /\ ops[j].id = t
          BY <4>2
        <5>2. i <= j
          BY <1>1, <5>1
        <5>3. before[t] = artifacts[t]
          BY <1>5, <3>5, <5>1
        <5> QED
          BY <3>1, <3>2, <5>1, <5>2, <5>3, KeptWhere
      <4>3. CASE \A j \in DOMAIN ops : ops[j].id # t
        <5>1. before[t] = artifacts'[t]
          BY <1>7, <1>8, <3>5, <4>3
        <5> QED
          BY <3>1, <3>4, <5>1, KeptWhere
      <4> QED
        BY <4>1, <4>2, <4>3
    <3>7. before[x].kind = t /\ before[x].version = artifacts[x].version
      BY <1>6
    <3> QED
      BY <3>2, <3>3, <3>6, <3>7 DEF MovesTo
  <2> QED
    BY <1>6, <1>12, <2>1, <2>2 DEF Acts, before
<1> QED
  BY <1>1, <1>10, <1>11, <1>12 DEF Operation, before

(* What it leaves fits its type: its version is kept, its links land or    *)
(* waited before, and what a new version of a type reads is kept (_lands). *)
LEMMA LandingSuits ==
  ASSUME LinkedAsTypes(Sets), AcceptInv, NEW c \in Calls, NEW port \in Seq(PortChange), Passes(c, port),
         DraftedBefore(c, port), NEW ops, ops = set[c], NEW changes, changes = Drafted(artifacts, ops),
         NEW i \in DOMAIN ops, ops[i].op # "delete"
  PROVE  Fits(artifacts', changes[i])
<1> DEFINE x == ops[i].id
           left == changes[i].left
<1>0. CheckInv /\ ReadInv /\ BelongInv /\ StampInv /\ TypeInv /\ artifacts \in Stores
  BY DEF AcceptInv, CheckInv, ReadInv, BelongInv, StampInv, TypeInv, TypeOK, Stores
<1>1. /\ ops \in Sets /\ DOMAIN changes = DOMAIN ops /\ DOMAIN port = DOMAIN ops
      /\ \A j \in DOMAIN ops :
           /\ ops[j] \in Operation /\ ops[j].id \in Iris /\ ops[j].op # "import"
           /\ port[j].change \in Change /\ port[j].change.read = artifacts[ops[j].id].revision
           /\ port[j].change.op = ops[j].op /\ port[j].change.id = ops[j].id
           /\ changes[j].op = ops[j].op /\ changes[j].id = ops[j].id
           /\ changes[j].left = port[j].change.left
           /\ artifacts'[ops[j].id] = changes[j].left
  BY <1>0, LandingDrafts
<1>2. /\ DOMAIN Bare(port) = DOMAIN port /\ \A j \in DOMAIN port : Bare(port)[j] = port[j].change
      /\ Stamped(Bare(port)) /\ artifacts' = Put(artifacts, Bare(port))
  BY <1>0, LandingIs DEF Passes
<1>3. /\ ReadsKept(artifacts, Bare(port), ops) /\ Guarded(port) /\ Moving(artifacts, Bare(port), ops)
  BY DEF DraftedBefore, AcceptInv, MovingOn, CheckInv, ReadInv, ReadingOn, BelongInv, SitedOn
<1>4. AllLand(artifacts, artifacts', port)
  BY LandingChecked
<1>5. changes[i].waited = HeldWaiting(artifacts, x)
  BY <1>1 DEF Drafted
<1>6. Held(artifacts', x) /\ artifacts'[x] = left
  <2>1. ops[i].op \in {"create", "write"}
    BY <1>1 DEF Operation
  <2>2. port[i].change.read \in Nat
    BY <1>1 DEF Change
  <2>3. left.revision # 0
    BY <1>1, <1>2, <2>1, <2>2 DEF Stamped
  <2> QED
    BY <1>1, <2>3 DEF Held
<1> HIDE DEF left
<1>7. KeptVersion(artifacts', Conforming(left))
  <2>1. VersionsHeld(artifacts')
    BY <1>0, LandingConforms
  <2> QED
    BY <1>1, <1>6, <2>1 DEF VersionsHeld
<1>8. Unlanded(artifacts', left, changes[i].waited, changes[i].op = "import") = {}
  <2> SUFFICES ASSUME NEW j \in DOMAIN left.links
               PROVE  \/ LinkLands(artifacts', left.links[j])
                      \/ /\ Told(left.links)[j] \in HeldWaiting(artifacts, x)
                         /\ KeepsWaiting(artifacts', left.links[j])
    BY <1>5 DEF Unlanded
  <2> DEFINE link == left.links[j]
  <2>1. port[i].change.left = left
    BY <1>1 DEF left
  <2>2. LandsIn(artifacts', WaitedBefore(artifacts, port), port[i], j)
    BY <1>1, <1>4, <2>1 DEF AllLand
  <2>3. WaitedBefore(artifacts, port)[x] = HeldWaiting(artifacts, x)
    BY <1>1 DEF WaitedBefore
  <2>4. CASE ~Held(artifacts', link.target)
    <3>1. link \in LinksOf(artifacts', x)
      BY <1>6 DEF LinksOf
    <3>2. \E k \in DOMAIN port : port[k].change.id = x
      BY <1>1
    <3>3. MayLand(artifacts', link)
      BY <1>0, <1>1, <1>6, <3>1, <3>2, ChangedLinks
    <3> QED
      BY <2>4, <3>3 DEF MayLand, LinkLands
  <2>5. CASE Held(artifacts', link.target)
    <3>1. /\ artifacts'[link.target].kind \in Kinds[link.field]
          /\ \/ ~Waits(artifacts', link)
             \/ Told(left.links)[j] \in WaitedBefore(artifacts, port)[x]
      BY <1>1, <2>1, <2>2, <2>5 DEF LandsIn
    <3> QED
      BY <2>3, <2>5, <3>1 DEF LinkLands, KeepsWaiting
  <2> QED
    BY <2>4, <2>5
<1>9. ASSUME left.kind = TypeOfTypes PROVE ShapesHeld(artifacts', changes[i])
  <2>1. /\ i \in DOMAIN Bare(port) /\ Bare(port)[i].op = ops[i].op /\ Bare(port)[i].id = x
        /\ Bare(port)[i].left = left
    BY <1>1, <1>2 DEF left
  <2>2. ops[i].op = "write"
    <3>1. ops[i].op # "create"
      BY <1>1, <1>3, <1>9 DEF Guarded, left
    <3> QED
      BY <1>1, <3>1 DEF Operation
  <2>3. \A v \in MadeReads(left) : v[1] # x /\ KeptVersion(artifacts', v)
    BY <1>2, <1>3, <1>9, <2>1, <2>2 DEF Moving, ReadsKept
  <2> QED
    BY <1>1, <2>3 DEF ShapesHeld, left
<1> QED
  BY <1>7, <1>8, <1>9 DEF Fits, left

(* What it removes leaves no link to it and no version that reads it, for  *)
(* no type it removes is one that another may read or a link may be under. *)
LEMMA LandingFrees ==
  ASSUME LinkedAsTypes(Sets), ReadAsTypes(Sets), AcceptInv,
         NEW c \in Calls, NEW port \in Seq(PortChange), Passes(c, port),
         DraftedBefore(c, port), NEW ops, ops = set[c], NEW changes, changes = Drafted(artifacts, ops),
         NEW i \in DOMAIN ops, ops[i].op = "delete"
  PROVE  Freed(artifacts', changes[i])
<1> DEFINE x == ops[i].id
           changed == {port[k].change.id : k \in DOMAIN port}
<1>0. CheckInv /\ ReadInv /\ BelongInv /\ StampInv /\ TypeInv /\ artifacts \in Stores
  BY DEF AcceptInv, CheckInv, ReadInv, BelongInv, StampInv, TypeInv, TypeOK, Stores
<1>1. /\ ops \in Sets /\ DOMAIN changes = DOMAIN ops /\ DOMAIN port = DOMAIN ops
      /\ \A j \in DOMAIN ops :
           /\ ops[j] \in Operation /\ ops[j].id \in Iris
           /\ port[j].change.read = artifacts[ops[j].id].revision
           /\ port[j].change.op = ops[j].op /\ port[j].change.id = ops[j].id
           /\ changes[j].op = ops[j].op /\ changes[j].id = ops[j].id
           /\ changes[j].left = Made(artifacts, ops[j])
           /\ artifacts'[ops[j].id] = changes[j].left
  BY <1>0, LandingDrafts
<1>2. DOMAIN Bare(port) = DOMAIN port /\ \A j \in DOMAIN port : Bare(port)[j] = port[j].change
  BY <1>0, LandingIs
<1>3. /\ x \notin ReadIn(Sets) /\ Moving(artifacts, Bare(port), ops)
      /\ \A j \in DOMAIN ops : ops[j].id \notin LinkedIn(Sets)
  <2>1. \A j \in DOMAIN ops : ops[j].op = "delete"
    BY <1>1, OneKindAssumption
  <2>2. /\ Moving(artifacts, Bare(port), ops)
        /\ \A j \in DOMAIN Bare(port) : Bare(port)[j].op = "delete" => Bare(port)[j].id \notin ReadIn(Sets)
        /\ \A j \in DOMAIN port : port[j].change.op = "delete" => port[j].change.id \notin LinkedIn(Sets)
    BY DEF DraftedBefore, AcceptInv, MovingOn, CheckInv, CheckingOn, ReadInv, ReadingOn
  <2> QED
    BY <1>1, <1>2, <2>1, <2>2
<1>4. \A j \in DOMAIN ops : artifacts'[ops[j].id] = Nothing
  <2>1. \A j \in DOMAIN ops : ops[j].op = "delete"
    BY <1>1, OneKindAssumption
  <2> QED
    BY <1>1, <2>1 DEF Made
<1>5. \A y \in Iris : y \in changed => artifacts'[y] = Nothing /\ LinksOf(artifacts', y) = {}
  <2> SUFFICES ASSUME NEW y \in Iris, y \in changed
               PROVE  artifacts'[y] = Nothing /\ LinksOf(artifacts', y) = {}
    OBVIOUS
  <2>1. artifacts'[y] = Nothing
    BY <1>1, <1>4
  <2> QED
    BY <2>1 DEF LinksOf, Nothing
<1>6. \A y \in Iris : y \notin changed => artifacts'[y] = artifacts[y]
  BY <1>0, LandingAt
<1>7. Held(artifacts, x) /\ x \in changed /\ x \in Iris /\ changes[i].id = x
      /\ changes[i].was = artifacts[x].kind
  <2>1. /\ i \in DOMAIN Bare(port) /\ Bare(port)[i].op = "delete"
        /\ Bare(port)[i].read = artifacts[x].revision
    BY <1>1, <1>2
  <2>2. Held(artifacts, x)
    BY <1>3, <2>1 DEF Moving, Held
  <2>3. x \in changed /\ x \in Iris /\ changes[i].id = x
    BY <1>1
  <2>4. changes[i].was = artifacts[x].kind
    BY <1>1 DEF Drafted
  <2> QED
    BY <2>2, <2>3, <2>4
<1> HIDE DEF x, changed
<1>8. ASSUME NEW z \in changed, z \in Iris, Held(artifacts, z), NEW l \in LinksIn(artifacts', z) PROVE FALSE
  <2>1. l[1] \in Iris /\ l[2] \in LinksOf(artifacts', l[1])
    BY DEF LinksIn
  <2>2. ~Held(artifacts', z)
    BY <1>5, <1>8 DEF Held, Nothing
  <2>3. NoneLinked(artifacts, artifacts', port)
    BY LandingChecked
  <2>4. l[1] \in changed
    BY <1>8, <2>2, <2>3 DEF NoneLinked, changed
  <2> QED
    BY <1>5, <2>1, <2>4
<1>9. ASSUME changes[i].was = TypeOfTypes PROVE Readers(artifacts', x) = {}
  <2>1. OnlyRead(artifacts')
    <3>1. Emptied(artifacts')
      BY <1>0, LandingEmpties
    <3> QED
      BY <1>0, <3>1, LandingReads
  <2> QED
    BY <1>3, <2>1 DEF Readers, OnlyRead, x
<1>10. ASSUME changes[i].was = TypeOfTypes, NEW w \in WaitingOn(artifacts')
       PROVE  ~NearestWas(artifacts', w[2].target, x)
  <2> DEFINE y == w[1]
             link == w[2]
             u == link.target
  <2>1. y \in Iris /\ link \in LinksOf(artifacts', y) /\ ~Held(artifacts', u)
    BY DEF WaitingOn
  <2>2. y \notin changed /\ artifacts'[y] = artifacts[y] /\ link \in LinksOf(artifacts, y)
    BY <1>5, <1>6, <2>1 DEF LinksOf
  <2>3. link \in Link
    <3>1. artifacts[y].links \in Seq(Link)
      BY <1>0, <2>1 DEF Stores, Artifact
    <3> QED
      BY <2>2, <3>1, ElementOfSeq DEF LinksOf
  <2>4. u \in Iris
    BY <2>3 DEF Link
  <2>5. ~Held(artifacts, u)
    <3>1. ASSUME Held(artifacts, u) PROVE FALSE
      <4>1. u \in changed
        BY <1>6, <2>1, <2>4, <3>1 DEF Held
      <4>2. <<y, link>> \in LinksIn(artifacts', u)
        BY <2>1 DEF LinksIn
      <4> QED
        BY <1>8, <2>4, <3>1, <4>1, <4>2
    <3> QED
      BY <3>1
  <2> DEFINE k == Nearest(artifacts, u)
  <2>6. k \in LinkedIn(Sets) /\ k \in Iris
    <3>1. Held(artifacts, y)
      <4>1. ASSUME ~Held(artifacts, y) PROVE FALSE
        <5>1. artifacts[y] = Nothing
          BY <2>1, <4>1 DEF AcceptInv, Cleared
        <5> QED
          BY <2>2, <5>1 DEF LinksOf, Nothing
      <4> QED
        BY <4>1
    <3>2. MayLand(artifacts, link)
      BY <1>0, <2>1, <2>2, <3>1 DEF CheckInv, LinksFit
    <3>3. Kinds[link.field] \subseteq LinkedIn(Sets)
      BY <1>0, <2>1, <2>2 DEF CheckInv, OnlyLinked
    <3> QED
      BY <2>5, <3>2, <3>3 DEF MayLand, LinkedIn
  <2> HIDE DEF k, u
  <2>7. Nearest(artifacts', u) = k
    BY <1>0, <2>1, <2>4, <2>5, <2>6, WaitsBefore DEF k
  <2>8. SitsUnder(u, k) /\ Typed(artifacts', k)
    BY <2>4, <2>6, <2>7, NearestIs
  <2>9. Typed(artifacts, x) /\ \A z \in Between(u, k) : ~Typed(artifacts, z)
    BY <1>7, <1>10, <2>4, <2>6, NearestIs DEF Typed, k
  <2>10. k # x
    BY <1>3, <2>6, <1>1 DEF x
  <2> SUFFICES ASSUME NearestWas(artifacts', u, x) PROVE FALSE
    BY DEF u
  <2>11. PICK m \in DOMAIN Above[u] :
           Above[u][m] = x /\ \A j \in 1..(m - 1) : ~Typed(artifacts', Above[u][j]) /\ Above[u][j] # x
    BY DEF NearestWas
  <2>12. SitsUnder(u, x)
    BY <2>11 DEF SitsUnder
  <2>13. k \notin Between(u, x)
    <3> SUFFICES ASSUME k \in Between(u, x) PROVE FALSE
      OBVIOUS
    <3>1. PICK n \in DOMAIN Above[u] : Above[u][n] = k /\ \A l \in 1..n : Above[u][l] # x
      BY <2>4, BetweenIs
    <3>2. n \in Nat /\ m \in Nat /\ n \in 1..Len(Above[u]) /\ m \in 1..Len(Above[u])
      BY <2>4, AboveType
    <3>3. ~(m <= n)
      BY <2>11, <3>1, <3>2
    <3>4. n \in 1..(m - 1)
      BY <3>2, <3>3
    <3> QED
      BY <2>8, <2>11, <3>1, <3>4
  <2>14. x \notin Between(u, k)
    BY <2>9
  <2> QED
    BY <1>7, <2>4, <2>6, <2>8, <2>10, <2>12, <2>13, <2>14, OneNearer
<1> QED
  BY <1>7, <1>8, <1>9, <1>10 DEF Freed

(* And what the set leaves alone links into no part it drops.              *)
LEMMA LandingKeepsWhole ==
  ASSUME AcceptInv, NEW c \in Calls, NEW port \in Seq(PortChange), Passes(c, port),
         DraftedBefore(c, port), NEW ops, ops = set[c], NEW changes, changes = Drafted(artifacts, ops)
  PROVE  KeptWhole(artifacts, changes)
<1> DEFINE changed == {port[k].change.id : k \in DOMAIN port}
<1>0. CheckInv /\ ReadInv /\ BelongInv /\ StampInv /\ TypeInv
  BY DEF AcceptInv, CheckInv, ReadInv, BelongInv, StampInv
<1>1. /\ DOMAIN changes = DOMAIN ops /\ DOMAIN port = DOMAIN ops
      /\ \A j \in DOMAIN ops :
           port[j].change.id = ops[j].id /\ changes[j].id = ops[j].id /\ ops[j].id \in Iris
      /\ artifacts' = Put(artifacts, changes)
  BY <1>0, LandingDrafts
<1>2. Changed(changes) = changed /\ changed \subseteq Iris
  BY <1>1 DEF Changed
<1>3. NoneLinked(artifacts, artifacts', port)
  BY LandingChecked
<1>4. \A y \in Iris : y \notin changed => artifacts'[y] = artifacts[y]
  BY <1>0, LandingAt
<1> HIDE DEF changed
<1> SUFFICES ASSUME NEW x \in changed, NEW l \in LinksIn(artifacts, x), l[1] \notin changed
             PROVE  l[2].part \notin Dropped(artifacts, artifacts', x)
  BY <1>1, <1>2 DEF KeptWhole
<1>5. CASE Held(artifacts, x)
  <2>1. l[1] \in Iris /\ l[2] \in LinksOf(artifacts, l[1]) /\ l[2].target = x /\ l = <<l[1], l[2]>>
    BY DEF LinksIn
  <2>2. l[2] \in LinksOf(artifacts', l[1])
    BY <1>4, <2>1 DEF LinksOf
  <2>3. l \in LinksIn(artifacts', x)
    BY <2>1, <2>2 DEF LinksIn
  <2> QED
    BY <1>3, <1>5, <2>3 DEF NoneLinked, changed
<1>6. CASE ~Held(artifacts, x)
  <2>1. artifacts[x].parts = {}
    BY <1>2, <1>6 DEF AcceptInv, Cleared, Nothing
  <2> QED
    BY <2>1 DEF Dropped
<1> QED
  BY <1>5, <1>6

(* So the draft would accept it.                                           *)
LEMMA LandingAccepted ==
  ASSUME ReadAsTypes(Sets), LinkedAsTypes(Sets), AcceptInv,
         NEW c \in Calls, NEW port \in Seq(PortChange), Passes(c, port), DraftedBefore(c, port)
  PROVE  Accepts(artifacts, set[c])
<1> DEFINE ops == set[c]
           changes == Drafted(artifacts, ops)
<1>1. ReadInv
  BY DEF AcceptInv, CheckInv
<1>2. /\ DOMAIN changes = DOMAIN ops /\ artifacts' = Put(artifacts, changes)
      /\ \A i \in DOMAIN ops : changes[i].op = ops[i].op
  BY <1>1, LandingDrafts
<1>3. \A i \in DOMAIN ops : Acts(Upto(artifacts, ops, i - 1), ops[i])
  BY LandingActs
<1>4. \A i \in DOMAIN ops : ops[i].op = "delete" => Freed(artifacts', changes[i])
  BY LandingFrees
<1>5. \A i \in DOMAIN ops : ops[i].op # "delete" => Fits(artifacts', changes[i])
  BY LandingSuits
<1>6. KeptWhole(artifacts, changes)
  BY LandingKeepsWhole
<1> QED
  BY <1>2, <1>3, <1>4, <1>5, <1>6, Zenon DEF Accepts, Upto

(* The invariant holds at first, and every step keeps it.                  *)
LEMMA AcceptsStart ==
  ReadAsTypes(Sets) /\ LinkedAsTypes(Sets) /\ RemovedCounted(Sets) /\ Init => AcceptInv
<1>1. Init => Cleared(artifacts)
  BY BeforeAssumption DEF Init, Cleared
<1>2. Init => \A c \in Calls : MovingOn(c)
  BY DEF Init, MovingOn
<1> QED
  BY <1>1, <1>2, ChecksStart DEF AcceptInv

LEMMA AcceptsNext ==
  /\ ReplacedStays(Sets) /\ ReadStays(Sets) /\ ReadAsTypes(Sets)
  /\ LinkedAsTypes(Sets) /\ RemovedCounted(Sets) /\ AcceptInv /\ [Next]_vars
  => AcceptInv'
<1> SUFFICES ASSUME ReplacedStays(Sets), ReadStays(Sets), ReadAsTypes(Sets),
                    LinkedAsTypes(Sets), RemovedCounted(Sets), AcceptInv, [Next]_vars
             PROVE  AcceptInv'
  OBVIOUS
<1>0. CheckInv /\ CheckInv' /\ ReadInv /\ BelongInv /\ StampInv /\ TypeInv /\ artifacts \in Stores
  BY ChecksNext DEF AcceptInv, CheckInv, ReadInv, BelongInv, StampInv, TypeInv, TypeOK, Stores
<1>1. Cleared(artifacts')
  <2>1. CASE artifacts' = artifacts
    BY <2>1 DEF AcceptInv
  <2>2. CASE artifacts' # artifacts
    <3>1. PICK c \in Calls, port \in Seq(PortChange) :
            Passes(c, port) /\ (DraftedBefore(c, port) \/ DraftedNow(c, port))
      BY <1>0, <2>2, LandStep DEF DraftedBefore, DraftedNow
    <3> QED
      BY <1>0, <3>1, LandingClears DEF AcceptInv
  <2> QED
    BY <2>1, <2>2
<1>2. ASSUME NEW d \in Calls PROVE MovingOn(d)'
  <2>o. MovingOn(d) /\ OnItsWay(d) /\ SitedOn(d) /\ ReadingOn(d)
    BY <1>0 DEF AcceptInv, ReadInv, BelongInv, TypeInv
  <2>e. ASSUME at'[d] \notin {"hand", "land"} PROVE MovingOn(d)'
    BY <2>e DEF MovingOn
  <2>s. ASSUME at'[d] = at[d], set'[d] = set[d], judged'[d] = judged[d], handed'[d] = handed[d]
        PROVE  MovingOn(d)'
    <3>1. ASSUME at[d] = "hand" PROVE Moving(artifacts', judged[d].changes, set[d])
      <4>1. /\ judged[d].changes \in Seq(Change) /\ set[d] \in Sets
            /\ FollowsSet(judged[d].changes, set[d])
        BY <1>0, <2>o, <3>1 DEF OnItsWay, TypeInv, TypeOK
      <4> QED
        BY <1>0, <2>o, <3>1, <4>1, MovingStays DEF MovingOn, SitedOn, ReadingOn
    <3>2. ASSUME at[d] = "land" PROVE Moving(artifacts', Bare(handed[d]), set[d])
      <4>1. /\ Bare(handed[d]) \in Seq(Change) /\ set[d] \in Sets
            /\ FollowsSet(Bare(handed[d]), set[d])
        BY <1>0, <2>o, <3>2, BareType DEF OnItsWay, TypeInv, TypeOK
      <4> QED
        BY <1>0, <2>o, <3>2, <4>1, MovingStays DEF MovingOn, SitedOn, ReadingOn
    <3>3. Bare(handed'[d]) = Bare(handed[d])
      BY <2>s
    <3> QED
      BY <2>s, <3>1, <3>2, <3>3 DEF MovingOn
  <2>1. ASSUME NEW c \in Calls, Judges(c), c = d PROVE MovingOn(d)'
    <3>1. CASE Accepts(artifacts, set[c])
      <4>1. /\ set[c] \in Sets /\ artifacts' = artifacts /\ set' = set /\ at'[c] = "hand"
            /\ judged'[c].changes = Drafted(artifacts, set[c])
        BY <1>0, <2>o, <2>1, <3>1 DEF Judges, OnItsWay, Draft, TypeInv, TypeOK
      <4>2. Moving(artifacts, Drafted(artifacts, set[c]), set[c])
        BY <1>0, <3>1, <4>1, DraftMoves
      <4> QED
        BY <2>1, <4>1, <4>2 DEF MovingOn
    <3>2. CASE ~Accepts(artifacts, set[c])
      BY <1>0, <2>1, <2>e, <3>2 DEF Judges, Ends, TypeInv, TypeOK
    <3> QED
      BY <3>1, <3>2
  <2>2. ASSUME NEW c \in Calls, Hands(c), c = d, at'[c] = "land" PROVE MovingOn(d)'
    <3> DEFINE port == Handed(artifacts, judged[c])
    <3>1. handed'[c] = port /\ artifacts' = artifacts /\ set' = set /\ at[c] = "hand"
      BY <1>0, <2>2 DEF Hands, Ends, TypeInv, TypeOK
    <3>2. Bare(port) = judged[c].changes
      BY <1>0, BareHanded DEF TypeInv, TypeOK
    <3>3. Moving(artifacts, judged[c].changes, set[c])
      BY <2>2, <2>o, <3>1 DEF MovingOn
    <3> HIDE DEF port
    <3> QED
      BY <2>2, <3>1, <3>2, <3>3 DEF MovingOn
  <2>3. ASSUME NEW c \in Calls, Asks(c) \/ Lands(c) \/ LandsUnderLock(c), c = d
        PROVE  at'[d] \notin {"hand", "land"}
    BY <1>0, <2>3 DEF Asks, Lands, LandsUnderLock, Ends, TypeInv, TypeOK
  <2>4. ASSUME NEW c \in Calls, Asks(c) \/ Judges(c) \/ Hands(c) \/ Lands(c) \/ LandsUnderLock(c), c # d
        PROVE  at'[d] = at[d] /\ set'[d] = set[d] /\ judged'[d] = judged[d] /\ handed'[d] = handed[d]
    BY <1>0, <2>4 DEF Asks, Judges, Hands, Lands, LandsUnderLock, Ends, TypeInv, TypeOK
  <2>5. ASSUME NEW c \in Calls, Hands(c), c = d, at'[c] # "land" PROVE at'[d] \notin {"hand", "land"}
    BY <1>0, <2>5 DEF Hands, Ends, TypeInv, TypeOK
  <2>6. CASE UNCHANGED vars
    BY <2>6, <2>s DEF vars
  <2> QED
    BY <2>e, <2>s, <2>1, <2>2, <2>3, <2>4, <2>5, <2>6 DEF Next
<1> QED
  BY <1>0, <1>1, <1>2 DEF AcceptInv

(* A set landed as first drafted is one its draft would accept over the    *)
(* store it lands on, whatever landed since it was drafted: what the port  *)
(* compares and checks stands for drafting it again (sqlite_store.land);   *)
(* under the hypotheses of NothingToFind.                                  *)
THEOREM LandsAsDrafted ==
  ReplacedStays(Sets) /\ ReadStays(Sets) /\ ReadAsTypes(Sets)
  /\ LinkedAsTypes(Sets) /\ RemovedCounted(Sets)
  => (Spec => LandsAsJudged)
<1> SUFFICES ASSUME ReplacedStays(Sets), ReadStays(Sets), ReadAsTypes(Sets),
                    LinkedAsTypes(Sets), RemovedCounted(Sets)
             PROVE  Spec => LandsAsJudged
  OBVIOUS
<1> DEFINE A == \A c \in Calls : at[c] = "land" /\ at'[c] = "idle" /\ artifacts' # artifacts =>
                  Accepts(artifacts, set[c])
<1>1. AcceptInv /\ [Next]_vars => A
  <2> SUFFICES ASSUME AcceptInv, [Next]_vars, NEW c \in Calls, at[c] = "land", at'[c] = "idle",
                      artifacts' # artifacts
               PROVE  Accepts(artifacts, set[c])
    BY Zenon
  <2>1. TypeInv
    BY DEF AcceptInv, CheckInv, ReadInv, BelongInv, StampInv
  <2>2. PICK d \in Calls, port \in Seq(PortChange) :
          Passes(d, port) /\ (DraftedBefore(d, port) \/ DraftedNow(d, port))
    BY <2>1, LandStep DEF DraftedBefore, DraftedNow
  <2>3. d = c
    <3>1. at'[c] # at[c] /\ at'[d] # at[d]
      BY <2>2 DEF Passes
    <3>2. \A e, f \in Calls : at'[e] # at[e] /\ at'[f] # at[f] => e = f
      BY <2>1 DEF Next, vars, Asks, Judges, Hands, Lands, LandsUnderLock, Ends, TypeInv, TypeOK
    <3> QED
      BY <3>1, <3>2
  <2>4. DraftedBefore(c, port)
    BY <2>2, <2>3 DEF DraftedBefore, DraftedNow
  <2> QED
    BY <2>2, <2>3, <2>4, LandingAccepted
<1> HIDE DEF A
<1>2. Init => AcceptInv
  BY AcceptsStart
<1>3. AcceptInv /\ [Next]_vars => AcceptInv'
  BY AcceptsNext
<1>4. Spec => [][A]_vars
  BY <1>1, <1>2, <1>3, PTL DEF Spec
<1> QED
  BY <1>4 DEF LandsAsJudged, A
=============================================================================
