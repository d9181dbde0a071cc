---------------------------- MODULE DraftsProofs ----------------------------
(***************************************************************************)
(* What TLAPS proves of Drafts, for any IRIs, types and sets: what each     *)
(* operator makes of a store and a set.  What reads or changes a store     *)
(* rests on it.                                                            *)
(***************************************************************************)
EXTENDS Drafts, TLAPS, FiniteSetTheorems, SequenceTheorems, WellFoundedInduction

-----------------------------------------------------------------------------
(* Numbers and places in sequences.                                        *)

LEMMA LeastNumber ==
  ASSUME NEW T \in SUBSET Nat, T # {}
  PROVE  \E m \in T : \A k \in T : m <= k
<1>1. PICK m \in T : \A k \in T : <<k, m>> \notin OpToRel(<, Nat)
  BY WFMin, NatLessThanWellFounded, Zenon
<1>2. \A k \in T : ~(k < m)
  BY <1>1, Zenon DEF OpToRel
<1>3. \A k \in T : k \in Nat /\ m \in Nat
  OBVIOUS
<1> QED
  BY <1>2, <1>3

(* A set of numbers that holds 0 and, with each number, the next one.      *)
LEMMA EveryNumber ==
  ASSUME NEW T, 0 \in T, \A n \in Nat : n \in T => n + 1 \in T
  PROVE  \A n \in Nat : n \in T
<1> DEFINE Out == {n \in Nat : n \notin T}
<1>1. ASSUME Out # {} PROVE FALSE
  <2>1. PICK m \in Out : \A k \in Out : m <= k
    BY <1>1, LeastNumber
  <2>2. m - 1 \in Nat /\ m - 1 \in T /\ (m - 1) + 1 = m
    BY <2>1
  <2> QED
    BY <2>1, <2>2
<1> QED
  BY <1>1

(* A function recursive up to a number exists where each of its steps,     *)
(* given as a function, stays within a set; and so over Nat.               *)
StaysTo(next, m, X) == \A n \in 1..m, x \in X : next[<<n, x>>] \in X
RecursTo(f, m, X, base, next) ==
  f \in [0..m -> X] /\ \A n \in 0..m : f[n] = IF n = 0 THEN base ELSE next[<<n, f[n - 1]>>]

Stays(next, X) == \A n \in Nat \ {0}, x \in X : next[<<n, x>>] \in X
Recurs(f, X, base, next) ==
  f \in [Nat -> X] /\ \A n \in Nat : f[n] = IF n = 0 THEN base ELSE next[<<n, f[n - 1]>>]

LEMMA RecursionTo ==
  ASSUME NEW X, NEW base \in X, NEW next, NEW m \in Nat, StaysTo(next, m, X)
  PROVE  \E f : RecursTo(f, m, X, base, next)
<1> DEFINE Runs(f, k) ==
      /\ f \in [0..k -> X]
      /\ \A n \in 0..k : f[n] = IF n = 0 THEN base ELSE next[<<n, f[n - 1]>>]
           T == {k \in Nat : k <= m => \E f : Runs(f, k)}
<1>1. 0 \in T
  <2>1. Runs([n \in 0..0 |-> base], 0)
    OBVIOUS
  <2> QED
    BY <2>1
<1>2. ASSUME NEW k \in Nat, k \in T, k + 1 <= m PROVE \E f : Runs(f, k + 1)
  <2>1. PICK f : Runs(f, k)
    BY <1>2
  <2> DEFINE last == next[<<k + 1, f[k]>>]
             g == [n \in 0..(k + 1) |-> IF n = k + 1 THEN last ELSE f[n]]
  <2>2. last \in X
    <3>1. k + 1 \in 1..m /\ f[k] \in X
      BY <1>2, <2>1
    <3> QED
      BY <3>1 DEF StaysTo
  <2> HIDE DEF last
  <2>3. g \in [0..(k + 1) -> X]
    BY <2>1, <2>2
  <2>4. \A n \in 0..k : g[n] = f[n]
    OBVIOUS
  <2>5. ASSUME NEW n \in 0..(k + 1)
        PROVE  g[n] = IF n = 0 THEN base ELSE next[<<n, g[n - 1]>>]
    <3>1. CASE n = k + 1
      <4>1. g[n] = last /\ n - 1 = k /\ g[n - 1] = f[k] /\ n # 0
        BY <2>4, <3>1
      <4> QED
        BY <3>1, <4>1 DEF last
    <3>2. CASE n # k + 1
      <4>1. n \in 0..k /\ g[n] = f[n] /\ (n # 0 => n - 1 \in 0..k /\ g[n - 1] = f[n - 1])
        BY <2>4, <3>2
      <4> HIDE DEF g
      <4> QED
        BY <2>1, <4>1
    <3> QED
      BY <3>1, <3>2
  <2> HIDE DEF g
  <2>6. Runs(g, k + 1)
    BY <2>3, <2>5
  <2> QED
    BY <2>6
<1> HIDE DEF Runs
<1>3. \A k \in Nat : k \in T => k + 1 \in T
  BY <1>2
<1> HIDE DEF T
<1>4. m \in T
  BY <1>1, <1>3, EveryNumber
<1> QED
  BY <1>4 DEF T, Runs, RecursTo

LEMMA RecursionThere ==
  ASSUME NEW X, NEW base \in X, NEW next, Stays(next, X)
  PROVE  \E f : Recurs(f, X, base, next)
<1>0. \A n \in Nat \ {0}, x \in X : next[<<n, x>>] \in X
  BY DEF Stays
<1> DEFINE Runs(f, m) ==
      /\ f \in [0..m -> X]
      /\ \A n \in 0..m : f[n] = IF n = 0 THEN base ELSE next[<<n, f[n - 1]>>]
<1>1. \A m \in Nat : \E f : Runs(f, m)
  <2> TAKE m \in Nat
  <2>1. StaysTo(next, m, X)
    <3>1. \A n \in 1..m : n \in Nat \ {0}
      OBVIOUS
    <3> QED
      BY <1>0, <3>1 DEF StaysTo
  <2>2. PICK f : RecursTo(f, m, X, base, next)
    BY <2>1, RecursionTo
  <2> QED
    BY <2>2 DEF RecursTo
<1> DEFINE upto(m) == CHOOSE f : Runs(f, m)
           all == [n \in Nat |-> upto(n)[n]]
<1>2. \A m \in Nat : Runs(upto(m), m)
  BY <1>1, Zenon
<1> HIDE DEF upto
<1>3. ASSUME NEW m \in Nat, NEW k \in Nat, k >= m PROVE upto(k)[m] = upto(m)[m]
  <2> DEFINE T == {n \in Nat : n > m \/ upto(k)[n] = upto(m)[n]}
  <2>1. 0 \in T
    <3>1. 0 \in 0..k /\ 0 \in 0..m /\ Runs(upto(k), k) /\ Runs(upto(m), m)
      BY <1>2
    <3>2. upto(k)[0] = base /\ upto(m)[0] = base
      BY <3>1
    <3> QED
      BY <3>2
  <2>2. ASSUME NEW n \in Nat, n \in T PROVE n + 1 \in T
    <3>1. CASE n + 1 > m
      BY <3>1
    <3>2. CASE n + 1 <= m
      <4>1. n + 1 \in 0..m /\ n + 1 \in 0..k /\ n + 1 # 0 /\ (n + 1) - 1 = n
        BY <3>2, <1>3
      <4>2. upto(k)[n] = upto(m)[n]
        BY <2>2, <3>2
      <4>3. /\ upto(k)[n + 1] = next[<<n + 1, upto(k)[n]>>]
            /\ upto(m)[n + 1] = next[<<n + 1, upto(m)[n]>>]
        BY <1>2, <4>1
      <4> QED
        BY <4>2, <4>3
    <3> QED
      BY <3>1, <3>2
  <2> HIDE DEF T
  <2>3. m \in T
    BY <2>1, <2>2, EveryNumber
  <2> QED
    BY <2>3 DEF T
<1>4. \A n \in Nat : all[n] = upto(n)[n] /\ all[n] \in X
  BY <1>2
<1>5. ASSUME NEW n \in Nat PROVE all[n] = IF n = 0 THEN base ELSE next[<<n, all[n - 1]>>]
  <2>1. upto(n)[n] = IF n = 0 THEN base ELSE next[<<n, upto(n)[n - 1]>>]
    BY <1>2
  <2>2. n # 0 => n - 1 \in Nat /\ upto(n)[n - 1] = upto(n - 1)[n - 1]
    BY <1>3
  <2> HIDE DEF all
  <2> QED
    BY <1>4, <2>1, <2>2
<1>6. all \in [Nat -> X]
  BY <1>4
<1> HIDE DEF all
<1> QED
  BY <1>5, <1>6 DEF Recurs

(* The last change to an IRI is one of the changes to it, and none after   *)
(* it is (Drafts.LastOf).                                                  *)
LEMMA LastThere ==
  ASSUME NEW changes, DOMAIN changes = 1..Len(changes), Len(changes) \in Nat,
         NEW x \in Changed(changes)
  PROVE  /\ LastOf(changes, x) \in DOMAIN changes /\ changes[LastOf(changes, x)].id = x
         /\ \A j \in DOMAIN changes : changes[j].id = x => j <= LastOf(changes, x)
<1> DEFINE T == {Len(changes) - i : i \in {j \in DOMAIN changes : changes[j].id = x}}
<1>1. PICK i \in DOMAIN changes : changes[i].id = x
  BY DEF Changed
<1>2. T \in SUBSET Nat /\ Len(changes) - i \in T
  <2>1. \A j \in DOMAIN changes : Len(changes) - j \in Nat
    OBVIOUS
  <2> QED
    BY <1>1, <2>1
<1>3. PICK m \in T : \A k \in T : m <= k
  BY <1>2, LeastNumber
<1>4. PICK l \in DOMAIN changes : changes[l].id = x /\ m = Len(changes) - l
  BY <1>3
<1>5. ASSUME NEW j \in DOMAIN changes, changes[j].id = x PROVE j <= l
  <2>1. m <= Len(changes) - j
    BY <1>3, <1>5
  <2> QED
    BY <1>4, <2>1
<1>6. changes[l].id = x /\ \A j \in (l + 1)..Len(changes) : changes[j].id # x
  BY <1>4, <1>5
<1>7. /\ LastOf(changes, x) \in DOMAIN changes /\ changes[LastOf(changes, x)].id = x
      /\ \A j \in (LastOf(changes, x) + 1)..Len(changes) : changes[j].id # x
  BY <1>4, <1>6, Zenon DEF LastOf
<1> QED
  BY <1>7

-----------------------------------------------------------------------------
(* A set drafted change by change.  LeftBefore is recursive over Nat: its   *)
(* first values are made one by one, and whatever makes them agrees.       *)

(* The store the n-th operation leaves, over s.                            *)
After(ops, s, n) == [s EXCEPT ![ops[n].id] = Made(s, ops[n])]

(* The stores before the first n operations and after them.                *)
Runs(f, st, ops, n) ==
  f = [k \in 0..n |-> IF k = 0 THEN st ELSE After(ops, f[k - 1], k)]

LEMMA RunsThere ==
  ASSUME NEW st, NEW ops, NEW n \in Nat
  PROVE  \E f : Runs(f, st, ops, n)
<1> DEFINE T == {m \in Nat : ~\E f : Runs(f, st, ops, m)}
<1>1. ASSUME T # {} PROVE FALSE
  <2>1. PICK m \in T : \A k \in T : m <= k
    BY <1>1, LeastNumber
  <2>2. m # 0
    <3>1. Runs([k \in 0..0 |-> st], st, ops, 0)
      BY DEF Runs
    <3> QED
      BY <3>1
  <2>3. m - 1 \in Nat /\ m - 1 \notin T
    BY <2>1, <2>2
  <2>4. PICK f : Runs(f, st, ops, m - 1)
    BY <2>3
  <2> DEFINE g == [k \in 0..m |-> IF k = m THEN After(ops, f[m - 1], m) ELSE f[k]]
  <2>5. \A k \in 0..m : g[k] = IF k = 0 THEN st ELSE After(ops, g[k - 1], k)
    <3> SUFFICES ASSUME NEW k \in 0..m
                 PROVE  g[k] = IF k = 0 THEN st ELSE After(ops, g[k - 1], k)
      OBVIOUS
    <3>1. \A l \in 0..(m - 1) : f[l] = IF l = 0 THEN st ELSE After(ops, f[l - 1], l)
      BY <2>4 DEF Runs
    <3>2. CASE k = m
      BY <2>2, <2>3, <3>2
    <3>3. CASE k # m
      BY <2>2, <2>3, <3>1, <3>3
    <3> QED
      BY <3>2, <3>3
  <2>6. Runs(g, st, ops, m)
    BY <2>5 DEF Runs
  <2> QED
    BY <2>1, <2>6
<1> QED
  BY <1>1

LEMMA RunsAgree ==
  ASSUME NEW st, NEW ops, NEW n \in Nat, NEW m \in Nat, NEW f, NEW g,
         Runs(f, st, ops, n), Runs(g, st, ops, m), NEW k \in Nat, k <= n, k <= m
  PROVE  f[k] = g[k]
<1> DEFINE T == {l \in Nat : l <= n /\ l <= m /\ f[l] # g[l]}
<1>1. ASSUME T # {} PROVE FALSE
  <2>1. PICK l \in T : \A j \in T : l <= j
    BY <1>1, LeastNumber
  <2>2. l \in 0..n /\ l \in 0..m
    BY <2>1
  <2>3. /\ f[l] = IF l = 0 THEN st ELSE After(ops, f[l - 1], l)
        /\ g[l] = IF l = 0 THEN st ELSE After(ops, g[l - 1], l)
    BY <2>2 DEF Runs
  <2>4. l # 0 /\ l - 1 \in Nat /\ l - 1 \notin T
    BY <2>1, <2>3
  <2>5. f[l - 1] = g[l - 1]
    BY <2>1, <2>4
  <2> QED
    BY <2>1, <2>3, <2>4, <2>5
<1> QED
  BY <1>1

(* Before the first operation is the store as drafted over; before each    *)
(* other, what the one before it leaves.                                   *)
LEMMA LeftBeforeStep ==
  ASSUME NEW st, NEW ops
  PROVE  /\ LeftBefore(st, ops, 1) = st
         /\ \A i \in Nat \ {0} :
              LeftBefore(st, ops, i + 1) = After(ops, LeftBefore(st, ops, i), i)
<1> DEFINE nth(n) == CHOOSE f : Runs(f, st, ops, n)
           all == [n \in Nat |-> nth(n)[n]]
           after == CHOOSE f : f = [n \in Nat |-> IF n = 0 THEN st
                       ELSE [f[n - 1] EXCEPT ![ops[n].id] = Made(f[n - 1], ops[n])]]
<1>1. \A n \in Nat : Runs(nth(n), st, ops, n)
  BY RunsThere, Zenon
<1>2. ASSUME NEW n \in Nat PROVE all[n] = IF n = 0 THEN st ELSE After(ops, all[n - 1], n)
  <2> HIDE DEF nth
  <2>1. nth(n)[n] = IF n = 0 THEN st ELSE After(ops, nth(n)[n - 1], n)
    BY <1>1 DEF Runs
  <2>2. CASE n = 0
    BY <2>1, <2>2
  <2>3. CASE n # 0
    <3>1. n - 1 \in Nat /\ n - 1 <= n
      BY <2>3
    <3>2. nth(n)[n - 1] = nth(n - 1)[n - 1]
      BY <1>1, <3>1, RunsAgree
    <3> QED
      BY <2>1, <2>3, <3>1, <3>2
  <2> QED
    BY <2>2, <2>3
<1>3. all = [n \in Nat |-> IF n = 0 THEN st
               ELSE [all[n - 1] EXCEPT ![ops[n].id] = Made(all[n - 1], ops[n])]]
  <2> HIDE DEF nth
  <2> QED
    BY <1>2 DEF After
<1>4. after = [n \in Nat |-> IF n = 0 THEN st
                 ELSE [after[n - 1] EXCEPT ![ops[n].id] = Made(after[n - 1], ops[n])]]
  <2> HIDE DEF all
  <2> QED
    BY <1>3, Zenon
<1>5. \A i : LeftBefore(st, ops, i) = after[i - 1]
  BY Zenon DEF LeftBefore
<1> HIDE DEF after
<1>6. after[0] = st
  BY <1>4
<1>7. ASSUME NEW i \in Nat \ {0}
      PROVE  after[i] = [after[i - 1] EXCEPT ![ops[i].id] = Made(after[i - 1], ops[i])]
  BY <1>4
<1>8. ASSUME NEW i \in Nat \ {0}
      PROVE  LeftBefore(st, ops, i + 1) = After(ops, LeftBefore(st, ops, i), i)
  <2>1. (i + 1) - 1 = i
    OBVIOUS
  <2> QED
    BY <1>5, <1>7, <2>1, Zenon DEF After
<1> QED
  BY <1>5, <1>6, <1>8

-----------------------------------------------------------------------------
(* Type correctness: what each operator makes of a store and a set.        *)

Stores == [Iris -> Artifact]

LEMMA NothingType == Nothing \in Artifact
<1>1. <<>> \in Seq(Link) /\ <<>> \in Seq(TypeVersion)
  OBVIOUS
<1> QED
  BY <1>1 DEF Nothing, Artifact

LEMMA GainedType ==
  ASSUME NEW versions \in Seq(TypeVersion), NEW number \in Nat, NEW revision \in Nat,
         NEW reads \in SUBSET VersionId
  PROVE  Gained(versions, number, revision, reads) \in Seq(TypeVersion)
<1> DEFINE top == IF number > Len(versions) THEN number ELSE Len(versions)
           gained(n) == CASE n = number -> [revision |-> revision, reads |-> reads]
                          [] n \in DOMAIN versions /\ n # number -> versions[n]
                          [] OTHER -> NotKept
<1>1. top \in Nat
  OBVIOUS
<1>2. ASSUME NEW n \in 1..top PROVE gained(n) \in TypeVersion
  <2>1. NotKept \in TypeVersion /\ [revision |-> revision, reads |-> reads] \in TypeVersion
    BY DEF NotKept, TypeVersion
  <2>2. n \in DOMAIN versions => versions[n] \in TypeVersion
    BY ElementOfSeq
  <2> QED
    BY <2>1, <2>2
<1>3. Gained(versions, number, revision, reads) = [n \in 1..top |-> gained(n)]
  BY Zenon DEF Gained
<1> HIDE DEF top, gained
<1>4. [n \in 1..top |-> gained(n)] \in Seq(TypeVersion)
  BY <1>1, <1>2
<1> QED
  BY <1>3, <1>4

LEMMA MadeType ==
  ASSUME NEW st \in Stores, NEW op \in Operation
  PROVE  Made(st, op) \in Artifact
<1>1. /\ op.op \in {"create", "write", "delete", "import"} /\ op.id \in Iris
      /\ op.kind \in Iris \cup {NoIri} /\ op.version \in Nat /\ op.links \in Seq(Link)
      /\ op.parts \in SUBSET Parts /\ op.reads \in SUBSET VersionId
      /\ op.number \in Nat /\ op.revision \in Nat
  BY DEF Operation
<1>2. ASSUME NEW held \in Artifact, NEW revision \in Nat, NEW number \in Nat, NEW o,
             o = [op EXCEPT !.revision = revision, !.number = number]
      PROVE  Brought(held, o) \in Artifact
  <2>1. /\ o.revision = revision /\ o.number = number /\ o.kind = op.kind
        /\ o.version = op.version /\ o.links = op.links /\ o.parts = op.parts /\ o.reads = op.reads
    BY <1>2 DEF Operation
  <2>2. held.versions \in Seq(TypeVersion) /\ <<>> \in Seq(TypeVersion)
    BY DEF Artifact
  <2>3. Gained(held.versions, number, revision, op.reads) \in Seq(TypeVersion)
    BY <1>1, <2>2, GainedType
  <2> QED
    BY <1>1, <2>1, <2>2, <2>3 DEF Brought, Artifact
<1>3. ASSUME NEW held \in Artifact PROVE Revised(held, op) \in Artifact
  <2>1. /\ held.versions \in Seq(TypeVersion) /\ Len(held.versions) + 1 \in Nat
        /\ held.revision + 1 \in Nat /\ held.version \in Nat
        /\ held.kind \in Iris \cup {NoIri}
    BY DEF Artifact
  <2>2. Gained(held.versions, Len(held.versions) + 1, held.revision + 1, op.reads)
          \in Seq(TypeVersion)
    BY <1>1, <2>1, GainedType
  <2> QED
    BY <1>1, <2>1, <2>2 DEF Revised, Artifact
<1>4. st[op.id] \in Artifact
  BY <1>1 DEF Stores
<1>5. CASE op.op = "delete"
  BY <1>5, NothingType DEF Made
<1>6. CASE op.op = "write"
  BY <1>3, <1>4, <1>6 DEF Made
<1>7. CASE op.op = "import"
  <2>1. op = [op EXCEPT !.revision = op.revision, !.number = op.number]
    BY DEF Operation
  <2>2. Brought(st[op.id], op) \in Artifact
    BY <1>1, <1>2, <1>4, <2>1
  <2> QED
    BY <1>7, <2>2 DEF Made
<1>8. CASE op.op = "create"
  <2> DEFINE number == IF op.kind = TypeOfTypes THEN 1 ELSE 0
  <2>1. number \in Nat /\ 1 \in Nat
    OBVIOUS
  <2>2. Brought(Nothing, [op EXCEPT !.revision = 1, !.number = number]) \in Artifact
    BY <1>2, <2>1, NothingType
  <2> QED
    BY <1>8, <2>2 DEF Made
<1> QED
  BY <1>1, <1>5, <1>6, <1>7, <1>8

LEMMA LeftBeforeType ==
  ASSUME NEW st \in Stores, NEW ops \in Seq(Operation), NEW i \in 1..(Len(ops) + 1)
  PROVE  LeftBefore(st, ops, i) \in Stores
<1> DEFINE T == {n \in Nat : n \in 1..(Len(ops) + 1) /\ LeftBefore(st, ops, n) \notin Stores}
<1>1. ASSUME T # {} PROVE FALSE
  <2>1. PICK n \in T : \A k \in T : n <= k
    BY <1>1, LeastNumber
  <2>2. n # 1
    BY <2>1, LeftBeforeStep
  <2>3. PICK k \in Nat \ {0} : n = k + 1 /\ k \in 1..Len(ops) /\ k \notin T
    <3>1. n - 1 \in Nat \ {0} /\ n = (n - 1) + 1 /\ n - 1 \in 1..Len(ops) /\ n - 1 \notin T
      BY <2>1, <2>2
    <3> QED
      BY <3>1
  <2> DEFINE s == LeftBefore(st, ops, k)
  <2>4. s \in Stores /\ ops[k] \in Operation
    BY <2>3, ElementOfSeq
  <2>5. LeftBefore(st, ops, k + 1) = After(ops, s, k)
    BY <2>3, LeftBeforeStep
  <2> HIDE DEF s
  <2>6. LeftBefore(st, ops, k + 1) \in Stores
    <3>1. Made(s, ops[k]) \in Artifact
      BY <2>4, MadeType
    <3> QED
      BY <2>4, <2>5, <3>1 DEF Stores, After
  <2> QED
    BY <2>1, <2>3, <2>6
<1> QED
  BY <1>1

(* Each link of an artifact told from the others it holds (Drafts.Told).   *)
LEMMA RankType ==
  ASSUME NEW links \in Seq(Link), NEW i \in DOMAIN links
  PROVE  /\ IsFiniteSet({j \in 1..(i - 1) : links[j] = links[i]})
         /\ Cardinality({j \in 1..(i - 1) : links[j] = links[i]}) \in Nat
<1>1. i \in 1..Len(links) /\ Len(links) \in Nat
  OBVIOUS
<1>2. IsFiniteSet(1..(i - 1))
  BY <1>1, FS_Interval
<1>3. IsFiniteSet({j \in 1..(i - 1) : links[j] = links[i]})
  BY <1>2, FS_Subset
<1> QED
  BY <1>3, FS_CardinalityType

LEMMA ToldType ==
  ASSUME NEW links \in Seq(Link)
  PROVE  DOMAIN Told(links) = DOMAIN links /\ \A i \in DOMAIN links : Told(links)[i] \in Link \X Nat
<1>1. \A i \in DOMAIN links : links[i] \in Link
  BY ElementOfSeq
<1>2. \A i \in DOMAIN links : Cardinality({j \in 1..(i - 1) : links[j] = links[i]}) \in Nat
  BY RankType
<1> QED
  BY <1>1, <1>2 DEF Told

LEMMA HeldWaitingType ==
  ASSUME NEW st \in Stores, NEW x \in Iris
  PROVE  HeldWaiting(st, x) \in SUBSET (Link \X Nat)
<1>1. st[x].links \in Seq(Link)
  BY DEF Stores, Artifact
<1> QED
  BY <1>1, ToldType DEF HeldWaiting

LEMMA DraftedType ==
  ASSUME NEW st \in Stores, NEW ops \in Seq(Operation)
  PROVE  Drafted(st, ops) \in Seq(Change) /\ Len(Drafted(st, ops)) = Len(ops)
<1> DEFINE change(i) ==
      [op |-> ops[i].op, id |-> ops[i].id, read |-> ReadAt(st, ops, i),
       was |-> st[ops[i].id].kind, left |-> Made(LeftBefore(st, ops, i), ops[i]),
       waited |-> HeldWaiting(st, ops[i].id)]
<1>1. DOMAIN ops = 1..Len(ops) /\ Len(ops) \in Nat
  OBVIOUS
<1>2. ASSUME NEW i \in 1..Len(ops) PROVE change(i) \in Change
  <2>1. ops[i] \in Operation
    BY ElementOfSeq
  <2>2. ops[i].op \in {"create", "write", "delete", "import"} /\ ops[i].id \in Iris
    BY <2>1 DEF Operation
  <2>3. i \in 1..(Len(ops) + 1)
    BY <1>1
  <2>4. LeftBefore(st, ops, i) \in Stores
    BY <2>3, LeftBeforeType
  <2>5. ReadAt(st, ops, i) \in Nat
    <3>1. LeftBefore(st, ops, i)[ops[i].id].revision \in Nat
      BY <2>2, <2>4 DEF Stores, Artifact
    <3> QED
      BY <3>1 DEF ReadAt
  <2>6. st[ops[i].id].kind \in Iris \cup {NoIri}
    BY <2>2 DEF Stores, Artifact
  <2>7. Made(LeftBefore(st, ops, i), ops[i]) \in Artifact
    BY <2>1, <2>4, MadeType
  <2>8. HeldWaiting(st, ops[i].id) \in SUBSET (Link \X Nat)
    BY <2>2, HeldWaitingType
  <2> QED
    BY <2>2, <2>5, <2>6, <2>7, <2>8 DEF Change
<1>3. Drafted(st, ops) = [i \in 1..Len(ops) |-> change(i)]
  BY <1>1, Zenon DEF Drafted
<1> HIDE DEF change
<1> QED
  BY <1>1, <1>2, <1>3

LEMMA PutType ==
  ASSUME NEW st \in Stores, NEW changes \in Seq(Change)
  PROVE  Put(st, changes) \in Stores
<1> SUFFICES ASSUME NEW x \in Iris, x \in Changed(changes)
             PROVE  changes[LastOf(changes, x)].left \in Artifact
  BY DEF Put, Stores
<1>1. LastOf(changes, x) \in DOMAIN changes
  BY LastThere
<1>2. changes[LastOf(changes, x)] \in Change
  BY <1>1, ElementOfSeq
<1> QED
  BY <1>2 DEF Change

LEMMA TypesReadType ==
  ASSUME NEW st \in Stores, NEW changes
  PROVE  TypesRead(st, changes) \in SUBSET (Iris \X Nat)
<1>1. \A t \in Iris : st[t].revision \in Nat
  BY DEF Stores, Artifact
<1> QED
  BY <1>1 DEF TypesRead

(* The nearest IRI above x among T (Drafts.NearestOf, of a set).           *)
RanksIn(x, T) == {i \in DOMAIN Above[x] : Above[x][i] \in T}
LowestOf(x, places) ==
  IF places = {} THEN NoIri ELSE Above[x][CHOOSE i \in places : \A j \in places : i <= j]
NearestIn(x, T) == LowestOf(x, RanksIn(x, T))

LEMMA NearestInType ==
  ASSUME NEW x \in Iris, NEW T
  PROVE  NearestIn(x, T) \in Iris \cup {NoIri}
<1>1. Above[x] \in Seq(Iris)
  BY AboveAssumption
<1>2. CASE RanksIn(x, T) # {}
  <2> DEFINE least == CHOOSE i \in RanksIn(x, T) : \A j \in RanksIn(x, T) : i <= j
  <2>1. RanksIn(x, T) \in SUBSET Nat
    BY <1>1 DEF RanksIn
  <2>2. \E i \in RanksIn(x, T) : \A j \in RanksIn(x, T) : i <= j
    BY <1>2, <2>1, LeastNumber, Zenon
  <2>3. least \in RanksIn(x, T)
    BY <2>2, Zenon
  <2> HIDE DEF least
  <2>4. Above[x][least] \in Iris
    BY <1>1, <2>3, ElementOfSeq DEF RanksIn
  <2> QED
    BY <1>2, <2>4 DEF NearestIn, LowestOf, least
<1> QED
  BY <1>2 DEF NearestIn, LowestOf

LEMMA NearestAs ==
  ASSUME NEW st, NEW x \in Iris
  PROVE  Nearest(st, x) = NearestIn(x, {y \in Iris : Typed(st, y)})
<1>1. \A i \in DOMAIN Above[x] : Above[x][i] \in Iris
  BY AboveAssumption, ElementOfSeq
<1>2. {i \in DOMAIN Above[x] : Typed(st, Above[x][i])} = RanksIn(x, {y \in Iris : Typed(st, y)})
  BY <1>1 DEF RanksIn
<1> QED
  <2>1. Nearest(st, x) = LowestOf(x, {i \in DOMAIN Above[x] : Typed(st, Above[x][i])})
    BY Zenon DEF Nearest, NearestOf, LowestOf
  <2> QED
    BY <1>2, <2>1, Zenon DEF NearestIn

(* The IRIs a draft takes for types.                                       *)
DraftTypes(st, draft) ==
  {y \in Iris : Held(Put(st, draft.changes), y) /\
                (Put(st, draft.changes)[y].kind = TypeOfTypes \/ \E p \in draft.types : p[1] = y)}

UndersFor(change, types) ==
  [j \in DOMAIN change.left.links |-> NearestIn(change.left.links[j].target, types)]

LEMMA UndersAre ==
  ASSUME NEW st, NEW draft, draft.changes \in Seq(Change), NEW i \in DOMAIN draft.changes
  PROVE  Unders(st, draft)[i] = UndersFor(draft.changes[i], DraftTypes(st, draft))
<1> DEFINE links == draft.changes[i].left.links
           taken(y) == Held(Put(st, draft.changes), y) /\
             (Put(st, draft.changes)[y].kind = TypeOfTypes \/ \E p \in draft.types : p[1] = y)
           under(x) == LowestOf(x, {k \in DOMAIN Above[x] : taken(Above[x][k])})
<1>1. Unders(st, draft)[i] = [j \in DOMAIN links |-> under(links[j].target)]
  BY Zenon DEF Unders, NearestOf, LowestOf
<1>2. ASSUME NEW j \in DOMAIN links
      PROVE  under(links[j].target) = NearestIn(links[j].target, DraftTypes(st, draft))
  <2>1. links \in Seq(Link)
    <3>1. draft.changes[i] \in Change
      BY ElementOfSeq
    <3> QED
      BY <3>1 DEF Change, Artifact
  <2>2. links[j].target \in Iris
    <3>1. links[j] \in Link
      BY <2>1, ElementOfSeq
    <3> QED
      BY <3>1 DEF Link
  <2> DEFINE x == links[j].target
  <2> HIDE DEF links
  <2>3. \A k \in DOMAIN Above[x] : Above[x][k] \in Iris
    BY <2>2, AboveAssumption, ElementOfSeq
  <2> HIDE DEF x
  <2>4. {k \in DOMAIN Above[x] : taken(Above[x][k])} = RanksIn(x, DraftTypes(st, draft))
    BY <2>3 DEF RanksIn, DraftTypes
  <2> HIDE DEF taken
  <2>5. under(x) = NearestIn(x, DraftTypes(st, draft))
    BY <2>4, Zenon DEF NearestIn
  <2> QED
    BY <2>5 DEF x
<1> QED
  BY <1>1, <1>2 DEF UndersFor

(* What a change hands beside itself (Drafts.Handed).                      *)
Through(st, draft, i) ==
  LET change == draft.changes[i]
      left == Put(st, draft.changes)
  IN (IF change.op = "delete" THEN {} ELSE {p \in draft.types : p[1] \in ReadBy(left, change)})
     \cup {<<y, 0>> : y \in {x \in Guards(st, draft, i) : ~Held(left, x)}}

LEMMA HandedIs ==
  ASSUME NEW st, NEW draft
  PROVE  Handed(st, draft) =
           [i \in DOMAIN draft.changes |->
              [change |-> draft.changes[i], unders |-> Unders(st, draft)[i],
               waits |-> Marked(draft.changes[i]), through |-> Through(st, draft, i)]]
BY Zenon DEF Handed, Through

LEMMA BetweenType ==
  ASSUME NEW x \in Iris, NEW t
  PROVE  Between(x, t) \in SUBSET Iris
<1>1. \A i \in DOMAIN Above[x] : Above[x][i] \in Iris
  BY AboveAssumption, ElementOfSeq
<1> QED
  BY <1>1 DEF Between

LEMMA GuardsType ==
  ASSUME NEW st, NEW draft, draft.changes \in Seq(Change), NEW i \in DOMAIN draft.changes
  PROVE  Guards(st, draft, i) \in SUBSET Iris
<1> DEFINE change == draft.changes[i]
           unders == Unders(st, draft)[i]
<1>1. change \in Change
  BY ElementOfSeq
<1>2. change.id \in Iris /\ change.left.links \in Seq(Link)
  BY <1>1 DEF Change, Artifact
<1>3. DOMAIN unders = DOMAIN change.left.links
  <2>1. unders = UndersFor(change, DraftTypes(st, draft))
    BY UndersAre
  <2> HIDE DEF unders, change
  <2> QED
    BY <2>1 DEF UndersFor
<1>4. ASSUME NEW j \in DOMAIN unders PROVE Between(change.left.links[j].target, unders[j]) \in SUBSET Iris
  <2>1. change.left.links[j] \in Link
    BY <1>2, <1>3, ElementOfSeq
  <2>2. change.left.links[j].target \in Iris
    BY <2>1 DEF Link
  <2> QED
    BY <2>2, BetweenType
<1>5. Between(change.id, change.left.kind) \in SUBSET Iris
  BY <1>2, BetweenType
<1> HIDE DEF change, unders
<1>6. Open(change, unders) \in SUBSET Iris
  BY <1>4, <1>5 DEF Open
<1> QED
  BY <1>6, Zenon DEF Guards, change, unders

LEMMA HandedType ==
  ASSUME NEW st \in Stores, NEW draft,
         draft.changes \in Seq(Change), draft.types \in SUBSET (Iris \X Nat)
  PROVE  Handed(st, draft) \in Seq(PortChange) /\ Len(Handed(st, draft)) = Len(draft.changes)
<1> DEFINE N == Len(draft.changes)
           each(i) == [change |-> draft.changes[i], unders |-> Unders(st, draft)[i],
                       waits |-> Marked(draft.changes[i]), through |-> Through(st, draft, i)]
<1>1. DOMAIN draft.changes = 1..N /\ N \in Nat
  OBVIOUS
<1>2. ASSUME NEW i \in 1..N PROVE each(i) \in PortChange
  <2>1. draft.changes[i] \in Change
    BY ElementOfSeq
  <2>2. draft.changes[i].left.links \in Seq(Link)
    BY <2>1 DEF Change, Artifact
  <2> DEFINE links == draft.changes[i].left.links
             M == Len(links)
  <2>3. DOMAIN links = 1..M /\ M \in Nat
    BY <2>2
  <2>4. Unders(st, draft)[i] \in Seq(Iris \cup {NoIri})
    <3> DEFINE under(j) == NearestIn(links[j].target, DraftTypes(st, draft))
    <3>1. Unders(st, draft)[i] = [j \in 1..M |-> under(j)]
      <4>1. Unders(st, draft)[i] = UndersFor(draft.changes[i], DraftTypes(st, draft))
        BY <1>1, UndersAre
      <4> QED
        BY <2>3, <4>1 DEF UndersFor
    <3>2. ASSUME NEW j \in 1..M PROVE under(j) \in Iris \cup {NoIri}
      <4>1. links[j] \in Link
        BY <2>2, <2>3, ElementOfSeq
      <4>2. links[j].target \in Iris
        BY <4>1 DEF Link
      <4> QED
        BY <4>2, NearestInType
    <3> HIDE DEF under, M
    <3> QED
      BY <2>3, <3>1, <3>2
  <2>5. Marked(draft.changes[i]) \in Seq(BOOLEAN)
    <3> DEFINE mark(j) == Told(links)[j] \in draft.changes[i].waited
    <3>1. Marked(draft.changes[i]) = [j \in 1..M |-> mark(j)]
      BY <2>3, Zenon DEF Marked
    <3>2. \A j \in 1..M : mark(j) \in BOOLEAN
      OBVIOUS
    <3> HIDE DEF mark, M
    <3> QED
      BY <2>3, <3>1, <3>2
  <2>6. Through(st, draft, i) \in SUBSET (Iris \X Nat)
    <3>1. Guards(st, draft, i) \in SUBSET Iris
      BY <1>1, GuardsType
    <3> QED
      BY <3>1 DEF Through
  <2> QED
    BY <2>1, <2>4, <2>5, <2>6 DEF PortChange
<1>3. Handed(st, draft) = [i \in 1..N |-> each(i)]
  BY <1>1, HandedIs, Zenon
<1> HIDE DEF each
<1> QED
  BY <1>1, <1>2, <1>3

=============================================================================
