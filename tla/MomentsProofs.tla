--------------------------- MODULE MomentsProofs ---------------------------
(***************************************************************************)
(* What TLAPS proves of Moments and Queries, for any calls, IRIs and sets:  *)
(* what is read is of one moment, what carries kb's mark is a backup, and  *)
(* what walks, reads and searches answer of every store.                   *)
(***************************************************************************)
EXTENDS Moments, DraftsProofs

-----------------------------------------------------------------------------
(* Sequences.  What Among and Joined make of them is recursive over Nat.   *)

Tells(s, x) == \E i \in DOMAIN s : s[i] = x
Apart(s) == \A i, j \in DOMAIN s : s[i] = s[j] => i = j

LEMMA AppendTells ==
  ASSUME NEW X, NEW s \in Seq(X), NEW e \in X
  PROVE  /\ Append(s, e) \in Seq(X) /\ Len(Append(s, e)) = Len(s) + 1
         /\ \A x : Tells(Append(s, e), x) <=> Tells(s, x) \/ x = e
         /\ Apart(s) /\ ~Tells(s, e) => Apart(Append(s, e))
<1> DEFINE t == Append(s, e)
<1>1. /\ t \in Seq(X) /\ Len(t) = Len(s) + 1 /\ Len(s) \in Nat
      /\ DOMAIN s = 1..Len(s) /\ DOMAIN t = 1..(Len(s) + 1)
      /\ t[Len(s) + 1] = e /\ \A i \in 1..Len(s) : t[i] = s[i]
  OBVIOUS
<1> HIDE DEF t
<1>2. \A i \in DOMAIN t : i \in DOMAIN s \/ i = Len(s) + 1
  BY <1>1
<1>3. ASSUME NEW x PROVE Tells(t, x) <=> Tells(s, x) \/ x = e
  <2>1. DOMAIN s \subseteq DOMAIN t /\ Len(s) + 1 \in DOMAIN t
    BY <1>1
  <2> QED
    BY <1>1, <1>2, <2>1 DEF Tells
<1>4. ASSUME Apart(s), ~Tells(s, e) PROVE Apart(t)
  <2> SUFFICES ASSUME NEW i \in DOMAIN t, NEW j \in DOMAIN t, t[i] = t[j] PROVE i = j
    BY DEF Apart
  <2>1. CASE i \in DOMAIN s /\ j \in DOMAIN s
    BY <1>1, <1>4, <2>1 DEF Apart
  <2>2. CASE i \in DOMAIN s /\ j = Len(s) + 1
    BY <1>1, <1>4, <2>2 DEF Tells
  <2>3. CASE j \in DOMAIN s /\ i = Len(s) + 1
    BY <1>1, <1>4, <2>3 DEF Tells
  <2> QED
    BY <1>2, <2>1, <2>2, <2>3
<1> QED
  BY <1>1, <1>3, <1>4 DEF t

(* Among gives those of a sequence that are of a set, and keeps apart what *)
(* was apart.                                                              *)
LEMMA AmongIs ==
  ASSUME NEW X, NEW s \in Seq(X), NEW set
  PROVE  /\ Among(s, set) \in Seq(X)
         /\ \A x : Tells(Among(s, set), x) <=> Tells(s, x) /\ x \in set
         /\ Apart(s) => Apart(Among(s, set))
<1> DEFINE next == [p \in Nat \X Seq(X) |-> IF s[p[1]] \in set THEN Append(p[2], s[p[1]]) ELSE p[2]]
           upto == CHOOSE f : f = [n \in 0..Len(s) |-> IF n = 0 THEN <<>>
                     ELSE IF s[n] \in set THEN Append(f[n - 1], s[n]) ELSE f[n - 1]]
<1>1. /\ <<>> \in Seq(X) /\ Len(s) \in Nat
      /\ \A n \in 1..Len(s), r \in Seq(X) : Append(r, s[n]) \in Seq(X)
  OBVIOUS
<1>2. \A n \in 1..Len(s), r \in Seq(X) :
        next[<<n, r>>] = IF s[n] \in set THEN Append(r, s[n]) ELSE r
  BY <1>1
<1> HIDE DEF next
<1>3. StaysTo(next, Len(s), Seq(X))
  <2>1. ASSUME NEW n \in 1..Len(s), NEW r \in Seq(X) PROVE next[<<n, r>>] \in Seq(X)
    BY <1>1, <1>2
  <2> QED
    BY <2>1 DEF StaysTo
<1>4. PICK g : RecursTo(g, Len(s), Seq(X), <<>>, next)
  BY <1>1, <1>3, RecursionTo
<1>r. /\ g \in [0..Len(s) -> Seq(X)]
      /\ \A n \in 0..Len(s) : g[n] = IF n = 0 THEN <<>> ELSE next[<<n, g[n - 1]>>]
  BY <1>4 DEF RecursTo
<1>5. ASSUME NEW n \in 0..Len(s)
      PROVE  g[n] = IF n = 0 THEN <<>>
                    ELSE IF s[n] \in set THEN Append(g[n - 1], s[n]) ELSE g[n - 1]
  <2>1. n # 0 => n \in 1..Len(s) /\ n - 1 \in 0..Len(s) /\ g[n - 1] \in Seq(X)
    BY <1>1, <1>r
  <2>2. n # 0 => next[<<n, g[n - 1]>>] =
                   IF s[n] \in set THEN Append(g[n - 1], s[n]) ELSE g[n - 1]
    BY <1>2, <2>1
  <2> QED
    BY <1>r, <2>2, Zenon
<1>6. g = [n \in 0..Len(s) |-> IF n = 0 THEN <<>>
             ELSE IF s[n] \in set THEN Append(g[n - 1], s[n]) ELSE g[n - 1]]
  BY <1>r, <1>5
<1>7. upto = [n \in 0..Len(s) |-> IF n = 0 THEN <<>>
                ELSE IF s[n] \in set THEN Append(upto[n - 1], s[n]) ELSE upto[n - 1]]
  BY <1>6, Zenon
<1>8. Among(s, set) = upto[Len(s)]
  BY Zenon DEF Among
<1> HIDE DEF upto
<1> DEFINE Is(n) == /\ upto[n] \in Seq(X)
                    /\ \A x : Tells(upto[n], x) <=> x \in set /\ \E j \in 1..n : s[j] = x
                    /\ Apart(s) => Apart(upto[n])
           T == {n \in Nat : n <= Len(s) => Is(n)}
<1>9. /\ Len(s) \in Nat /\ DOMAIN s = 1..Len(s) /\ \A i \in 1..Len(s) : s[i] \in X
  OBVIOUS
<1>10. 0 \in T
  <2>1. upto[0] = <<>> /\ <<>> \in Seq(X) /\ DOMAIN <<>> = {} /\ 1..0 = {}
    <3>1. 0 \in 0..Len(s)
      BY <1>1
    <3> QED
      BY <1>7, <3>1
  <2> QED
    BY <2>1 DEF Tells, Apart
<1> HIDE DEF Is
<1>11. ASSUME NEW n \in Nat, n \in T PROVE n + 1 \in T
  <2> SUFFICES ASSUME n + 1 <= Len(s) PROVE Is(n + 1)
    BY <1>9
  <2>1. Is(n) /\ n + 1 \in 1..Len(s) /\ s[n + 1] \in X
    BY <1>9, <1>11
  <2>2. upto[n + 1] = IF s[n + 1] \in set THEN Append(upto[n], s[n + 1]) ELSE upto[n]
    <3>1. n + 1 \in 0..Len(s) /\ n + 1 # 0 /\ (n + 1) - 1 = n
      BY <2>1
    <3> QED
      BY <1>7, <3>1
  <2>3. \A x : (\E j \in 1..(n + 1) : s[j] = x) <=> (\E j \in 1..n : s[j] = x) \/ s[n + 1] = x
    <3>1. n + 1 \in 1..(n + 1) /\ 1..n \subseteq 1..(n + 1) /\ \A j \in 1..(n + 1) : j \in 1..n \/ j = n + 1
      OBVIOUS
    <3> QED
      BY <3>1, Zenon
  <2>4. CASE s[n + 1] \notin set
    BY <2>1, <2>2, <2>3, <2>4 DEF Is
  <2>5. CASE s[n + 1] \in set
    <3>1. /\ Append(upto[n], s[n + 1]) \in Seq(X)
          /\ \A x : Tells(Append(upto[n], s[n + 1]), x) <=> Tells(upto[n], x) \/ x = s[n + 1]
          /\ Apart(upto[n]) /\ ~Tells(upto[n], s[n + 1]) => Apart(Append(upto[n], s[n + 1]))
      <4>1. upto[n] \in Seq(X) /\ s[n + 1] \in X
        BY <2>1 DEF Is
      <4> DEFINE r == upto[n]
                 e == s[n + 1]
      <4>2. r \in Seq(X) /\ e \in X
        BY <4>1
      <4> HIDE DEF r, e
      <4>3. /\ Append(r, e) \in Seq(X)
            /\ \A x : Tells(Append(r, e), x) <=> Tells(r, x) \/ x = e
            /\ Apart(r) /\ ~Tells(r, e) => Apart(Append(r, e))
        BY <4>2, AppendTells
      <4> QED
        BY <4>3 DEF r, e
    <3>2. ASSUME Apart(s) PROVE ~Tells(upto[n], s[n + 1])
      <4>1. \A j \in 1..n : j \in DOMAIN s /\ j # n + 1 /\ n + 1 \in DOMAIN s
        BY <1>9, <2>1
      <4> QED
        BY <2>1, <3>2, <4>1 DEF Apart, Is
    <3>3. \A x : Tells(upto[n + 1], x) <=> x \in set /\ \E j \in 1..(n + 1) : s[j] = x
      BY <2>1, <2>2, <2>3, <2>5, <3>1 DEF Is
    <3> QED
      BY <2>1, <2>2, <2>5, <3>1, <3>2, <3>3 DEF Is
  <2> QED
    BY <2>4, <2>5
<1> HIDE DEF T
<1>12. Len(s) \in T
  BY <1>9, <1>10, <1>11, EveryNumber
<1>13. Is(Len(s))
  BY <1>9, <1>12 DEF T
<1> QED
  BY <1>8, <1>9, <1>13 DEF Is, Tells

LEMMA TailTells ==
  ASSUME NEW X, NEW s \in Seq(X), s # <<>>
  PROVE  /\ Head(s) \in X /\ Tail(s) \in Seq(X)
         /\ \A x : Tells(s, x) <=> x = Head(s) \/ Tells(Tail(s), x)
<1>1. /\ Head(s) \in X /\ Tail(s) \in Seq(X) /\ Head(s) = s[1] /\ Len(s) \in Nat \ {0}
      /\ DOMAIN s = 1..Len(s) /\ DOMAIN Tail(s) = 1..(Len(s) - 1)
      /\ \A i \in 1..(Len(s) - 1) : Tail(s)[i] = s[i + 1]
  OBVIOUS
<1>2. ASSUME NEW x, Tells(s, x) PROVE x = Head(s) \/ Tells(Tail(s), x)
  <2>1. PICK i \in 1..Len(s) : s[i] = x
    BY <1>1, <1>2 DEF Tells
  <2>2. CASE i = 1
    BY <1>1, <2>1, <2>2
  <2>3. CASE i # 1
    <3>1. i - 1 \in DOMAIN Tail(s) /\ Tail(s)[i - 1] = x
      BY <1>1, <2>1, <2>3
    <3> QED
      BY <3>1 DEF Tells
  <2> QED
    BY <2>2, <2>3
<1>3. ASSUME NEW x, x = Head(s) \/ Tells(Tail(s), x) PROVE Tells(s, x)
  <2>1. CASE x = Head(s)
    <3>1. 1 \in DOMAIN s
      BY <1>1
    <3> QED
      BY <1>1, <2>1, <3>1 DEF Tells
  <2>2. CASE Tells(Tail(s), x)
    <3>1. PICK i \in 1..(Len(s) - 1) : Tail(s)[i] = x
      BY <1>1, <2>2 DEF Tells
    <3>2. i + 1 \in DOMAIN s /\ s[i + 1] = x
      BY <1>1, <3>1
    <3> QED
      BY <3>2 DEF Tells
  <2> QED
    BY <1>3, <2>1, <2>2
<1> QED
  BY <1>1, <1>2, <1>3

LEMMA ConcatTells ==
  ASSUME NEW X, NEW s \in Seq(X), NEW t \in Seq(X)
  PROVE  /\ s \o t \in Seq(X) /\ Len(s \o t) = Len(s) + Len(t)
         /\ \A x : Tells(s \o t, x) <=> Tells(s, x) \/ Tells(t, x)
<1> DEFINE u == s \o t
<1>1. /\ u \in Seq(X) /\ Len(u) = Len(s) + Len(t) /\ Len(s) \in Nat /\ Len(t) \in Nat
      /\ DOMAIN s = 1..Len(s) /\ DOMAIN t = 1..Len(t) /\ DOMAIN u = 1..(Len(s) + Len(t))
      /\ \A i \in 1..(Len(s) + Len(t)) : u[i] = IF i <= Len(s) THEN s[i] ELSE t[i - Len(s)]
  OBVIOUS
<1> HIDE DEF u
<1>2. ASSUME NEW x, Tells(u, x) PROVE Tells(s, x) \/ Tells(t, x)
  <2>1. PICK i \in 1..(Len(s) + Len(t)) : u[i] = x
    BY <1>1, <1>2 DEF Tells
  <2>2. CASE i <= Len(s)
    BY <1>1, <2>1, <2>2 DEF Tells
  <2>3. CASE i > Len(s)
    <3>1. i - Len(s) \in DOMAIN t /\ t[i - Len(s)] = x
      BY <1>1, <2>1, <2>3
    <3> QED
      BY <3>1 DEF Tells
  <2> QED
    BY <1>1, <2>2, <2>3
<1>3. ASSUME NEW x, Tells(s, x) PROVE Tells(u, x)
  <2>1. PICK i \in 1..Len(s) : s[i] = x
    BY <1>1, <1>3 DEF Tells
  <2>2. i \in DOMAIN u /\ u[i] = x
    BY <1>1, <2>1
  <2> QED
    BY <2>2 DEF Tells
<1>4. ASSUME NEW x, Tells(t, x) PROVE Tells(u, x)
  <2>1. PICK i \in 1..Len(t) : t[i] = x
    BY <1>1, <1>4 DEF Tells
  <2>2. i + Len(s) \in DOMAIN u /\ u[i + Len(s)] = x
    BY <1>1, <2>1
  <2> QED
    BY <2>2 DEF Tells
<1> QED
  BY <1>1, <1>2, <1>3, <1>4 DEF u

LEMMA ConcatApart ==
  ASSUME NEW X, NEW s \in Seq(X), NEW t \in Seq(X), Apart(s), Apart(t),
         \A x : ~(Tells(s, x) /\ Tells(t, x))
  PROVE  Apart(s \o t)
<1> DEFINE u == s \o t
<1>1. /\ Len(s) \in Nat /\ Len(t) \in Nat
      /\ DOMAIN s = 1..Len(s) /\ DOMAIN t = 1..Len(t) /\ DOMAIN u = 1..(Len(s) + Len(t))
      /\ \A i \in 1..(Len(s) + Len(t)) : u[i] = IF i <= Len(s) THEN s[i] ELSE t[i - Len(s)]
  OBVIOUS
<1> HIDE DEF u
<1>2. SUFFICES ASSUME NEW i \in DOMAIN u, NEW j \in DOMAIN u, u[i] = u[j] PROVE i = j
  BY DEF Apart, u
<1>3. CASE i <= Len(s) /\ j <= Len(s)
  <2>1. i \in DOMAIN s /\ j \in DOMAIN s /\ s[i] = s[j]
    BY <1>1, <1>2, <1>3
  <2> QED
    BY <2>1 DEF Apart
<1>4. CASE i > Len(s) /\ j > Len(s)
  <2>1. i - Len(s) \in DOMAIN t /\ j - Len(s) \in DOMAIN t /\ t[i - Len(s)] = t[j - Len(s)]
    BY <1>1, <1>2, <1>4
  <2>2. i - Len(s) = j - Len(s)
    BY <2>1 DEF Apart
  <2> QED
    BY <1>1, <1>2, <2>2
<1>5. CASE i <= Len(s) /\ j > Len(s)
  <2>1. i \in DOMAIN s /\ j - Len(s) \in DOMAIN t /\ s[i] = t[j - Len(s)]
    BY <1>1, <1>2, <1>5
  <2> QED
    BY <2>1 DEF Tells
<1>6. CASE i > Len(s) /\ j <= Len(s)
  <2>1. j \in DOMAIN s /\ i - Len(s) \in DOMAIN t /\ s[j] = t[i - Len(s)]
    BY <1>1, <1>2, <1>6
  <2> QED
    BY <2>1 DEF Tells
<1>7. i \in Nat /\ j \in Nat
  BY <1>1, <1>2
<1> QED
  BY <1>1, <1>3, <1>4, <1>5, <1>6, <1>7

(* Of any two members of u, the first is told by a sequence no later than  *)
(* the other's.                                                            *)
Follows(u, seqs, n) ==
  \A i, j \in DOMAIN u : i <= j =>
    \E k, l \in 1..n : k <= l /\ Tells(seqs[k], u[i]) /\ Tells(seqs[l], u[j])

LEMMA ConcatFollows ==
  ASSUME NEW X, NEW seqs \in Seq(Seq(X)), NEW n \in Nat, n + 1 \in DOMAIN seqs,
         NEW u \in Seq(X), Follows(u, seqs, n)
  PROVE  Follows(u \o seqs[n + 1], seqs, n + 1)
<1> DEFINE t == seqs[n + 1]
           v == u \o t
<1>0. t \in Seq(X)
  BY ElementOfSeq
<1>1. /\ Len(u) \in Nat /\ Len(t) \in Nat
      /\ DOMAIN u = 1..Len(u) /\ DOMAIN t = 1..Len(t) /\ DOMAIN v = 1..(Len(u) + Len(t))
      /\ \A i \in 1..(Len(u) + Len(t)) : v[i] = IF i <= Len(u) THEN u[i] ELSE t[i - Len(u)]
  BY <1>0
<1> HIDE DEF v
<1>2. SUFFICES ASSUME NEW i \in DOMAIN v, NEW j \in DOMAIN v, i <= j
               PROVE  \E k, l \in 1..(n + 1) : k <= l /\ Tells(seqs[k], v[i]) /\ Tells(seqs[l], v[j])
  BY DEF Follows, v
<1>3. \A k \in 1..n : k \in 1..(n + 1) /\ k <= n + 1
  OBVIOUS
<1>n. n + 1 \in 1..(n + 1) /\ n + 1 <= n + 1
  OBVIOUS
<1>4. \A h \in DOMAIN v : h > Len(u) => Tells(seqs[n + 1], v[h])
  <2> TAKE h \in DOMAIN v
  <2> HAVE h > Len(u)
  <2>1. h - Len(u) \in DOMAIN t /\ t[h - Len(u)] = v[h]
    BY <1>1
  <2> QED
    BY <2>1 DEF Tells
<1> HIDE DEF t
<1>5. CASE j <= Len(u)
  <2>1. i \in DOMAIN u /\ j \in DOMAIN u /\ u[i] = v[i] /\ u[j] = v[j]
    BY <1>1, <1>2, <1>5
  <2>2. PICK k \in 1..n, l \in 1..n : k <= l /\ Tells(seqs[k], v[i]) /\ Tells(seqs[l], v[j])
    BY <1>2, <2>1 DEF Follows
  <2> QED
    BY <1>3, <2>2
<1>6. CASE i <= Len(u) /\ j > Len(u)
  <2>1. i \in DOMAIN u /\ u[i] = v[i] /\ i <= i
    BY <1>1, <1>2, <1>6
  <2>2. PICK k \in 1..n : Tells(seqs[k], v[i])
    BY <2>1 DEF Follows
  <2> QED
    BY <1>3, <1>n, <1>4, <1>6, <2>2
<1>7. CASE i > Len(u) /\ j > Len(u)
  BY <1>n, <1>4, <1>7
<1> QED
  BY <1>1, <1>2, <1>5, <1>6, <1>7

(* Joined puts sequences one after another: it tells what they tell, in    *)
(* their order, and keeps apart what they do.                              *)
LEMMA JoinedIs ==
  ASSUME NEW X, NEW seqs \in Seq(Seq(X))
  PROVE  /\ Joined(seqs) \in Seq(X)
         /\ \A x : Tells(Joined(seqs), x) <=> \E k \in DOMAIN seqs : Tells(seqs[k], x)
         /\ Follows(Joined(seqs), seqs, Len(seqs))
         /\ /\ \A k \in DOMAIN seqs : Apart(seqs[k])
            /\ \A x : \A k, l \in DOMAIN seqs : Tells(seqs[k], x) /\ Tells(seqs[l], x) => k = l
            => Apart(Joined(seqs))
<1> DEFINE m == Len(seqs)
           next == [p \in Nat \X Seq(X) |-> p[2] \o seqs[p[1]]]
           upto == CHOOSE f : f = [n \in 0..Len(seqs) |-> IF n = 0 THEN <<>> ELSE f[n - 1] \o seqs[n]]
<1>1. m \in Nat /\ DOMAIN seqs = 1..m /\ <<>> \in Seq(X)
  OBVIOUS
<1>2. \A n \in 1..m : n \in Nat /\ seqs[n] \in Seq(X)
  BY <1>1, ElementOfSeq
<1> HIDE DEF m
<1>3. \A n \in 1..m, r \in Seq(X) : next[<<n, r>>] = r \o seqs[n]
  BY <1>2, Zenon
<1> HIDE DEF next
<1>4. StaysTo(next, m, Seq(X))
  <2>1. ASSUME NEW n \in 1..m, NEW r \in Seq(X) PROVE next[<<n, r>>] \in Seq(X)
    <3>1. seqs[n] \in Seq(X)
      BY <1>2
    <3>2. r \o seqs[n] \in Seq(X)
      BY <3>1, ConcatTells
    <3> QED
      BY <1>3, <3>2
  <2> QED
    BY <2>1 DEF StaysTo
<1>5. PICK g : RecursTo(g, m, Seq(X), <<>>, next)
  BY <1>1, <1>4, RecursionTo
<1>6. /\ g \in [0..m -> Seq(X)]
      /\ \A n \in 0..m : g[n] = IF n = 0 THEN <<>> ELSE next[<<n, g[n - 1]>>]
  BY <1>5 DEF RecursTo
<1>7. ASSUME NEW n \in 0..m PROVE g[n] = IF n = 0 THEN <<>> ELSE g[n - 1] \o seqs[n]
  <2>1. n # 0 => n \in 1..m /\ n - 1 \in 0..m /\ g[n - 1] \in Seq(X)
    BY <1>1, <1>6
  <2>2. n # 0 => next[<<n, g[n - 1]>>] = g[n - 1] \o seqs[n]
    BY <1>3, <2>1
  <2> QED
    BY <1>6, <2>2, Zenon
<1>8. g = [n \in 0..m |-> IF n = 0 THEN <<>> ELSE g[n - 1] \o seqs[n]]
  BY <1>6, <1>7
<1>9. upto = [n \in 0..m |-> IF n = 0 THEN <<>> ELSE upto[n - 1] \o seqs[n]]
  BY <1>8, Zenon DEF m
<1>10. Joined(seqs) = upto[m]
  BY Zenon DEF Joined, m
<1> HIDE DEF upto
<1>11. upto[0] = <<>> /\ \A n \in Nat : n + 1 <= m => upto[n + 1] = upto[n] \o seqs[n + 1]
  <2>1. 0 \in 0..m /\ \A n \in Nat : n + 1 <= m => n + 1 \in 0..m /\ n + 1 # 0 /\ (n + 1) - 1 = n
    BY <1>1
  <2> QED
    BY <1>9, <2>1
<1> DEFINE Alone == /\ \A k \in DOMAIN seqs : Apart(seqs[k])
                    /\ \A x : \A k, l \in DOMAIN seqs : Tells(seqs[k], x) /\ Tells(seqs[l], x) => k = l
           Is(n) == /\ upto[n] \in Seq(X)
                    /\ \A x : Tells(upto[n], x) <=> \E k \in 1..n : Tells(seqs[k], x)
                    /\ Follows(upto[n], seqs, n)
                    /\ Alone => Apart(upto[n])
           T == {n \in Nat : n <= m => Is(n)}
<1>12. 0 \in T
  <2>1. DOMAIN <<>> = {} /\ 1..0 = {}
    OBVIOUS
  <2> QED
    BY <1>1, <1>11, <2>1 DEF Tells, Apart, Follows
<1>13. ASSUME NEW n \in Nat, n \in T PROVE n + 1 \in T
  <2> SUFFICES ASSUME n + 1 <= m PROVE Is(n + 1)
    OBVIOUS
  <2>1. Is(n) /\ n + 1 \in 1..m /\ upto[n + 1] = upto[n] \o seqs[n + 1]
    <3> HIDE DEF Is
    <3>1. n + 1 \in 1..m /\ n <= m
      BY <1>1
    <3>2. Is(n)
      BY <1>13, <3>1
    <3> QED
      BY <1>11, <3>1, <3>2
  <2> DEFINE u == upto[n]
             t == seqs[n + 1]
  <2>2. u \in Seq(X) /\ t \in Seq(X)
    BY <1>2, <2>1
  <2>3. \A x : Tells(u, x) <=> \E k \in 1..n : Tells(seqs[k], x)
    BY <2>1
  <2>4. Follows(u, seqs, n) /\ (Alone => Apart(u))
    BY <2>1
  <2>5. upto[n + 1] = u \o t
    BY <2>1
  <2> HIDE DEF u, t, Alone
  <2>6. u \o t \in Seq(X) /\ \A x : Tells(u \o t, x) <=> Tells(u, x) \/ Tells(t, x)
    BY <2>2, ConcatTells
  <2>7. \A x : (\E k \in 1..(n + 1) : Tells(seqs[k], x)) <=> (\E k \in 1..n : Tells(seqs[k], x)) \/ Tells(t, x)
    <3>1. n + 1 \in 1..(n + 1) /\ 1..n \subseteq 1..(n + 1) /\ \A j \in 1..(n + 1) : j \in 1..n \/ j = n + 1
      OBVIOUS
    <3> QED
      BY <3>1, Zenon DEF t
  <2>8. Follows(u \o t, seqs, n + 1)
    BY <1>1, <2>1, <2>2, <2>4, ConcatFollows DEF t
  <2>9. ASSUME Alone PROVE Apart(u \o t)
    <3>1. Apart(t)
      BY <1>1, <2>1, <2>9 DEF Alone, t
    <3>2. \A k \in 1..n : k \in DOMAIN seqs /\ n + 1 \in DOMAIN seqs /\ k # n + 1
      BY <1>1, <2>1
    <3>3. \A x : ~(Tells(u, x) /\ Tells(t, x))
      BY <2>3, <2>9, <3>2 DEF Alone, t
    <3> QED
      BY <2>2, <2>4, <2>9, <3>1, <3>3, ConcatApart
  <2> QED
    BY <2>3, <2>5, <2>6, <2>7, <2>8, <2>9
<1> HIDE DEF T
<1>14. m \in T
  BY <1>1, <1>12, <1>13, EveryNumber
<1>15. Is(m)
  BY <1>1, <1>14 DEF T
<1> QED
  BY <1>1, <1>10, <1>15 DEF m

-----------------------------------------------------------------------------
(* What each variable may hold.  Each moment the store passed through held *)
(* a store, and none is lost.                                              *)

PastOK ==
  /\ \E M : past \in Seq(M)
  /\ Len(past) # 0 /\ \A i \in DOMAIN past : past[i].holds \in Stores

LEMMA PastGrows ==
  ASSUME PastOK, NEW moment, moment.holds \in Stores, past' = Append(past, moment)
  PROVE  /\ PastOK' /\ Len(past') = Len(past) + 1 /\ DOMAIN past \subseteq DOMAIN past'
         /\ \A i \in DOMAIN past : past'[i] = past[i]
         /\ past'[Len(past')] = moment
<1>1. PICK M : past \in Seq(M)
  BY DEF PastOK
<1>2. /\ past \in Seq(M \cup {moment}) /\ Len(past) \in Nat /\ DOMAIN past = 1..Len(past)
  BY <1>1
<1>3. /\ past' \in Seq(M \cup {moment}) /\ Len(past') = Len(past) + 1
      /\ DOMAIN past' = 1..(Len(past) + 1) /\ past'[Len(past) + 1] = moment
      /\ \A i \in 1..Len(past) : past'[i] = past[i]
  BY <1>2
<1>4. \A i \in DOMAIN past' : past'[i].holds \in Stores
  <2>1. \A i \in DOMAIN past' : i \in DOMAIN past \/ i = Len(past) + 1
    BY <1>2, <1>3
  <2> QED
    BY <1>2, <1>3, <2>1 DEF PastOK
<1> QED
  BY <1>2, <1>3, <1>4 DEF PastOK

Reading == [id : Iris, number : Nat, holds : Artifact \cup TypeVersion]
Given == Reading \cup [position : Nat]

Call == [step : {"none", "asked", "reading", "read", "looked", "created", "copied", "checked"},
         op : {"none", "list", "export", "snapshot", "backup"},
         asked : {"nothing"} \cup Namings \cup Places \cup Selections, since : Nat, view : Nat,
         left : Seq(Iris \X Nat), got : SUBSET Given]
File == [stands : BOOLEAN, copy : Nat, whole : BOOLEAN, form : BOOLEAN, mark : BOOLEAN]

(* What a call has yet to read is an artifact, or a version of a type.     *)
Readable(st, left) ==
  \A r : Tells(left, r) /\ r[2] # 0 => r[2] \in DOMAIN st[r[1]].versions

(* A call asks for what its kind of call takes, and is made of the steps   *)
(* its kind takes.                                                         *)
OnCourse(c) ==
  /\ call[c].op = "none" <=> call[c].step = "none"
  /\ call[c].op = "backup" => call[c].asked \in Places
  /\ call[c].op = "snapshot" => call[c].asked \in Namings
  /\ call[c].op \in {"list", "export"} => call[c].asked \in Selections
  /\ call[c].step \in {"looked", "created", "copied", "checked"} => call[c].op = "backup"
  /\ call[c].step \in {"reading", "read"} => call[c].op # "backup"
  /\ call[c].step # "none" => call[c].since \in 1..Len(past)
  /\ call[c].step \in {"reading", "read"} => call[c].view \in call[c].since..Len(past)
  /\ call[c].step = "reading" => Readable(past[call[c].view].holds, call[c].left)

TypeInv ==
  /\ PastOK
  /\ files \in [Places -> File]
  /\ call \in [Calls -> Call]
  /\ \A c \in Calls : OnCourse(c)

LEMMA NoCallType == NoCall \in Call
<1>1. <<>> \in Seq(Iris \X Nat)
  OBVIOUS
<1> QED
  BY <1>1 DEF NoCall, Call

LEMMA NowIs ==
  ASSUME PastOK
  PROVE  Now \in Stores /\ Len(past) \in Nat \ {0} /\ DOMAIN past = 1..Len(past)
         /\ Now = past[Len(past)].holds
<1>1. Len(past) \in Nat \ {0} /\ DOMAIN past = 1..Len(past)
  BY DEF PastOK
<1> QED
  BY <1>1 DEF PastOK, Now

LEMMA NamesAre ==
  ASSUME NEW st \in Stores, NEW select
  PROVE  /\ Ids(st, select) \in Seq(Iris)
         /\ \A x : Tells(Ids(st, select), x) <=> x \in Iris /\ Selects(st, select, x)
<1>1. NameOrder \in Seq(Iris) /\ \A x \in Iris : Tells(NameOrder, x)
  BY OrderAssumption DEF Tells
<1> QED
  BY <1>1, AmongIs DEF Ids

LEMMA VersionsAre ==
  ASSUME NEW st \in Stores, NEW x \in Iris
  PROVE  /\ Versions(st, x) \in Seq(Nat \ {0})
         /\ \A n : Tells(Versions(st, x), n) <=> n \in DOMAIN st[x].versions /\ KeptVersion(st, <<x, n>>)
<1> DEFINE numbers == [n \in DOMAIN st[x].versions |-> n]
<1>1. st[x].versions \in Seq(TypeVersion)
  BY DEF Stores, Artifact
<1>2. numbers \in Seq(Nat \ {0}) /\ DOMAIN numbers = DOMAIN st[x].versions
  BY <1>1
<1>3. \A n : Tells(numbers, n) <=> n \in DOMAIN st[x].versions
  BY DEF Tells
<1> HIDE DEF numbers
<1>4. Versions(st, x) = Among(numbers, {n \in DOMAIN st[x].versions : KeptVersion(st, <<x, n>>)})
  BY Zenon DEF Versions, numbers
<1> QED
  BY <1>2, <1>3, <1>4, AmongIs

LEMMA TypesStart == Init => TypeInv
<1> SUFFICES ASSUME Init PROVE TypeInv
  OBVIOUS
<1>1. PastOK
  <2>1. past \in Seq({[holds |-> Before, rows |-> RowsBefore, lists |-> {}]}) /\ Len(past) = 1
        /\ DOMAIN past = {1} /\ past[1].holds = Before
    BY DEF Init
  <2> QED
    BY <2>1, BeforeAssumption DEF PastOK, Stores
<1>2. NoFile \in File /\ MadeEmpty \in File
  BY DEF NoFile, MadeEmpty, File
<1>3. files \in [Places -> File]
  <2>1. \A p \in Places : (IF p \in Kept THEN MadeEmpty ELSE NoFile) \in File
    BY <1>2
  <2> QED
    BY <2>1 DEF Init
<1>4. call \in [Calls -> Call] /\ \A c \in Calls : call[c] = NoCall
  BY NoCallType DEF Init
<1>5. \A c \in Calls : OnCourse(c)
  BY <1>4 DEF OnCourse, NoCall
<1> QED
  BY <1>1, <1>3, <1>4, <1>5 DEF TypeInv

(* What a call does leaves the others as they are.                         *)
LEMMA OneCall ==
  ASSUME TypeInv, NEW c \in Calls, NEW to, call' = [call EXCEPT ![c] = to], to \in Call,
         PastOK', DOMAIN past \subseteq DOMAIN past', \A i \in DOMAIN past : past'[i] = past[i], files' \in [Places -> File],
         OnCourse(c)'
  PROVE  TypeInv'
<1>1. call' \in [Calls -> Call] /\ call'[c] = to /\ \A d \in Calls \ {c} : call'[d] = call[d]
  BY DEF TypeInv
<1>2. ASSUME NEW d \in Calls \ {c} PROVE OnCourse(d)'
  <2>1. OnCourse(d) /\ call'[d] = call[d]
    BY <1>1 DEF TypeInv
  <2>2. /\ Len(past) \in Nat /\ Len(past') \in Nat
        /\ DOMAIN past = 1..Len(past) /\ DOMAIN past' = 1..Len(past')
    BY DEF TypeInv, PastOK
  <2>3. Len(past) <= Len(past')
    <3>1. Len(past) # 0 => Len(past) \in 1..Len(past')
      BY <2>2
    <3> QED
      BY <2>2, <3>1
  <2>4. call[d] \in Call
    BY DEF TypeInv
  <2>5. call[d].since \in Nat /\ call[d].view \in Nat
    BY <2>4 DEF Call
  <2>6. call[d].step \in {"reading", "read"} => call[d].view \in 1..Len(past)
    BY <2>1, <2>2, <2>5 DEF OnCourse
  <2>7. call[d].step = "reading" => past'[call[d].view] = past[call[d].view]
    BY <2>2, <2>6
  <2> QED
    BY <2>1, <2>2, <2>3, <2>5, <2>7 DEF OnCourse
<1> QED
  BY <1>1, <1>2 DEF TypeInv

LEMMA NoCourse ==
  ASSUME NEW c \in Calls, call'[c] = NoCall
  PROVE  OnCourse(c)'
BY DEF OnCourse, NoCall

LEMMA ReadOfType ==
  ASSUME NEW st \in Stores, NEW x \in Iris, NEW n \in Nat, n # 0 => n \in DOMAIN st[x].versions
  PROVE  ReadOf(st, x, n) \in Reading
<1>1. st[x] \in Artifact /\ st[x].versions \in Seq(TypeVersion)
  BY DEF Stores, Artifact
<1>2. n # 0 => st[x].versions[n] \in TypeVersion
  BY <1>1, ElementOfSeq
<1> QED
  BY <1>1, <1>2 DEF ReadOf, Reading

(* The names a call reads as it begins.                                    *)
LEMMA BeginsNames ==
  ASSUME TypeInv, NEW c \in Calls, call[c].step = "asked", call[c].op # "backup"
  PROVE  /\ Names(Now, c) \in Seq(Iris)
         /\ \A x : Tells(Names(Now, c), x) <=>
              x \in Iris /\ IF call[c].op = "snapshot" THEN Tells(call[c].asked, x)
                            ELSE Selects(Now, call[c].asked, x)
<1>1. Now \in Stores
  BY NowIs DEF TypeInv
<1>2. CASE call[c].op = "snapshot"
  <2>1. call[c].asked \in Seq(Iris)
    BY <1>2, NamingsAssumption DEF TypeInv, OnCourse
  <2>2. \A x : Tells(call[c].asked, x) => x \in Iris
    BY <2>1, ElementOfSeq DEF Tells
  <2> QED
    BY <1>2, <2>1, <2>2 DEF Names
<1>3. CASE call[c].op # "snapshot"
  BY <1>1, <1>3, NamesAre DEF Names
<1> QED
  BY <1>2, <1>3

(* What is left to read as a call begins.                                  *)
Reads(names) == [i \in DOMAIN names |-> <<names[i], 0>>]

LEMMA ReadsAre ==
  ASSUME NEW names \in Seq(Iris)
  PROVE  /\ Reads(names) \in Seq(Iris \X Nat)
         /\ \A r : Tells(Reads(names), r) <=> \E x : Tells(names, x) /\ r = <<x, 0>>
<1>1. \A i \in DOMAIN names : names[i] \in Iris
  BY ElementOfSeq
<1>2. DOMAIN names = 1..Len(names) /\ Len(names) \in Nat
  OBVIOUS
<1> QED
  BY <1>1, <1>2 DEF Reads, Tells

(* The versions of a type yet to read.                                     *)
VersionReads(st, x) == [i \in DOMAIN Versions(st, x) |-> <<x, Versions(st, x)[i]>>]

LEMMA VersionReadsAre ==
  ASSUME NEW st \in Stores, NEW x \in Iris
  PROVE  /\ VersionReads(st, x) \in Seq(Iris \X Nat)
         /\ \A r : Tells(VersionReads(st, x), r) <=>
              \E n : Tells(Versions(st, x), n) /\ r = <<x, n>>
<1>1. Versions(st, x) \in Seq(Nat \ {0})
  BY VersionsAre
<1>2. \A i \in DOMAIN Versions(st, x) : Versions(st, x)[i] \in Nat
  BY <1>1, ElementOfSeq
<1>3. DOMAIN Versions(st, x) = 1..Len(Versions(st, x)) /\ Len(Versions(st, x)) \in Nat
  BY <1>1
<1> QED
  BY <1>2, <1>3 DEF VersionReads, Tells

(* The steps of a call that reads.                                         *)
LEMMA BeginsIs ==
  ASSUME TypeInv, NEW c \in Calls, Begins(c)
  PROVE  /\ call[c].step = "asked" /\ call[c].op # "backup" /\ past' = past /\ files' = files
         /\ \/ call' = [call EXCEPT ![c] = NoCall]
            \/ call' = [call EXCEPT ![c] = [call[c] EXCEPT !.step = "reading", !.view = Len(past),
                                                           !.left = Reads(Names(Now, c))]]
BY DEF Begins, Reads

(* The store a call reads, and the next read it has to make.               *)
Seen(c) == past[call[c].view].holds
Following(c) == Head(call[c].left)

LEMMA TakesIs ==
  ASSUME TypeInv, NEW c \in Calls, Takes(c)
  PROVE  /\ call[c].step = "reading" /\ call[c].left # <<>> /\ past' = past /\ files' = files
         /\ \/ /\ call[c].op = "export" /\ Following(c)[2] = 0 /\ Typed(Seen(c), Following(c)[1])
               /\ call' = [call EXCEPT ![c] =
                             [call[c] EXCEPT !.left = VersionReads(Seen(c), Following(c)[1]) \o Tail(call[c].left)]]
            \/ /\ ~(call[c].op = "export" /\ Following(c)[2] = 0 /\ Typed(Seen(c), Following(c)[1]))
               /\ call' = [call EXCEPT ![c] =
                             [call[c] EXCEPT !.left = Tail(call[c].left),
                                             !.got = call[c].got \cup {ReadOf(Seen(c), Following(c)[1], Following(c)[2])}]]
<1> DEFINE left == VersionReads(Seen(c), Following(c)[1]) \o Tail(call[c].left)
           typed == call[c].op = "export" /\ Following(c)[2] = 0 /\ Typed(Seen(c), Following(c)[1])
<1>1. call[c].step = "reading" /\ call[c].left # <<>> /\ past' = past /\ files' = files
  BY DEF Takes
<1>2. call' = [call EXCEPT ![c] =
                 IF typed THEN [call[c] EXCEPT !.left = VersionReads(Seen(c), Following(c)[1]) \o Tail(@)]
                 ELSE [call[c] EXCEPT !.left = Tail(@),
                                      !.got = @ \cup {ReadOf(Seen(c), Following(c)[1], Following(c)[2])}]]
  BY Zenon DEF Takes, At, VersionReads, Seen, Following
<1> QED
  BY <1>1, <1>2

LEMMA ViewIs ==
  ASSUME TypeInv, NEW c \in Calls, call[c].step \in {"reading", "read"}
  PROVE  /\ call[c].view \in DOMAIN past /\ past[call[c].view].holds \in Stores
         /\ call[c].since \in Nat \ {0} /\ call[c].since <= call[c].view /\ call[c].view <= Len(past)
         /\ call[c].left \in Seq(Iris \X Nat) /\ call[c].got \in SUBSET Given
<1>1. Len(past) \in Nat /\ DOMAIN past = 1..Len(past)
  BY DEF TypeInv, PastOK
<1>2. call[c] \in Call /\ OnCourse(c)
  BY DEF TypeInv
<1>3. call[c].since \in 1..Len(past) /\ call[c].view \in call[c].since..Len(past)
  BY <1>2 DEF OnCourse
<1> QED
  BY <1>1, <1>2, <1>3 DEF Call, TypeInv, PastOK

LEMMA LandsIs ==
  ASSUME TypeInv, Lands
  PROVE  /\ call' = call /\ files' = files
         /\ \E moment : moment.holds \in Stores /\ past' = Append(past, moment)
<1>1. PICK ops \in Sets :
        /\ LandsWhole(Now, ops)
        /\ past' = Append(past, [holds |-> Put(Now, Drafted(Now, ops)), lists |-> {},
                                 rows |-> Indexed(past[Len(past)].rows, Drafted(Now, ops))])
  BY DEF Lands
<1>2. Now \in Stores /\ ops \in Seq(Operation)
  BY NowIs, BeforeAssumption DEF TypeInv
<1>3. Put(Now, Drafted(Now, ops)) \in Stores
  BY <1>2, DraftedType, PutType
<1> QED
  BY <1>1, <1>3 DEF Lands

(* A step that leaves the past, and one that lets a call go.               *)
LEMMA Still ==
  ASSUME TypeInv, past' = past
  PROVE  PastOK' /\ DOMAIN past \subseteq DOMAIN past' /\ \A i \in DOMAIN past : past'[i] = past[i]
BY DEF TypeInv, PastOK

LEMMA LeavesType ==
  ASSUME TypeInv, NEW c \in Calls, call' = [call EXCEPT ![c] = NoCall],
         PastOK', DOMAIN past \subseteq DOMAIN past', \A i \in DOMAIN past : past'[i] = past[i],
         files' \in [Places -> File]
  PROVE  TypeInv'
<1>1. call'[c] = NoCall
  BY DEF TypeInv
<1>2. OnCourse(c)'
  BY <1>1, NoCourse
<1> QED
  BY <1>2, NoCallType, OneCall

LEMMA GoesType ==
  ASSUME TypeInv, NEW c \in Calls, call[c].op = "backup", call[c].step # "none", NEW file \in File,
         NEW step \in {"none", "looked", "created", "copied", "checked"}, Goes(c, step, file)
  PROVE  TypeInv'
<1>1. call[c] \in Call /\ OnCourse(c) /\ files \in [Places -> File] /\ call \in [Calls -> Call]
  BY DEF TypeInv
<1>2. Into(c) \in Places
  BY <1>1 DEF OnCourse, Into
<1>3. past' = past /\ files' = [files EXCEPT ![Into(c)] = file]
      /\ call' = [call EXCEPT ![c] = IF step = "none" THEN NoCall ELSE [call[c] EXCEPT !.step = step]]
  BY DEF Goes
<1>4. files' \in [Places -> File]
  BY <1>1, <1>2, <1>3
<1>5. CASE step = "none"
  <2>1. call' = [call EXCEPT ![c] = NoCall]
    BY <1>3, <1>5
  <2> QED
    BY <1>3, <1>4, <2>1, Still, LeavesType
<1>6. CASE step # "none"
  <2> DEFINE to == [call[c] EXCEPT !.step = step]
  <2>1. call' = [call EXCEPT ![c] = to]
    BY <1>3, <1>6
  <2>2. to \in Call
    BY <1>1, <1>6 DEF Call
  <2>3. call'[c] = to
    BY <1>1, <2>1
  <2>4. /\ to.op = call[c].op /\ to.step = step /\ to.asked = call[c].asked
        /\ to.since = call[c].since
    BY <1>1 DEF Call
  <2>5. OnCourse(c)'
    BY <1>1, <1>3, <1>6, <2>3, <2>4 DEF OnCourse
  <2> QED
    BY <1>3, <1>4, <2>1, <2>2, <2>5, Still, OneCall
<1> QED
  BY <1>5, <1>6

LEMMA AsksType ==
  ASSUME TypeInv, NEW c \in Calls, Asks(c)
  PROVE  TypeInv'
<1>1. PICK op \in {"list", "export", "snapshot", "backup"} :
        \E asked \in CASE op = "snapshot" -> Namings [] op = "backup" -> Places [] OTHER -> Selections :
          call' = [call EXCEPT ![c] = [NoCall EXCEPT !.step = "asked", !.op = op, !.asked = asked,
                                                     !.since = Len(past)]]
  BY DEF Asks
<1>2. PICK asked \in CASE op = "snapshot" -> Namings [] op = "backup" -> Places [] OTHER -> Selections :
        call' = [call EXCEPT ![c] = [NoCall EXCEPT !.step = "asked", !.op = op, !.asked = asked,
                                                   !.since = Len(past)]]
  BY <1>1
<1> DEFINE to == [NoCall EXCEPT !.step = "asked", !.op = op, !.asked = asked, !.since = Len(past)]
<1>3. /\ op = "snapshot" => asked \in Namings
      /\ op = "backup" => asked \in Places
      /\ op \in {"list", "export"} => asked \in Selections
  BY <1>1, <1>2
<1>4. Len(past) \in Nat \ {0} /\ past' = past /\ files' = files
  BY NowIs DEF TypeInv, Asks
<1>5. /\ to.step = "asked" /\ to.op = op /\ to.asked = asked /\ to.since = Len(past)
      /\ to.view = 0 /\ to.left = <<>> /\ to.got = {}
  BY DEF NoCall
<1>6. to \in Call
  <2>1. <<>> \in Seq(Iris \X Nat) /\ asked \in Namings \cup Places \cup Selections
    BY <1>1, <1>3
  <2> QED
    BY <1>4, <2>1 DEF Call, NoCall
<1>7. call'[c] = to
  BY <1>2 DEF TypeInv
<1> HIDE DEF to
<1>8. OnCourse(c)'
  BY <1>1, <1>3, <1>4, <1>5, <1>7 DEF OnCourse
<1>9. call' = [call EXCEPT ![c] = to] /\ files' \in [Places -> File]
  BY <1>2, <1>4 DEF to, TypeInv
<1> QED
  BY <1>4, <1>6, <1>8, <1>9, Still, OneCall

LEMMA BeginsType ==
  ASSUME TypeInv, NEW c \in Calls, Begins(c)
  PROVE  TypeInv'
<1> DEFINE to == [call[c] EXCEPT !.step = "reading", !.view = Len(past), !.left = Reads(Names(Now, c))]
<1>1. /\ call[c].step = "asked" /\ call[c].op # "backup" /\ past' = past /\ files' = files
      /\ call' = [call EXCEPT ![c] = NoCall] \/ call' = [call EXCEPT ![c] = to]
  BY BeginsIs
<1>2. files' \in [Places -> File] /\ call \in [Calls -> Call] /\ call[c] \in Call /\ OnCourse(c)
  BY <1>1 DEF TypeInv
<1>3. CASE call' = [call EXCEPT ![c] = NoCall]
  BY <1>1, <1>2, <1>3, Still, LeavesType
<1>4. CASE call' = [call EXCEPT ![c] = to]
  <2>1. Len(past) \in Nat \ {0} /\ past[Len(past)].holds = Now
    BY NowIs DEF TypeInv
  <2>2. /\ Reads(Names(Now, c)) \in Seq(Iris \X Nat)
        /\ \A r : Tells(Reads(Names(Now, c)), r) => \E x : r = <<x, 0>>
    BY <1>1, BeginsNames, ReadsAre
  <2>3. to \in Call
    BY <1>2, <2>1, <2>2 DEF Call
  <2>4. call'[c] = to
    BY <1>2, <1>4
  <2>5. /\ to.step = "reading" /\ to.op = call[c].op /\ to.asked = call[c].asked
        /\ to.since = call[c].since /\ to.view = Len(past) /\ to.left = Reads(Names(Now, c))
    BY <1>2 DEF Call
  <2> HIDE DEF to
  <2>6. Readable(Now, to.left)
    BY <2>2, <2>5 DEF Readable
  <2>7. call[c].since \in 1..Len(past)
    BY <1>1, <1>2 DEF OnCourse
  <2>8. OnCourse(c)'
    BY <1>1, <1>2, <2>1, <2>4, <2>5, <2>6, <2>7 DEF OnCourse
  <2> QED
    BY <1>1, <1>2, <1>4, <2>3, <2>8, Still, OneCall
<1> QED
  BY <1>1, <1>3, <1>4

(* What a call is left to read, and given, by the next of its reads.       *)
LEMMA TakesLeaves ==
  ASSUME TypeInv, NEW c \in Calls, call[c].step = "reading", call[c].left # <<>>
  PROVE  /\ Following(c) \in Iris \X Nat /\ Seen(c) \in Stores
         /\ Following(c)[1] \in Iris /\ Following(c)[2] \in Nat /\ (Following(c)[2] # 0 => Following(c)[2] \in DOMAIN Seen(c)[Following(c)[1]].versions)
         /\ Tail(call[c].left) \in Seq(Iris \X Nat) /\ Readable(Seen(c), Tail(call[c].left))
         /\ \A r : Tells(call[c].left, r) <=> r = Following(c) \/ Tells(Tail(call[c].left), r)
         /\ VersionReads(Seen(c), Following(c)[1]) \o Tail(call[c].left) \in Seq(Iris \X Nat)
         /\ \A r : Tells(VersionReads(Seen(c), Following(c)[1]) \o Tail(call[c].left), r) <=>
              \/ \E n : n \in DOMAIN Seen(c)[Following(c)[1]].versions /\ KeptVersion(Seen(c), <<Following(c)[1], n>>) /\ r = <<Following(c)[1], n>>
              \/ Tells(Tail(call[c].left), r)
         /\ Readable(Seen(c), VersionReads(Seen(c), Following(c)[1]) \o Tail(call[c].left))
<1> DEFINE rest == Tail(call[c].left)
           st == Seen(c)
           next == Following(c)
<1>1. st \in Stores /\ call[c].left \in Seq(Iris \X Nat)
  BY ViewIs DEF Seen
<1>2. /\ next \in Iris \X Nat /\ rest \in Seq(Iris \X Nat)
      /\ \A r : Tells(call[c].left, r) <=> r = next \/ Tells(rest, r)
  BY <1>1, TailTells DEF Following
<1>3. Readable(st, call[c].left)
  BY DEF TypeInv, OnCourse, Seen
<1>4. next[1] \in Iris /\ next[2] \in Nat
  BY <1>2
<1>5. /\ VersionReads(st, next[1]) \in Seq(Iris \X Nat)
      /\ \A r : Tells(VersionReads(st, next[1]), r) <=>
           \E n : n \in DOMAIN st[next[1]].versions /\ KeptVersion(st, <<next[1], n>>) /\ r = <<next[1], n>>
  <2>1. /\ VersionReads(st, next[1]) \in Seq(Iris \X Nat)
        /\ \A r : Tells(VersionReads(st, next[1]), r) <=>
             \E n : Tells(Versions(st, next[1]), n) /\ r = <<next[1], n>>
    BY <1>1, <1>4, VersionReadsAre, Zenon
  <2>2. \A n : Tells(Versions(st, next[1]), n) <=>
          n \in DOMAIN st[next[1]].versions /\ KeptVersion(st, <<next[1], n>>)
    BY <1>1, <1>4, VersionsAre, Zenon
  <2> QED
    BY <2>1, <2>2
<1> HIDE DEF rest, st, next
<1>6. /\ VersionReads(st, next[1]) \o rest \in Seq(Iris \X Nat)
      /\ \A r : Tells(VersionReads(st, next[1]) \o rest, r) <=>
           Tells(VersionReads(st, next[1]), r) \/ Tells(rest, r)
  BY <1>2, <1>5, ConcatTells
<1>7. Readable(st, rest) /\ (next[2] # 0 => next[2] \in DOMAIN st[next[1]].versions)
  BY <1>2, <1>3 DEF Readable
<1>8. Readable(st, VersionReads(st, next[1]) \o rest)
  <2> SUFFICES ASSUME NEW r, Tells(VersionReads(st, next[1]) \o rest, r), r[2] # 0
               PROVE  r[2] \in DOMAIN st[r[1]].versions
    BY DEF Readable
  <2>1. CASE Tells(rest, r)
    BY <1>7, <2>1 DEF Readable
  <2>2. CASE Tells(VersionReads(st, next[1]), r)
    <3>1. PICK n : n \in DOMAIN st[next[1]].versions /\ r = <<next[1], n>>
      BY <1>5, <2>2
    <3> QED
      BY <3>1
  <2> QED
    BY <1>6, <2>1, <2>2
<1> QED
  BY <1>1, <1>2, <1>4, <1>5, <1>6, <1>7, <1>8 DEF rest, st, next

LEMMA TakesType ==
  ASSUME TypeInv, NEW c \in Calls, Takes(c)
  PROVE  TypeInv'
<1> DEFINE st == Seen(c)
           next == Following(c)
           further == [call[c] EXCEPT !.left = VersionReads(st, next[1]) \o Tail(call[c].left)]
           given == [call[c] EXCEPT !.left = Tail(call[c].left),
                                    !.got = call[c].got \cup {ReadOf(st, next[1], next[2])}]
<1>1. /\ call[c].step = "reading" /\ call[c].left # <<>> /\ past' = past /\ files' = files
      /\ call' = [call EXCEPT ![c] = further] \/ call' = [call EXCEPT ![c] = given]
  BY TakesIs
<1>2. call \in [Calls -> Call] /\ call[c] \in Call /\ OnCourse(c) /\ files' \in [Places -> File]
  BY <1>1 DEF TypeInv
<1>3. /\ st \in Stores /\ next[1] \in Iris /\ next[2] \in Nat
      /\ next[2] # 0 => next[2] \in DOMAIN st[next[1]].versions
      /\ Tail(call[c].left) \in Seq(Iris \X Nat) /\ Readable(st, Tail(call[c].left))
      /\ VersionReads(st, next[1]) \o Tail(call[c].left) \in Seq(Iris \X Nat)
      /\ Readable(st, VersionReads(st, next[1]) \o Tail(call[c].left))
  BY <1>1, TakesLeaves
<1>4. ReadOf(st, next[1], next[2]) \in Given
  BY <1>3, ReadOfType DEF Given
<1> DEFINE on(to) == to \in Call /\ \A f \in {"step", "op", "asked", "since", "view"} : to[f] = call[c][f]
<1>5. on(further) /\ Readable(st, further.left)
  BY <1>2, <1>3 DEF Call
<1>6. on(given) /\ Readable(st, given.left)
  BY <1>2, <1>3, <1>4 DEF Call
<1> HIDE DEF further, given, st
<1>7. PICK to : call' = [call EXCEPT ![c] = to] /\ on(to) /\ Readable(st, to.left)
  BY <1>1, <1>5, <1>6
<1>8. /\ call'[c] = to /\ to \in Call /\ to.step = "reading" /\ to.op = call[c].op
      /\ to.asked = call[c].asked /\ to.since = call[c].since /\ to.view = call[c].view
  BY <1>1, <1>2, <1>7
<1>9. OnCourse(c)'
  BY <1>1, <1>2, <1>7, <1>8 DEF OnCourse, Seen, st
<1> QED
  BY <1>1, <1>2, <1>7, <1>8, <1>9, Still, OneCall

LEMMA EndsType ==
  ASSUME TypeInv, NEW c \in Calls, Ends(c)
  PROVE  TypeInv'
<1> DEFINE got == IF call[c].op = "export" THEN call[c].got \cup {[position |-> call[c].view]}
                  ELSE call[c].got
           to == [call[c] EXCEPT !.step = "read", !.got = got]
<1>1. call[c].step = "reading" /\ past' = past /\ files' = files /\ call' = [call EXCEPT ![c] = to]
  BY DEF Ends, Position, At
<1>2. call \in [Calls -> Call] /\ call[c] \in Call /\ OnCourse(c) /\ files' \in [Places -> File]
  BY <1>1 DEF TypeInv
<1>3. got \in SUBSET Given
  <2>1. call[c].view \in Nat /\ call[c].got \in SUBSET Given
    BY <1>2 DEF Call
  <2>2. [position |-> call[c].view] \in Given
    BY <2>1 DEF Given
  <2> QED
    BY <2>1, <2>2
<1> HIDE DEF got
<1>4. to \in Call
  BY <1>2, <1>3 DEF Call
<1>5. /\ call'[c] = to /\ to.step = "read" /\ to.op = call[c].op /\ to.asked = call[c].asked
      /\ to.since = call[c].since /\ to.view = call[c].view
  BY <1>1, <1>2 DEF Call
<1>6. OnCourse(c)'
  BY <1>1, <1>2, <1>5 DEF OnCourse
<1> QED
  BY <1>1, <1>2, <1>4, <1>6, Still, OneCall

LEMMA RecordsType ==
  ASSUME TypeInv, NEW c \in Calls, Records(c)
  PROVE  TypeInv'
<1> DEFINE moment == [past[Len(past)] EXCEPT !.lists = SnapshotEntry(c)]
<1>1. /\ past' = Append(past, moment) /\ call' = [call EXCEPT ![c] = NoCall] /\ files' = files
  BY DEF Records
<1>2. moment.holds = past[Len(past)].holds
  OBVIOUS
<1>3. moment.holds \in Stores
  BY <1>2, NowIs DEF TypeInv
<1> HIDE DEF moment
<1>4. /\ PastOK' /\ DOMAIN past \subseteq DOMAIN past' /\ \A i \in DOMAIN past : past'[i] = past[i]
  BY <1>1, <1>3, PastGrows DEF TypeInv
<1>5. files' \in [Places -> File]
  BY <1>1 DEF TypeInv
<1> QED
  BY <1>1, <1>4, <1>5, LeavesType

LEMMA LandsType ==
  ASSUME TypeInv, Lands
  PROVE  TypeInv'
<1>1. PICK moment : /\ call' = call /\ files' = files /\ moment.holds \in Stores
                    /\ past' = Append(past, moment)
  BY LandsIs
<1>2. /\ PastOK' /\ Len(past') = Len(past) + 1 /\ DOMAIN past \subseteq DOMAIN past'
      /\ \A i \in DOMAIN past : past'[i] = past[i]
  BY <1>1, PastGrows DEF TypeInv
<1>3. ASSUME NEW c \in Calls PROVE TypeInv'
  <2>1. call[c] \in Call /\ call' = [call EXCEPT ![c] = call[c]] /\ files' \in [Places -> File]
    BY <1>1 DEF TypeInv
  <2>2. OnCourse(c)'
    <3>1. OnCourse(c) /\ call'[c] = call[c] /\ Len(past) \in Nat /\ DOMAIN past = 1..Len(past)
      BY <1>1, NowIs DEF TypeInv
    <3>2. call[c].since \in Nat /\ call[c].view \in Nat
      BY <2>1 DEF Call
    <3>3. call[c].step = "reading" => past'[call[c].view] = past[call[c].view]
      BY <1>2, <3>1, <3>2 DEF OnCourse
    <3> QED
      BY <1>2, <3>1, <3>2, <3>3 DEF OnCourse
  <2> QED
    BY <1>2, <2>1, <2>2, OneCall
<1>4. CASE Calls = {}
  BY <1>1, <1>2, <1>4 DEF TypeInv
<1> QED
  BY <1>3, <1>4

(* What a step of a backup makes of its file.                              *)
LEMMA BackupType ==
  ASSUME TypeInv, NEW c \in Calls,
         Looks(c) \/ Creates(c) \/ Copies(c) \/ Checks(c) \/ Marks(c) \/ Fails(c) \/ Killed(c)
  PROVE  TypeInv'
<1> DEFINE file == files[Into(c)]
           named == {"none", "looked", "created", "copied", "checked"}
<1>1. call[c].op = "backup" /\ call[c].step # "none"
  BY DEF Looks, Creates, Copies, Checks, Marks, Fails, Killed, TypeInv, OnCourse
<1>2. OnCourse(c) /\ files \in [Places -> File] /\ Len(past) \in Nat
  BY NowIs DEF TypeInv
<1>3. file \in File
  BY <1>1, <1>2 DEF OnCourse, Into
<1>4. NoFile \in File /\ MadeEmpty \in File
  BY DEF NoFile, MadeEmpty, File
<1>5. /\ \A whole \in BOOLEAN : [file EXCEPT !.copy = Len(past), !.whole = whole] \in File
      /\ [file EXCEPT !.form = TRUE] \in File /\ [file EXCEPT !.mark = TRUE] \in File
  BY <1>2, <1>3 DEF File
<1>6. \/ Refused(c)
      \/ \E step \in named, to \in File : Goes(c, step, to)
  BY <1>3, <1>4, <1>5 DEF Looks, Creates, Copies, Checks, Marks, Fails, Killed
<1>7. CASE Refused(c)
  BY <1>2, <1>7, Still, LeavesType DEF Refused
<1> HIDE DEF file
<1>8. CASE \E step \in named, to \in File : Goes(c, step, to)
  BY <1>1, <1>8, GoesType
<1> QED
  BY <1>6, <1>7, <1>8

LEMMA TypesNext == TypeInv /\ [Next]_vars => TypeInv'
<1> SUFFICES ASSUME TypeInv, [Next]_vars PROVE TypeInv'
  OBVIOUS
<1>1. CASE UNCHANGED vars
  <2>1. past' = past /\ files' = files /\ call' = call
    BY <1>1 DEF vars
  <2>2. PastOK'
    BY <2>1, Still
  <2>3. \A c \in Calls : OnCourse(c)'
    BY <2>1 DEF TypeInv, OnCourse
  <2> QED
    BY <2>1, <2>2, <2>3 DEF TypeInv
<1>2. CASE Lands
  BY <1>2, LandsType
<1>3. ASSUME NEW c \in Calls, Asks(c) PROVE TypeInv'
  BY <1>3, AsksType
<1>4. ASSUME NEW c \in Calls, Begins(c) PROVE TypeInv'
  BY <1>4, BeginsType
<1>5. ASSUME NEW c \in Calls, Takes(c) PROVE TypeInv'
  BY <1>5, TakesType
<1>6. ASSUME NEW c \in Calls, Ends(c) PROVE TypeInv'
  BY <1>6, EndsType
<1>7. ASSUME NEW c \in Calls, Answers(c) \/ Closes(c) PROVE TypeInv'
  BY <1>7, Still, LeavesType DEF Answers, Closes, TypeInv
<1>8. ASSUME NEW c \in Calls, Records(c) PROVE TypeInv'
  BY <1>8, RecordsType
<1>9. ASSUME NEW c \in Calls,
             Looks(c) \/ Creates(c) \/ Copies(c) \/ Checks(c) \/ Marks(c) \/ Fails(c) \/ Killed(c)
      PROVE TypeInv'
  BY <1>9, BackupType
<1> QED
  BY <1>1, <1>2, <1>3, <1>4, <1>5, <1>6, <1>7, <1>8, <1>9 DEF Next

(* Every call, file and moment is of its type: what a call asks is what    *)
(* its kind takes, it reads a moment the store passed through since it was *)
(* asked, and what it has yet to read is there (boundary.py, backups.py).  *)
THEOREM TypeCorrect == Spec => []TypeInv
BY TypesStart, TypesNext, PTL DEF Spec

-----------------------------------------------------------------------------
(* Backups.  One that is being made has its file to itself, and the file   *)
(* is what its step says.                                                  *)
Making(c) == call[c].step \in {"created", "copied", "checked"}

OwnFile(c) ==
  /\ files[Into(c)].stands /\ ~files[Into(c)].mark /\ Into(c) \notin Kept
  /\ call[c].step \in {"copied", "checked"} => files[Into(c)].copy \in DOMAIN past
  /\ call[c].step = "checked" => files[Into(c)].whole /\ files[Into(c)].form

BackupInv ==
  /\ \A p \in Kept : files[p].stands
  /\ \A p \in Places : files[p].mark =>
       files[p].stands /\ Restorable(files[p]) /\ files[p].copy \in DOMAIN past
  /\ \A c \in Calls : Making(c) => OwnFile(c)
  /\ \A c, d \in Calls : Making(c) /\ Making(d) /\ Into(c) = Into(d) => c = d

(* What a step may do to the files.                                        *)
FilesWhole ==
  \A p \in Places :
    /\ files'[p].mark => Restorable(files'[p]) /\ files'[p].copy \in DOMAIN past'
    /\ files[p].mark \/ p \in Kept => files'[p] = files[p]

LEMMA BackupStart == Init => BackupInv
<1> SUFFICES ASSUME Init PROVE BackupInv
  OBVIOUS
<1>1. /\ \A p \in Places : files[p] = IF p \in Kept THEN MadeEmpty ELSE NoFile
      /\ \A c \in Calls : call[c].step = "none"
  BY DEF Init, NoCall
<1>2. NoFile.mark = FALSE /\ MadeEmpty.mark = FALSE /\ MadeEmpty.stands = TRUE
  BY DEF NoFile, MadeEmpty
<1> QED
  BY <1>1, <1>2, PlacesAssumption DEF BackupInv, Making

(* A step that makes no file leaves those there are.                       *)
LEMMA BackupKept ==
  ASSUME TypeInv, BackupInv, files' = files, DOMAIN past \subseteq DOMAIN past',
         \A d \in Calls : Making(d)' =>
           Making(d) /\ call'[d].step = call[d].step /\ call'[d].asked = call[d].asked
  PROVE  BackupInv' /\ FilesWhole
<1>1. FilesWhole
  BY DEF BackupInv, FilesWhole
<1>2. ASSUME NEW d \in Calls, Making(d)' PROVE Making(d) /\ Into(d)' = Into(d) /\ OwnFile(d)'
  BY <1>2 DEF BackupInv, OwnFile, Into
<1> QED
  BY <1>1, <1>2 DEF BackupInv

(* A step of the backup that makes a file, or finds nothing at its place.  *)
LEMMA BackupMade ==
  ASSUME TypeInv, BackupInv, NEW c \in Calls, call[c].op = "backup",
         Making(c) \/ ~files[Into(c)].stands, NEW file, NEW step, Goes(c, step, file),
         file.mark => file.stands /\ Restorable(file) /\ file.copy \in DOMAIN past,
         step \in {"created", "copied", "checked"} => file.stands /\ ~file.mark,
         step \in {"copied", "checked"} => file.copy \in DOMAIN past,
         step = "checked" => file.whole /\ file.form
  PROVE  BackupInv' /\ FilesWhole
<1> DEFINE at == Into(c)
<1>1. files \in [Places -> File] /\ call \in [Calls -> Call] /\ OnCourse(c) /\ call[c] \in Call
  BY DEF TypeInv
<1>2. at \in Places
  BY <1>1 DEF OnCourse, Into
<1>3. /\ past' = past /\ files' = [files EXCEPT ![at] = file]
      /\ call' = [call EXCEPT ![c] = IF step = "none" THEN NoCall ELSE [call[c] EXCEPT !.step = step]]
  BY DEF Goes
<1>4. /\ files'[at] = file /\ \A p \in Places \ {at} : files'[p] = files[p]
      /\ \A d \in Calls \ {c} : call'[d] = call[d]
      /\ step = "none" => call'[c] = NoCall
      /\ step # "none" => call'[c] = [call[c] EXCEPT !.step = step]
  BY <1>1, <1>2, <1>3
<1>5. /\ step = "none" => call'[c].step = "none"
      /\ step # "none" => call'[c].step = step /\ call'[c].asked = call[c].asked
  BY <1>1, <1>4 DEF NoCall, Call
<1>6. at \notin Kept /\ ~files[at].mark
  BY <1>2 DEF BackupInv, OwnFile
<1>7. \A d \in Calls \ {c} : Making(d) => Into(d) # at
  BY DEF BackupInv, OwnFile
<1> HIDE DEF at
<1>8. FilesWhole
  BY <1>2, <1>3, <1>4, <1>6 DEF FilesWhole, BackupInv
<1>9. ASSUME NEW d \in Calls \ {c} PROVE /\ Making(d)' <=> Making(d)
                                         /\ Into(d)' = Into(d)
                                         /\ Making(d) => OwnFile(d)'
  <2>1. Making(d)' <=> Making(d)
    BY <1>4 DEF Making
  <2>2. Into(d)' = Into(d) /\ call'[d] = call[d]
    BY <1>4 DEF Into
  <2>3. ASSUME Making(d) PROVE OwnFile(d)'
    <3>1. OnCourse(d) /\ OwnFile(d)
      BY <2>3 DEF BackupInv, TypeInv
    <3>2. Into(d) \in Places \ {at}
      BY <1>7, <2>3, <3>1 DEF OnCourse, Into, Making
    <3>3. files'[Into(d)] = files[Into(d)]
      BY <1>4, <3>2
    <3> QED
      BY <1>3, <2>2, <3>1, <3>3 DEF OwnFile
  <2> QED
    BY <2>1, <2>2, <2>3
<1>10. Making(c)' => Into(c)' = at /\ OwnFile(c)'
  <2> SUFFICES ASSUME Making(c)' PROVE Into(c)' = at /\ OwnFile(c)'
    OBVIOUS
  <2>1. step \in {"created", "copied", "checked"} /\ call'[c].step = step
    BY <1>5 DEF Making
  <2>2. Into(c)' = at
    BY <1>5, <2>1 DEF Into, at
  <2> QED
    BY <1>3, <1>4, <1>6, <2>1, <2>2 DEF OwnFile
<1>11. \A p \in Kept : files'[p].stands
  BY <1>4, <1>6, PlacesAssumption DEF BackupInv
<1>12. \A p \in Places : files'[p].mark =>
         files'[p].stands /\ Restorable(files'[p]) /\ files'[p].copy \in DOMAIN past'
  BY <1>3, <1>4 DEF BackupInv
<1>13. \A d, e \in Calls : Making(d)' /\ Making(e)' /\ Into(d)' = Into(e)' => d = e
  BY <1>7, <1>9, <1>10 DEF BackupInv
<1> QED
  BY <1>8, <1>9, <1>10, <1>11, <1>12, <1>13 DEF BackupInv

LEMMA BackupNext == TypeInv /\ BackupInv /\ [Next]_vars => BackupInv' /\ FilesWhole
<1> SUFFICES ASSUME TypeInv, BackupInv, [Next]_vars PROVE BackupInv' /\ FilesWhole
  OBVIOUS
<1>0. \A c \in Calls : call[c] \in Call /\ OnCourse(c)
  BY DEF TypeInv
<1>1. CASE UNCHANGED vars
  <2>1. files' = files /\ past' = past /\ call' = call
    BY <1>1 DEF vars
  <2> QED
    BY <2>1, BackupKept DEF Making
<1>2. CASE Lands
  <2>1. DOMAIN past \subseteq DOMAIN past' /\ files' = files /\ call' = call
    BY <1>2, LandsIs, PastGrows DEF TypeInv
  <2> QED
    BY <2>1, BackupKept DEF Making
<1>3. ASSUME NEW c \in Calls, files' = files, DOMAIN past \subseteq DOMAIN past',
             NEW to, call' = [call EXCEPT ![c] = to], to.step \notin {"created", "copied", "checked"}
      PROVE BackupInv' /\ FilesWhole
  <2>1. call'[c] = to /\ \A d \in Calls \ {c} : call'[d] = call[d]
    BY <1>3 DEF TypeInv
  <2>2. \A d \in Calls : Making(d)' =>
          Making(d) /\ call'[d].step = call[d].step /\ call'[d].asked = call[d].asked
    BY <1>3, <2>1 DEF Making
  <2> QED
    BY <1>3, <2>2, BackupKept
<1>4. NoCall.step = "none"
  BY DEF NoCall
<1>5. ASSUME NEW c \in Calls, Asks(c) PROVE BackupInv' /\ FilesWhole
  <2>1. files' = files /\ past' = past
    BY <1>5 DEF Asks
  <2>2. PICK op, asked : call' = [call EXCEPT ![c] =
          [NoCall EXCEPT !.step = "asked", !.op = op, !.asked = asked, !.since = Len(past)]]
    BY <1>5 DEF Asks
  <2>3. [NoCall EXCEPT !.step = "asked", !.op = op, !.asked = asked, !.since = Len(past)].step = "asked"
    BY DEF NoCall
  <2> QED
    BY <1>3, <2>1, <2>2, <2>3
<1>6. ASSUME NEW c \in Calls, Begins(c) PROVE BackupInv' /\ FilesWhole
  <2> DEFINE to == [call[c] EXCEPT !.step = "reading", !.view = Len(past), !.left = Reads(Names(Now, c))]
  <2>1. /\ files' = files /\ past' = past
        /\ call' = [call EXCEPT ![c] = NoCall] \/ call' = [call EXCEPT ![c] = to]
    BY <1>6, BeginsIs
  <2>2. to.step = "reading"
    BY <1>0 DEF Call
  <2> HIDE DEF to
  <2> QED
    BY <1>3, <1>4, <2>1, <2>2
<1>7. ASSUME NEW c \in Calls, Takes(c) PROVE BackupInv' /\ FilesWhole
  <2> DEFINE st == Seen(c)
             next == Following(c)
             further == [call[c] EXCEPT !.left = VersionReads(st, next[1]) \o Tail(call[c].left)]
             given == [call[c] EXCEPT !.left = Tail(call[c].left),
                                      !.got = call[c].got \cup {ReadOf(st, next[1], next[2])}]
  <2>1. /\ files' = files /\ past' = past /\ call[c].step = "reading"
        /\ call' = [call EXCEPT ![c] = further] \/ call' = [call EXCEPT ![c] = given]
    BY <1>7, TakesIs
  <2>2. further.step = "reading" /\ given.step = "reading"
    BY <1>0, <2>1 DEF Call
  <2> HIDE DEF further, given
  <2> QED
    BY <1>3, <2>1, <2>2
<1>8. ASSUME NEW c \in Calls, Ends(c) PROVE BackupInv' /\ FilesWhole
  <2>1. PICK got : /\ files' = files /\ past' = past
                   /\ call' = [call EXCEPT ![c] = [call[c] EXCEPT !.step = "read", !.got = got]]
    BY <1>8 DEF Ends
  <2>2. [call[c] EXCEPT !.step = "read", !.got = got].step = "read"
    BY <1>0 DEF Call
  <2> QED
    BY <1>3, <2>1, <2>2
<1>9. ASSUME NEW c \in Calls, Answers(c) \/ Closes(c) \/ Refused(c) PROVE BackupInv' /\ FilesWhole
  <2>1. files' = files /\ past' = past /\ call' = [call EXCEPT ![c] = NoCall]
    BY <1>9 DEF Answers, Closes, Refused
  <2> QED
    BY <1>3, <1>4, <2>1
<1>10. ASSUME NEW c \in Calls, Records(c) PROVE BackupInv' /\ FilesWhole
  <2> DEFINE moment == [past[Len(past)] EXCEPT !.lists = SnapshotEntry(c)]
  <2>1. files' = files /\ call' = [call EXCEPT ![c] = NoCall] /\ past' = Append(past, moment)
    BY <1>10 DEF Records
  <2>2. moment.holds = past[Len(past)].holds
    OBVIOUS
  <2> HIDE DEF moment
  <2>3. DOMAIN past \subseteq DOMAIN past'
    BY <2>1, <2>2, NowIs, PastGrows DEF TypeInv
  <2> QED
    BY <1>3, <1>4, <2>1, <2>3
<1>11. ASSUME NEW c \in Calls, Looks(c) PROVE BackupInv' /\ FilesWhole
  <2>1. CASE Refused(c)
    BY <1>9, <2>1
  <2>2. CASE Goes(c, "looked", files[Into(c)])
    <3>1. /\ files' = [files EXCEPT ![Into(c)] = files[Into(c)]] /\ past' = past
          /\ call' = [call EXCEPT ![c] = [call[c] EXCEPT !.step = "looked"]]
      BY <2>2 DEF Goes
    <3>2. files' = files
      BY <3>1 DEF TypeInv
    <3>3. [call[c] EXCEPT !.step = "looked"].step = "looked"
      BY <1>0 DEF Call
    <3> QED
      BY <1>3, <3>1, <3>2, <3>3
  <2> QED
    BY <1>11, <2>1, <2>2 DEF Looks
<1>12. NoFile.mark = FALSE /\ MadeEmpty.mark = FALSE /\ MadeEmpty.stands = TRUE
  BY DEF NoFile, MadeEmpty
<1>13. ASSUME NEW c \in Calls, Creates(c) PROVE BackupInv' /\ FilesWhole
  <2>1. CASE Refused(c)
    BY <1>9, <2>1
  <2>2. CASE ~files[Into(c)].stands /\ Goes(c, "created", MadeEmpty)
    <3>1. call[c].op = "backup"
      BY <1>0, <1>13 DEF Creates, OnCourse
    <3> QED
      BY <1>12, <2>2, <3>1, BackupMade
  <2> QED
    BY <1>13, <2>1, <2>2 DEF Creates
<1>14. ASSUME NEW c \in Calls, Making(c)
       PROVE  /\ call[c].op = "backup" /\ files[Into(c)] \in File /\ OwnFile(c)
              /\ ~files[Into(c)].mark /\ files[Into(c)].stands
  <2>1. Into(c) \in Places /\ call[c].op = "backup"
    BY <1>0, <1>14 DEF Making, OnCourse, Into
  <2> QED
    BY <1>14, <2>1 DEF BackupInv, OwnFile, TypeInv
<1>15. ASSUME NEW c \in Calls, Copies(c) PROVE BackupInv' /\ FilesWhole
  <2>1. Making(c)
    BY <1>15 DEF Copies, Making
  <2>2. PICK whole \in BOOLEAN :
          Goes(c, "copied", [files[Into(c)] EXCEPT !.copy = Len(past), !.whole = whole])
    BY <1>15 DEF Copies
  <2> DEFINE file == [files[Into(c)] EXCEPT !.copy = Len(past), !.whole = whole]
  <2>3. ~file.mark /\ file.stands /\ file.copy = Len(past)
    BY <1>14, <2>1 DEF File
  <2>4. Len(past) \in DOMAIN past
    BY NowIs DEF TypeInv
  <2>5. Goes(c, "copied", file)
    BY <2>2
  <2> HIDE DEF file
  <2> QED
    BY <1>14, <2>1, <2>3, <2>4, <2>5, BackupMade
<1>16. ASSUME NEW c \in Calls, Checks(c) PROVE BackupInv' /\ FilesWhole
  <2> DEFINE file == [files[Into(c)] EXCEPT !.form = TRUE]
  <2>1. Making(c) /\ call[c].step = "copied" /\ Goes(c, "checked", file) /\ files[Into(c)].whole
    BY <1>16 DEF Checks, Making, Sound
  <2>2. files[Into(c)].copy \in DOMAIN past
    BY <1>14, <2>1 DEF OwnFile
  <2>3. ~file.mark /\ file.stands /\ file.copy \in DOMAIN past /\ file.whole /\ file.form
    BY <1>14, <2>1, <2>2 DEF File
  <2> HIDE DEF file
  <2> QED
    BY <1>14, <2>1, <2>3, BackupMade
<1>17. ASSUME NEW c \in Calls, Marks(c) PROVE BackupInv' /\ FilesWhole
  <2> DEFINE file == [files[Into(c)] EXCEPT !.mark = TRUE]
  <2>1. Making(c) /\ call[c].step = "checked" /\ Goes(c, "none", file)
    BY <1>17 DEF Marks, Making
  <2>2. files[Into(c)].copy \in DOMAIN past /\ files[Into(c)].whole /\ files[Into(c)].form
    BY <1>14, <2>1 DEF OwnFile
  <2>3. file.stands /\ Restorable(file) /\ file.copy \in DOMAIN past
    BY <1>14, <2>1, <2>2 DEF File, Restorable
  <2> HIDE DEF file
  <2> QED
    BY <1>14, <2>1, <2>3, BackupMade
<1>18. ASSUME NEW c \in Calls, Fails(c) \/ Killed(c) PROVE BackupInv' /\ FilesWhole
  <2>1. Making(c) /\ (Goes(c, "none", NoFile) \/ Goes(c, "none", files[Into(c)]))
    BY <1>18 DEF Fails, Killed, Making
  <2> QED
    BY <1>12, <1>14, <2>1, BackupMade
<1> QED
  BY <1>1, <1>2, <1>5, <1>6, <1>7, <1>8, <1>9, <1>10, <1>11, <1>13, <1>15, <1>16, <1>17, <1>18 DEF Next

(* What carries kb's mark is a backup a restore takes, whatever failed or  *)
(* was killed on the way, and what stood at a place is never written over, *)
(* whoever makes backups beside it (sqlite_backup.copied, backups.made).   *)
THEOREM BackupsMade == Spec => BackupsWhole
<1>1. Init => TypeInv /\ BackupInv
  BY TypesStart, BackupStart
<1>2. TypeInv /\ BackupInv /\ [Next]_vars => (TypeInv /\ BackupInv)'
  BY TypesNext, BackupNext
<1>3. TypeInv /\ BackupInv /\ [Next]_vars =>
        [\A p \in Places :
           /\ files'[p].mark => Restorable(files'[p]) /\ files'[p].copy \in DOMAIN past'
           /\ files[p].mark \/ p \in Kept => files'[p] = files[p]]_vars
  BY BackupNext DEF FilesWhole
<1> QED
  BY <1>1, <1>2, <1>3, PTL DEF Spec, BackupsWhole

-----------------------------------------------------------------------------
(* Reads.  What a call was given and what it has yet to read make up what  *)
(* the moment it reads has for it.                                         *)

(* What one read yields: of a type an export meets, every version of it.   *)
Yields(op, st, r, e) ==
  IF op = "export" /\ r[2] = 0 /\ Typed(st, r[1])
  THEN \E n \in DOMAIN st[r[1]].versions : KeptVersion(st, <<r[1], n>>) /\ e = ReadOf(st, r[1], n)
  ELSE e = ReadOf(st, r[1], r[2])

Named(op, asked, st, x) ==
  x \in Iris /\ IF op = "snapshot" THEN Tells(asked, x) ELSE Selects(st, asked, x)

Owed(op, asked, st, e) == \E x : Named(op, asked, st, x) /\ Yields(op, st, <<x, 0>>, e)

ReadOn(c) ==
  \A e : Owed(call[c].op, call[c].asked, Seen(c), e) <=>
           \/ e \in call[c].got
           \/ \E r : Tells(call[c].left, r) /\ Yields(call[c].op, Seen(c), r, e)

ReadInv ==
  /\ \A c \in Calls : call[c].step = "asked" => call[c].got = {}
  /\ \A c \in Calls : call[c].step = "reading" => ReadOn(c)

(* What GivenAt tells of a moment is what that moment owes.                *)
LEMMA GivenIs ==
  ASSUME PastOK, NEW p \in DOMAIN past, NEW op, NEW asked,
         op = "snapshot" => asked \in Seq(Iris)
  PROVE  \A e : e \in GivenAt(op, asked, p) <=>
                  Owed(op, asked, past[p].holds, e) \/ (op = "export" /\ e = [position |-> p])
<1> DEFINE st == past[p].holds
           given == IF op = "snapshot" THEN asked ELSE Ids(st, asked)
           names == {given[i] : i \in DOMAIN given}
           versions == UNION {{<<x, n>> : n \in {k \in DOMAIN st[x].versions : KeptVersion(st, <<x, k>>)}} :
                                x \in names}
           exported == {ReadOf(st, x, 0) : x \in {y \in names : ~Typed(st, y)}}
                         \cup {ReadOf(st, v[1], v[2]) : v \in versions} \cup {[position |-> p]}
           listed == {ReadOf(st, x, 0) : x \in names}
<1>1. st \in Stores
  BY DEF PastOK
<1>2. GivenAt(op, asked, p) = IF op = "export" THEN exported ELSE listed
  BY DEF GivenAt
<1>3. \A x : x \in names <=> Named(op, asked, st, x)
  <2>1. \A x : x \in names <=> Tells(given, x)
    BY DEF Tells
  <2> HIDE DEF names
  <2>2. CASE op = "snapshot"
    <3>1. \A x : Tells(asked, x) => x \in Iris
      BY <2>2, ElementOfSeq DEF Tells
    <3> QED
      BY <2>1, <2>2, <3>1 DEF Named
  <2>3. CASE op # "snapshot"
    <3>1. \A x : Tells(Ids(st, asked), x) <=> x \in Iris /\ Selects(st, asked, x)
      BY <1>1, NamesAre
    <3> QED
      BY <2>1, <2>3, <3>1 DEF Named
  <2> QED
    BY <2>2, <2>3
<1> HIDE DEF names, st
<1>4. CASE op = "export"
  <2>1. \A v : v \in versions <=> \E x \in names : \E n \in DOMAIN st[x].versions :
                 KeptVersion(st, <<x, n>>) /\ v = <<x, n>>
    <3> DEFINE of(x) == {<<x, n>> : n \in {k \in DOMAIN st[x].versions : KeptVersion(st, <<x, k>>)}}
    <3>1. versions = UNION {of(x) : x \in names}
      OBVIOUS
    <3>2. \A x, v : v \in of(x) <=> \E n \in DOMAIN st[x].versions : KeptVersion(st, <<x, n>>) /\ v = <<x, n>>
      OBVIOUS
    <3> HIDE DEF of, versions
    <3>3. \A v : v \in versions <=> \E x \in names : v \in of(x)
      BY <3>1
    <3> QED
      BY <3>2, <3>3, Zenon
  <2> HIDE DEF versions
  <2>2. \A e : (\E v \in versions : e = ReadOf(st, v[1], v[2])) <=>
          \E x \in names : \E n \in DOMAIN st[x].versions : KeptVersion(st, <<x, n>>) /\ e = ReadOf(st, x, n)
    <3> TAKE e
    <3>1. ASSUME NEW v \in versions, e = ReadOf(st, v[1], v[2])
          PROVE \E x \in names : \E n \in DOMAIN st[x].versions : KeptVersion(st, <<x, n>>) /\ e = ReadOf(st, x, n)
      <4>0. PICK x \in names : \E n \in DOMAIN st[x].versions : KeptVersion(st, <<x, n>>) /\ v = <<x, n>>
        BY <2>1, <3>1, Zenon
      <4>1. PICK n \in DOMAIN st[x].versions : KeptVersion(st, <<x, n>>) /\ v = <<x, n>>
        BY <4>0
      <4>2. v[1] = x /\ v[2] = n
        BY <4>1
      <4> QED
        BY <3>1, <4>1, <4>2, Zenon
    <3>2. ASSUME NEW x \in names, NEW n \in DOMAIN st[x].versions, KeptVersion(st, <<x, n>>), e = ReadOf(st, x, n)
          PROVE  \E v \in versions : e = ReadOf(st, v[1], v[2])
      <4>1. <<x, n>> \in versions /\ <<x, n>>[1] = x /\ <<x, n>>[2] = n
        BY <2>1, <3>2
      <4> QED
        BY <3>2, <4>1, Zenon
    <3> QED
      BY <3>1, <3>2, Zenon
  <2>3. \A x, e : Yields(op, st, <<x, 0>>, e) <=>
          IF Typed(st, x)
          THEN \E n \in DOMAIN st[x].versions : KeptVersion(st, <<x, n>>) /\ e = ReadOf(st, x, n)
          ELSE e = ReadOf(st, x, 0)
    BY <1>4 DEF Yields
  <2>4. \A x, n : KeptVersion(st, <<x, n>>) => Typed(st, x)
    BY DEF KeptVersion
  <2>5. \A e : Owed(op, asked, st, e) <=>
          \/ \E x \in names : ~Typed(st, x) /\ e = ReadOf(st, x, 0)
          \/ \E x \in names : \E n \in DOMAIN st[x].versions : KeptVersion(st, <<x, n>>) /\ e = ReadOf(st, x, n)
    BY <1>3, <2>3, <2>4, Zenon DEF Owed
  <2>6. \A e : e \in exported <=> Owed(op, asked, st, e) \/ e = [position |-> p]
    BY <2>2, <2>5, Zenon
  <2> HIDE DEF exported
  <2> QED
    BY <1>2, <1>4, <2>6 DEF st
<1>5. CASE op # "export"
  <2>1. \A e : Owed(op, asked, st, e) <=> \E x \in names : e = ReadOf(st, x, 0)
    <3>1. \A x, e : Yields(op, st, <<x, 0>>, e) <=> e = ReadOf(st, x, 0)
      BY <1>5 DEF Yields
    <3> QED
      BY <1>3, <3>1, Zenon DEF Owed
  <2>2. \A e : e \in listed <=> Owed(op, asked, st, e)
    BY <2>1, Zenon
  <2> HIDE DEF listed
  <2> QED
    BY <1>2, <1>5, <2>2 DEF st
<1> QED
  BY <1>4, <1>5

(* What a call begins with is owed whole.                                  *)
LEMMA BeginsOwed ==
  ASSUME TypeInv, NEW c \in Calls, call[c].step = "asked", call[c].op # "backup", NEW e
  PROVE  Owed(call[c].op, call[c].asked, Now, e) <=>
           \E r : Tells(Reads(Names(Now, c)), r) /\ Yields(call[c].op, Now, r, e)
<1>1. \A r : Tells(Reads(Names(Now, c)), r) <=> \E x : Tells(Names(Now, c), x) /\ r = <<x, 0>>
  BY BeginsNames, ReadsAre
<1>2. \A x : Tells(Names(Now, c), x) <=> Named(call[c].op, call[c].asked, Now, x)
  BY BeginsNames DEF Named
<1> QED
  BY <1>1, <1>2, Zenon DEF Owed

(* A read yields what was owed by it; a type's versions yield theirs.      *)
LEMMA VersionsYield ==
  ASSUME NEW st \in Stores, NEW x \in Iris, Typed(st, x), NEW e
  PROVE  Yields("export", st, <<x, 0>>, e) <=>
           \E r : /\ \E n : n \in DOMAIN st[x].versions /\ KeptVersion(st, <<x, n>>) /\ r = <<x, n>>
                  /\ Yields("export", st, r, e)
<1>1. \A n \in DOMAIN st[x].versions : n # 0
  BY DEF Stores, Artifact
<1>2. \A n \in DOMAIN st[x].versions : Yields("export", st, <<x, n>>, e) <=> e = ReadOf(st, x, n)
  BY <1>1 DEF Yields
<1>3. Yields("export", st, <<x, 0>>, e) <=>
        \E n \in DOMAIN st[x].versions : KeptVersion(st, <<x, n>>) /\ e = ReadOf(st, x, n)
  BY DEF Yields
<1> QED
  BY <1>2, <1>3, Zenon

(* What a step may do to what a call was given.                            *)
GivenOnce ==
  \A c \in Calls : call[c].step = "reading" /\ call'[c].step = "read" =>
    \E p \in call[c].since..Len(past) : call'[c].got = GivenAt(call[c].op, call[c].asked, p)

LEMMA ReadStart == Init => ReadInv
<1> SUFFICES ASSUME Init PROVE ReadInv
  OBVIOUS
<1>1. \A c \in Calls : call[c].step = "none"
  BY DEF Init, NoCall
<1> QED
  BY <1>1 DEF ReadInv

(* What a call was given and left stays so while others act.               *)
LEMMA ReadKept ==
  ASSUME TypeInv, ReadInv, NEW d \in Calls, call'[d] = call[d],
         \A i \in DOMAIN past : past'[i] = past[i]
  PROVE  /\ call'[d].step = "asked" => call'[d].got = {}
         /\ call'[d].step = "reading" => ReadOn(d)'
<1>1. call[d].step = "reading" => Seen(d)' = Seen(d)
  BY ViewIs DEF Seen
<1>2. call[d].step = "reading" => ReadOn(d)'
  BY <1>1 DEF ReadInv, ReadOn
<1> QED
  BY <1>2 DEF ReadInv

(* A step of one call.                                                     *)
LEMMA ReadOne ==
  ASSUME TypeInv, ReadInv, NEW c \in Calls, NEW to, call' = [call EXCEPT ![c] = to],
         \A i \in DOMAIN past : past'[i] = past[i],
         to.step = "asked" => to.got = {}, to.step = "reading" => ReadOn(c)',
         call[c].step = "reading" /\ to.step = "read" =>
           \E p \in call[c].since..Len(past) : to.got = GivenAt(call[c].op, call[c].asked, p)
  PROVE  ReadInv' /\ GivenOnce
<1>1. call'[c] = to /\ \A d \in Calls \ {c} : call'[d] = call[d]
  BY DEF TypeInv
<1>2. \A d \in Calls \ {c} : /\ call'[d].step = "asked" => call'[d].got = {}
                             /\ call'[d].step = "reading" => ReadOn(d)'
  BY <1>1, ReadKept
<1>3. GivenOnce
  BY <1>1 DEF GivenOnce
<1> QED
  BY <1>1, <1>2, <1>3 DEF ReadInv

LEMMA BeginsRead ==
  ASSUME TypeInv, ReadInv, NEW c \in Calls, Begins(c)
  PROVE  ReadInv' /\ GivenOnce
<1> DEFINE to == [call[c] EXCEPT !.step = "reading", !.view = Len(past), !.left = Reads(Names(Now, c))]
<1>1. /\ call[c].step = "asked" /\ call[c].op # "backup" /\ past' = past
      /\ call' = [call EXCEPT ![c] = NoCall] \/ call' = [call EXCEPT ![c] = to]
  BY BeginsIs
<1>2. CASE call' = [call EXCEPT ![c] = NoCall]
  <2>1. NoCall.step = "none"
    BY DEF NoCall
  <2> QED
    BY <1>1, <1>2, <2>1, ReadOne
<1>3. CASE call' = [call EXCEPT ![c] = to]
  <2>1. call[c] \in Call /\ call \in [Calls -> Call] /\ past[Len(past)].holds = Now
    BY NowIs DEF TypeInv
  <2>2. /\ to.step = "reading" /\ to.op = call[c].op /\ to.asked = call[c].asked
        /\ to.view = Len(past) /\ to.left = Reads(Names(Now, c)) /\ to.got = call[c].got
    BY <2>1 DEF Call
  <2>3. call'[c] = to
    BY <1>3, <2>1
  <2> HIDE DEF to
  <2>4. call[c].got = {}
    BY <1>1 DEF ReadInv
  <2>5. Seen(c)' = Now
    BY <1>1, <2>1, <2>2, <2>3 DEF Seen
  <2>6. \A e : Owed(call[c].op, call[c].asked, Now, e) <=>
          \E r : Tells(Reads(Names(Now, c)), r) /\ Yields(call[c].op, Now, r, e)
    BY <1>1, BeginsOwed
  <2>7. ReadOn(c)'
    BY <2>2, <2>3, <2>4, <2>5, <2>6 DEF ReadOn
  <2> QED
    BY <1>1, <1>3, <2>2, <2>7, ReadOne
<1> QED
  BY <1>1, <1>2, <1>3

LEMMA TakesRead ==
  ASSUME TypeInv, ReadInv, NEW c \in Calls, Takes(c)
  PROVE  ReadInv' /\ GivenOnce
<1> DEFINE st == Seen(c)
           next == Following(c)
           op == call[c].op
           typed == op = "export" /\ next[2] = 0 /\ Typed(st, next[1])
           rest == Tail(call[c].left)
           reads == VersionReads(st, next[1]) \o rest
           given == ReadOf(st, next[1], next[2])
           further == [call[c] EXCEPT !.left = reads]
           taken == [call[c] EXCEPT !.left = rest, !.got = call[c].got \cup {given}]
<1>1. /\ call[c].step = "reading" /\ call[c].left # <<>> /\ past' = past
      /\ \/ typed /\ call' = [call EXCEPT ![c] = further]
         \/ ~typed /\ call' = [call EXCEPT ![c] = taken]
  BY TakesIs
<1>2. /\ next \in Iris \X Nat /\ st \in Stores /\ next[1] \in Iris
      /\ \A r : Tells(call[c].left, r) <=> r = next \/ Tells(rest, r)
      /\ \A r : Tells(reads, r) <=>
           \/ \E n : n \in DOMAIN st[next[1]].versions /\ KeptVersion(st, <<next[1], n>>) /\ r = <<next[1], n>>
           \/ Tells(rest, r)
  BY <1>1, TakesLeaves
<1>3. \A e : Owed(op, call[c].asked, st, e) <=>
        \/ e \in call[c].got
        \/ \E r : Tells(call[c].left, r) /\ Yields(op, st, r, e)
  BY <1>1 DEF ReadInv, ReadOn
<1>4. call[c] \in Call /\ call \in [Calls -> Call]
  BY DEF TypeInv
<1>5. CASE typed /\ call' = [call EXCEPT ![c] = further]
  <2>1. /\ further.step = "reading" /\ further.op = op /\ further.asked = call[c].asked
        /\ further.view = call[c].view /\ further.left = reads /\ further.got = call[c].got
    BY <1>1, <1>4 DEF Call
  <2>2. call'[c] = further
    BY <1>4, <1>5
  <2> HIDE DEF further, reads, rest
  <2>3. Seen(c)' = st
    BY <1>1, <2>1, <2>2 DEF Seen
  <2>4. next = <<next[1], 0>> /\ op = "export" /\ Typed(st, next[1])
    BY <1>2, <1>5
  <2> HIDE DEF st, next
  <2>5. \A e : Yields(op, st, next, e) <=>
          \E r : /\ \E n : n \in DOMAIN st[next[1]].versions /\ KeptVersion(st, <<next[1], n>>) /\ r = <<next[1], n>>
                 /\ Yields(op, st, r, e)
    BY <1>2, <2>4, VersionsYield
  <2>6. \A e : (\E r : Tells(call[c].left, r) /\ Yields(op, st, r, e)) <=>
               (\E r : Tells(reads, r) /\ Yields(op, st, r, e))
    BY <1>2, <2>5, Zenon
  <2>7. ReadOn(c)'
    BY <1>3, <2>1, <2>2, <2>3, <2>6 DEF ReadOn
  <2> QED
    BY <1>1, <1>5, <2>1, <2>7, ReadOne
<1>6. CASE ~typed /\ call' = [call EXCEPT ![c] = taken]
  <2>1. /\ taken.step = "reading" /\ taken.op = op /\ taken.asked = call[c].asked
        /\ taken.view = call[c].view /\ taken.left = rest /\ taken.got = call[c].got \cup {given}
    BY <1>1, <1>4 DEF Call
  <2>2. call'[c] = taken
    BY <1>4, <1>6
  <2> HIDE DEF taken, reads, rest
  <2>3. Seen(c)' = st
    BY <1>1, <2>1, <2>2 DEF Seen
  <2>4. \A e : Yields(op, st, next, e) <=> e = given
    BY <1>6 DEF Yields
  <2> HIDE DEF st, next, given
  <2>5. \A e : (\E r : Tells(call[c].left, r) /\ Yields(op, st, r, e)) <=>
               e = given \/ (\E r : Tells(rest, r) /\ Yields(op, st, r, e))
    BY <1>2, <2>4, Zenon
  <2>6. ReadOn(c)'
    BY <1>3, <2>1, <2>2, <2>3, <2>5 DEF ReadOn
  <2> QED
    BY <1>1, <1>6, <2>1, <2>6, ReadOne
<1> QED
  BY <1>1, <1>5, <1>6

LEMMA EndsRead ==
  ASSUME TypeInv, ReadInv, NEW c \in Calls, Ends(c)
  PROVE  ReadInv' /\ GivenOnce
<1> DEFINE op == call[c].op
           position == [position |-> call[c].view]
           got == IF op = "export" THEN call[c].got \cup {position} ELSE call[c].got
           to == [call[c] EXCEPT !.step = "read", !.got = got]
<1>1. /\ call[c].step = "reading" /\ call[c].left = <<>> /\ past' = past
      /\ call' = [call EXCEPT ![c] = to]
  BY DEF Ends, Position, At
<1>2. call[c] \in Call /\ OnCourse(c) /\ PastOK
  BY DEF TypeInv
<1>3. to.step = "read" /\ to.got = got
  BY <1>2 DEF Call
<1>4. /\ call[c].view \in DOMAIN past /\ call[c].since \in Nat /\ Len(past) \in Nat
      /\ call[c].view \in Nat /\ call[c].since <= call[c].view /\ call[c].view <= Len(past)
  BY <1>1, <1>2, ViewIs, NowIs DEF Call
<1>5. op = "snapshot" => call[c].asked \in Seq(Iris)
  BY <1>2, NamingsAssumption DEF OnCourse
<1>6. \A e : Owed(op, call[c].asked, Seen(c), e) <=> e \in call[c].got
  <2>1. \A r : ~Tells(<<>>, r)
    BY DEF Tells
  <2> QED
    BY <1>1, <2>1 DEF ReadInv, ReadOn
<1>7. \A e : e \in GivenAt(op, call[c].asked, call[c].view) <=>
        Owed(op, call[c].asked, Seen(c), e) \/ (op = "export" /\ e = position)
  BY <1>2, <1>4, <1>5, GivenIs DEF Seen
<1>8. got = GivenAt(op, call[c].asked, call[c].view)
  BY <1>6, <1>7
<1> HIDE DEF to, got
<1>9. \E p \in call[c].since..Len(past) : to.got = GivenAt(call[c].op, call[c].asked, p)
  BY <1>3, <1>4, <1>8
<1> QED
  BY <1>1, <1>3, <1>9, ReadOne

LEMMA ReadNext == TypeInv /\ ReadInv /\ [Next]_vars => ReadInv' /\ GivenOnce
<1> SUFFICES ASSUME TypeInv, ReadInv, [Next]_vars PROVE ReadInv' /\ GivenOnce
  OBVIOUS
<1>1. ASSUME call' = call, \A i \in DOMAIN past : past'[i] = past[i] PROVE ReadInv' /\ GivenOnce
  <2>1. \A d \in Calls : /\ call'[d].step = "asked" => call'[d].got = {}
                         /\ call'[d].step = "reading" => ReadOn(d)'
    BY <1>1, ReadKept
  <2> QED
    BY <1>1, <2>1 DEF ReadInv, GivenOnce
<1>2. CASE UNCHANGED vars
  BY <1>1, <1>2 DEF vars
<1>3. CASE Lands
  <2>1. call' = call /\ \A i \in DOMAIN past : past'[i] = past[i]
    BY <1>3, LandsIs, PastGrows DEF TypeInv
  <2> QED
    BY <1>1, <2>1
<1>4. ASSUME NEW c \in Calls, call' = [call EXCEPT ![c] = NoCall],
             \A i \in DOMAIN past : past'[i] = past[i]
      PROVE ReadInv' /\ GivenOnce
  <2>1. NoCall.step = "none"
    BY DEF NoCall
  <2> QED
    BY <1>4, <2>1, ReadOne
<1>5. ASSUME NEW c \in Calls, Asks(c) PROVE ReadInv' /\ GivenOnce
  <2>1. past' = past
    BY <1>5 DEF Asks
  <2>2. PICK op, asked : call' = [call EXCEPT ![c] =
          [NoCall EXCEPT !.step = "asked", !.op = op, !.asked = asked, !.since = Len(past)]]
    BY <1>5 DEF Asks
  <2> DEFINE to == [NoCall EXCEPT !.step = "asked", !.op = op, !.asked = asked, !.since = Len(past)]
  <2>3. to.step = "asked" /\ to.got = {}
    BY DEF NoCall
  <2>4. call' = [call EXCEPT ![c] = to]
    BY <2>2
  <2> HIDE DEF to
  <2> QED
    BY <2>1, <2>3, <2>4, ReadOne
<1>6. ASSUME NEW c \in Calls, Records(c) PROVE ReadInv' /\ GivenOnce
  <2> DEFINE moment == [past[Len(past)] EXCEPT !.lists = SnapshotEntry(c)]
  <2>1. call' = [call EXCEPT ![c] = NoCall] /\ past' = Append(past, moment)
    BY <1>6 DEF Records
  <2>2. moment.holds = past[Len(past)].holds
    OBVIOUS
  <2> HIDE DEF moment
  <2>3. \A i \in DOMAIN past : past'[i] = past[i]
    BY <2>1, <2>2, NowIs, PastGrows DEF TypeInv
  <2> QED
    BY <1>4, <2>1, <2>3
<1>7. ASSUME NEW c \in Calls, Answers(c) \/ Closes(c) PROVE ReadInv' /\ GivenOnce
  BY <1>4, <1>7 DEF Answers, Closes
<1>8. ASSUME NEW c \in Calls, NEW step \in {"none", "looked", "created", "copied", "checked"},
             NEW file, Goes(c, step, file)
      PROVE ReadInv' /\ GivenOnce
  <2> DEFINE to == IF step = "none" THEN NoCall ELSE [call[c] EXCEPT !.step = step]
  <2>1. call' = [call EXCEPT ![c] = to] /\ past' = past
    BY <1>8 DEF Goes
  <2>2. call[c] \in Call
    BY DEF TypeInv
  <2>3. to.step \in {"none", "looked", "created", "copied", "checked"}
    BY <1>8, <2>2 DEF NoCall, Call
  <2> HIDE DEF to
  <2> QED
    BY <2>1, <2>3, ReadOne
<1>9. ASSUME NEW c \in Calls,
             Looks(c) \/ Creates(c) \/ Copies(c) \/ Checks(c) \/ Marks(c) \/ Fails(c) \/ Killed(c)
      PROVE ReadInv' /\ GivenOnce
  <2>1. Refused(c) \/ \E step \in {"none", "looked", "created", "copied", "checked"} : \E file : Goes(c, step, file)
    BY <1>9, Zenon DEF Looks, Creates, Copies, Checks, Marks, Fails, Killed
  <2>2. CASE Refused(c)
    BY <1>4, <2>2 DEF Refused
  <2> QED
    BY <1>8, <2>1, <2>2
<1> QED
  BY <1>2, <1>3, <1>5, <1>6, <1>7, <1>9, BeginsRead, TakesRead, EndsRead DEF Next

(* A list, a snapshot and an export are each given what one moment since   *)
(* they were asked held, every version of a type included, whatever lands  *)
(* while they read (boundary.streamed, write.record, export.taken).        *)
THEOREM ReadsOfOneMoment == Spec => OneMoment
<1>1. Init => TypeInv /\ ReadInv
  BY TypesStart, ReadStart
<1>2. TypeInv /\ ReadInv /\ [Next]_vars => (TypeInv /\ ReadInv)'
  BY TypesNext, ReadNext
<1>3. TypeInv /\ ReadInv /\ [Next]_vars =>
        [\A c \in Calls : call[c].step = "reading" /\ call'[c].step = "read" =>
           \E p \in call[c].since..Len(past) : call'[c].got = GivenAt(call[c].op, call[c].asked, p)]_vars
  BY ReadNext DEF GivenOnce
<1> QED
  BY <1>1, <1>2, <1>3, PTL DEF Spec, OneMoment

-----------------------------------------------------------------------------
(* Counting.                                                               *)

LEMMA SameCount ==
  ASSUME NEW S, IsFiniteSet(S), NEW T, NEW f \in [S -> T],
         \A a, b \in S : f[a] = f[b] => a = b, \A t \in T : \E a \in S : f[a] = t
  PROVE  IsFiniteSet(T) /\ Cardinality(T) = Cardinality(S)
<1>1. f \in Bijection(S, T)
  BY DEF Bijection, Injection, Surjection, IsInjective
<1> QED
  BY <1>1, FS_Bijection DEF ExistsBijection

LEMMA ToldFinite ==
  ASSUME NEW X, NEW s \in Seq(X)
  PROVE  /\ IsFiniteSet({s[i] : i \in DOMAIN s})
         /\ Apart(s) => Cardinality({s[i] : i \in DOMAIN s}) = Cardinality(DOMAIN s)
<1> DEFINE T == {s[i] : i \in DOMAIN s}
           f == [i \in DOMAIN s |-> s[i]]
<1>1. IsFiniteSet(DOMAIN s)
  <2>1. DOMAIN s = 1..Len(s) /\ Len(s) \in Nat
    OBVIOUS
  <2> QED
    BY <2>1, FS_Interval
<1>2. f \in [DOMAIN s -> T] /\ \A t \in T : \E i \in DOMAIN s : f[i] = t
  OBVIOUS
<1>3. \A i \in DOMAIN s : f[i] = s[i]
  OBVIOUS
<1> HIDE DEF f, T
<1>4. IsFiniteSet(T)
  BY <1>1, <1>2, FS_Surjection DEF Surjection
<1>5. ASSUME Apart(s) PROVE Cardinality(T) = Cardinality(DOMAIN s)
  BY <1>1, <1>2, <1>3, <1>5, SameCount DEF Apart
<1> QED
  BY <1>4, <1>5 DEF T

LEMMA IrisFinite == IsFiniteSet(Iris)
<1>1. IsFiniteSet({NameOrder[i] : i \in DOMAIN NameOrder})
  BY OrderAssumption, ToldFinite
<1>2. Iris \subseteq {NameOrder[i] : i \in DOMAIN NameOrder}
  BY OrderAssumption
<1> QED
  BY <1>1, <1>2, FS_Subset

-----------------------------------------------------------------------------
(* Where nothing is held there is nothing.                                 *)
Emptied(st) == \A x \in Iris : ~Held(st, x) => st[x] = Nothing

HoldsInv == \A i \in DOMAIN past : Emptied(past[i].holds)

(* What each operation leaves of its artifact is held, unless it is removed.*)
LEMMA MadeIs ==
  ASSUME NEW st \in Stores, NEW op \in Operation, op.op = "import" => op.revision # 0
  PROVE  /\ op.op = "delete" => Made(st, op) = Nothing
         /\ op.op # "delete" => Made(st, op).revision # 0
<1>1. op.op \in {"create", "write", "delete", "import"} /\ op.id \in Iris
  BY DEF Operation
<1>2. CASE op.op = "delete"
  BY <1>2 DEF Made
<1>3. CASE op.op = "write"
  <2>1. st[op.id] \in Artifact /\ st[op.id].revision \in Nat
    BY <1>1 DEF Stores, Artifact
  <2>2. Made(st, op).revision = st[op.id].revision + 1
    BY <1>3, <2>1 DEF Made, Revised, Artifact
  <2> QED
    BY <1>3, <2>1, <2>2
<1>4. CASE op.op = "import"
  BY <1>4 DEF Made, Brought
<1>5. CASE op.op = "create"
  BY <1>5 DEF Made, Brought, Operation
<1> QED
  BY <1>1, <1>2, <1>3, <1>4, <1>5

LEMMA PutEmptied ==
  ASSUME NEW st \in Stores, Emptied(st), NEW ops \in Seq(Operation),
         \A i \in DOMAIN ops : ops[i].op = "import" => ops[i].revision # 0
  PROVE  Emptied(Put(st, Drafted(st, ops)))
<1> DEFINE changes == Drafted(st, ops)
<1>1. changes \in Seq(Change) /\ DOMAIN changes = 1..Len(changes) /\ Len(changes) \in Nat
      /\ DOMAIN changes = DOMAIN ops
  BY DraftedType DEF Drafted
<1>2. ASSUME NEW i \in DOMAIN changes PROVE changes[i].left = Nothing \/ changes[i].left.revision # 0
  <2>1. ops[i] \in Operation /\ i \in 1..(Len(ops) + 1)
    BY <1>1, ElementOfSeq
  <2>2. LeftBefore(st, ops, i) \in Stores
    BY <2>1, LeftBeforeType
  <2>3. changes[i].left = Made(LeftBefore(st, ops, i), ops[i])
    BY <1>1 DEF Drafted
  <2> QED
    BY <1>1, <2>1, <2>2, <2>3, MadeIs
<1> HIDE DEF changes
<1>3. SUFFICES ASSUME NEW x \in Iris, ~Held(Put(st, changes), x) PROVE Put(st, changes)[x] = Nothing
  BY DEF Emptied, changes
<1>4. CASE x \notin Changed(changes)
  BY <1>3, <1>4 DEF Put, Held, Emptied
<1>5. CASE x \in Changed(changes)
  <2>1. LastOf(changes, x) \in DOMAIN changes
    BY <1>1, <1>5, LastThere
  <2>2. Put(st, changes)[x] = changes[LastOf(changes, x)].left
    BY <1>5 DEF Put
  <2> QED
    BY <1>2, <1>3, <2>1, <2>2 DEF Held
<1> QED
  BY <1>4, <1>5

LEMMA HoldsStart == Init => HoldsInv
<1> SUFFICES ASSUME Init PROVE HoldsInv
  OBVIOUS
<1>1. DOMAIN past = {1} /\ past[1].holds = Before
  BY DEF Init
<1> QED
  BY <1>1, BeforeAssumption DEF HoldsInv, Emptied

LEMMA HoldsGrows ==
  ASSUME PastOK, HoldsInv, NEW moment, moment.holds \in Stores, Emptied(moment.holds),
         past' = Append(past, moment)
  PROVE  HoldsInv'
<1>1. /\ Len(past') = Len(past) + 1 /\ \A i \in DOMAIN past : past'[i] = past[i]
      /\ past'[Len(past')] = moment /\ PastOK'
  BY PastGrows
<1>2. Len(past) \in Nat /\ DOMAIN past = 1..Len(past) /\ DOMAIN past' = 1..Len(past')
  BY <1>1 DEF PastOK
<1>3. \A i \in DOMAIN past' : i \in DOMAIN past \/ i = Len(past')
  BY <1>1, <1>2
<1> QED
  BY <1>1, <1>3 DEF HoldsInv

(* What each step makes of the past.                                       *)
LEMMA PastNext ==
  ASSUME TypeInv, [Next]_vars
  PROVE  \/ past' = past
         \/ \E ops \in Sets :
              past' = Append(past, [holds |-> Put(Now, Drafted(Now, ops)), lists |-> {},
                                    rows |-> Indexed(past[Len(past)].rows, Drafted(Now, ops))])
         \/ \E lists : past' = Append(past, [past[Len(past)] EXCEPT !.lists = lists])
<1>1. CASE Lands
  BY <1>1 DEF Lands
<1>2. ASSUME NEW c \in Calls, Records(c) PROVE \E lists : past' = Append(past, [past[Len(past)] EXCEPT !.lists = lists])
  BY <1>2 DEF Records
<1>3. ASSUME NEW c \in Calls, Asks(c) \/ Begins(c) \/ Takes(c) \/ Ends(c) \/ Answers(c) \/ Closes(c)
      PROVE  past' = past
  BY <1>3 DEF Asks, Begins, Takes, Ends, Answers, Closes
<1>4. ASSUME NEW c \in Calls,
             Looks(c) \/ Creates(c) \/ Copies(c) \/ Checks(c) \/ Marks(c) \/ Fails(c) \/ Killed(c)
      PROVE  past' = past
  BY <1>4 DEF Looks, Creates, Copies, Checks, Marks, Fails, Killed, Goes, Refused
<1>5. CASE UNCHANGED vars
  BY <1>5 DEF vars
<1> QED
  BY <1>1, <1>2, <1>3, <1>4, <1>5 DEF Next

LEMMA HoldsNext == TypeInv /\ HoldsInv /\ [Next]_vars => HoldsInv'
<1> SUFFICES ASSUME TypeInv, HoldsInv, [Next]_vars PROVE HoldsInv'
  OBVIOUS
<1>1. /\ PastOK /\ Now \in Stores /\ Len(past) \in DOMAIN past /\ Now = past[Len(past)].holds
      /\ Emptied(Now)
  BY NowIs DEF TypeInv, HoldsInv
<1>2. CASE past' = past
  BY <1>2 DEF HoldsInv
<1>3. ASSUME NEW ops \in Sets,
             past' = Append(past, [holds |-> Put(Now, Drafted(Now, ops)), lists |-> {},
                                   rows |-> Indexed(past[Len(past)].rows, Drafted(Now, ops))])
      PROVE  HoldsInv'
  <2> DEFINE moment == [holds |-> Put(Now, Drafted(Now, ops)), lists |-> {},
                        rows |-> Indexed(past[Len(past)].rows, Drafted(Now, ops))]
  <2>1. moment.holds = Put(Now, Drafted(Now, ops)) /\ past' = Append(past, moment)
    BY <1>3
  <2> HIDE DEF moment
  <2>2. ops \in Seq(Operation)
    BY BeforeAssumption
  <2>3. moment.holds \in Stores /\ Emptied(moment.holds)
    BY <1>1, <2>1, <2>2, DraftedType, PutType, PutEmptied, ImportsAssumption
  <2> QED
    BY <1>1, <2>1, <2>3, HoldsGrows
<1>4. ASSUME NEW lists, past' = Append(past, [past[Len(past)] EXCEPT !.lists = lists])
      PROVE  HoldsInv'
  <2> DEFINE moment == [past[Len(past)] EXCEPT !.lists = lists]
  <2>1. moment.holds = Now /\ past' = Append(past, moment)
    BY <1>1, <1>4
  <2> HIDE DEF moment
  <2> QED
    BY <1>1, <2>1, HoldsGrows
<1> QED
  BY <1>2, <1>3, <1>4, PastNext

-----------------------------------------------------------------------------
(* Links, and the steps a walk takes along them.                           *)

LEMMA LinksAre ==
  ASSUME NEW st \in Stores, NEW x \in Iris
  PROVE  /\ st[x].links \in Seq(Link) /\ LinksOf(st, x) \subseteq Link
         /\ \A l : l \in LinksOf(st, x) <=> Tells(st[x].links, l)
<1>1. st[x].links \in Seq(Link)
  BY DEF Stores, Artifact
<1>2. \A l : l \in LinksOf(st, x) <=> Tells(st[x].links, l)
  BY DEF LinksOf, Tells
<1> QED
  BY <1>1, <1>2, ElementOfSeq DEF Tells

LEMMA OutwardIs ==
  ASSUME NEW st \in Stores, NEW x \in Iris, NEW part
  PROVE  /\ Outward(st, x, part) \in Seq(Fields \X Iris)
         /\ \A h : Tells(Outward(st, x, part), h) <=>
              \E link \in Carried(st, x, part) : h = <<link.field, link.target>>
<1> DEFINE links == Among(st[x].links, Carried(st, x, part))
<1>1. /\ links \in Seq(Link)
      /\ \A l : Tells(links, l) <=> Tells(st[x].links, l) /\ l \in Carried(st, x, part)
  BY LinksAre, AmongIs
<1>2. \A l : l \in Carried(st, x, part) => Tells(st[x].links, l)
  BY LinksAre DEF Carried
<1>3. Outward(st, x, part) = [i \in DOMAIN links |-> <<links[i].field, links[i].target>>]
  BY Zenon DEF Outward
<1> HIDE DEF links
<1>4. DOMAIN links = 1..Len(links) /\ Len(links) \in Nat
  BY <1>1
<1>5. \A i \in DOMAIN links : links[i] \in Link
  BY <1>1, ElementOfSeq
<1>6. \A i \in DOMAIN links : links[i].field \in Fields /\ links[i].target \in Iris
  BY <1>5 DEF Link
<1>7. Outward(st, x, part) \in Seq(Fields \X Iris)
  BY <1>3, <1>4, <1>6
<1>8. \A h : Tells(Outward(st, x, part), h) <=> \E i \in DOMAIN links : h = <<links[i].field, links[i].target>>
  BY <1>3 DEF Tells
<1>9. \A l : l \in Carried(st, x, part) <=> \E i \in DOMAIN links : links[i] = l
  BY <1>1, <1>2 DEF Tells
<1> QED
  BY <1>7, <1>8, <1>9, Zenon

LEMMA FromIs ==
  ASSUME NEW st \in Stores, NEW y \in Iris, NEW x
  PROVE  /\ From(st, y, x) \in Seq(Fields \X Iris)
         /\ \A h : Tells(From(st, y, x), h) <=>
              \E link \in LinksOf(st, y) : link.target = x /\ h = <<link.field, y>>
<1> DEFINE links == Among(st[y].links, {link \in LinksOf(st, y) : link.target = x})
<1>1. /\ links \in Seq(Link)
      /\ \A l : Tells(links, l) <=> Tells(st[y].links, l) /\ l \in {link \in LinksOf(st, y) : link.target = x}
  BY LinksAre, AmongIs
<1>2. \A l : Tells(links, l) <=> l \in LinksOf(st, y) /\ l.target = x
  BY <1>1, LinksAre
<1>3. From(st, y, x) = [i \in DOMAIN links |-> <<links[i].field, y>>]
  BY Zenon DEF From
<1> HIDE DEF links
<1>4. DOMAIN links = 1..Len(links) /\ Len(links) \in Nat
  BY <1>1
<1>5. \A i \in DOMAIN links : links[i] \in Link
  BY <1>1, ElementOfSeq
<1>6. \A i \in DOMAIN links : links[i].field \in Fields
  BY <1>5 DEF Link
<1>7. From(st, y, x) \in Seq(Fields \X Iris)
  BY <1>3, <1>4, <1>6
<1>8. \A h : Tells(From(st, y, x), h) <=> \E i \in DOMAIN links : h = <<links[i].field, y>>
  BY <1>3 DEF Tells
<1>9. \A l : (l \in LinksOf(st, y) /\ l.target = x) <=> \E i \in DOMAIN links : links[i] = l
  BY <1>2 DEF Tells
<1> QED
  BY <1>7, <1>8, <1>9, Zenon

LEMMA InwardIs ==
  ASSUME NEW st \in Stores, NEW x
  PROVE  /\ Inward(st, x) \in Seq(Fields \X Iris)
         /\ \A h : Tells(Inward(st, x), h) <=>
              \E y \in Iris : \E link \in LinksOf(st, y) : link.target = x /\ h = <<link.field, y>>
<1> DEFINE seqs == [i \in DOMAIN NameOrder |-> From(st, NameOrder[i], x)]
<1>1. /\ DOMAIN NameOrder = 1..Len(NameOrder) /\ Len(NameOrder) \in Nat
      /\ \A i \in DOMAIN NameOrder : NameOrder[i] \in Iris
  BY OrderAssumption, ElementOfSeq
<1>2. \A i \in DOMAIN NameOrder : From(st, NameOrder[i], x) \in Seq(Fields \X Iris)
  BY <1>1, FromIs
<1>3. seqs \in Seq(Seq(Fields \X Iris)) /\ DOMAIN seqs = DOMAIN NameOrder
      /\ \A i \in DOMAIN NameOrder : seqs[i] = From(st, NameOrder[i], x)
  BY <1>1, <1>2
<1>4. Inward(st, x) = Joined(seqs)
  BY Zenon DEF Inward
<1> HIDE DEF seqs
<1>5. /\ Joined(seqs) \in Seq(Fields \X Iris)
      /\ \A h : Tells(Joined(seqs), h) <=> \E k \in DOMAIN seqs : Tells(seqs[k], h)
  BY <1>3, JoinedIs
<1>6. \A h : Tells(Inward(st, x), h) <=> \E k \in DOMAIN NameOrder : Tells(From(st, NameOrder[k], x), h)
  BY <1>3, <1>4, <1>5
<1>7. \A h : Tells(Inward(st, x), h) <=> \E y \in Iris : Tells(From(st, y, x), h)
  BY <1>1, <1>6, OrderAssumption, Zenon
<1> QED
  BY <1>4, <1>5, <1>7, FromIs

-----------------------------------------------------------------------------
(* A read whole.                                                           *)

(* What an artifact leads a read on to, and what one had in so many steps. *)
LeadsTo(st, x, part, y) ==
  {link.target : link \in {l \in Own(st, y, IF y = x THEN part ELSE Whole) :
                             l.part = Whole /\ Held(st, l.target)}}

Nearby(within, st, x, part) ==
  within = [n \in Nat |-> IF n = 0 THEN {x}
              ELSE within[n - 1] \cup UNION {LeadsTo(st, x, part, y) : y \in within[n - 1]}]

(* What Resolved fills in from each node and what is being filled in.      *)
Filled(filled, st, x, part) ==
  filled = [n \in Nat |->
              [at \in Iris \X SUBSET Iris |->
                 {at[1]} \cup UNION {filled[n - 1][to] : to \in {next \in Onward(st, x, part, at) : n > 0}}]]

LEMMA OnwardIs ==
  ASSUME NEW st \in Stores, NEW x, NEW part, NEW y \in Iris, NEW seen \in SUBSET Iris
  PROVE  /\ Onward(st, x, part, <<y, seen>>) \subseteq Iris \X SUBSET Iris
         /\ \A to : to \in Onward(st, x, part, <<y, seen>>) <=>
              \E z \in LeadsTo(st, x, part, y) : z \notin seen /\ to = <<z, seen \cup {z}>>
<1>1. LinksOf(st, y) \subseteq Link
  BY LinksAre
<1>2. \A l \in LinksOf(st, y) : l.target \in Iris
  BY <1>1 DEF Link
<1>3. \A to : to \in Onward(st, x, part, <<y, seen>>) <=>
        \E l \in Own(st, y, IF y = x THEN part ELSE Whole) :
          /\ l.part = Whole /\ l.target \notin seen /\ Held(st, l.target)
          /\ to = <<l.target, seen \cup {l.target}>>
  BY Zenon DEF Onward, Followed
<1> QED
  BY <1>2, <1>3 DEF LeadsTo, Own

LEMMA ResolvedIs ==
  ASSUME NEW st \in Stores, NEW x \in Iris, NEW part, NEW depth \in Nat
  PROVE  \E filled : Filled(filled, st, x, part) /\ Resolved(st, x, part, depth) = filled[depth][<<x, {x}>>]
<1> DEFINE Ats == Iris \X SUBSET Iris
           X == [Ats -> SUBSET Iris]
           step(n, f) == [at \in Ats |->
                            {at[1]} \cup UNION {f[to] : to \in {next \in Onward(st, x, part, at) : n > 0}}]
           base == [at \in Ats |-> {at[1]}]
           steps == [p \in Nat \X X |-> step(p[1], p[2])]
           all == CHOOSE f : Filled(f, st, x, part)
<1>1. \A at \in Ats : Onward(st, x, part, at) \subseteq Ats
  <2> TAKE at \in Ats
  <2>1. PICK y \in Iris, seen \in SUBSET Iris : at = <<y, seen>>
    OBVIOUS
  <2> QED
    BY <2>1, OnwardIs
<1>2. base \in X
  BY Zenon
<1>3. ASSUME NEW n \in Nat, NEW f \in X PROVE step(n, f) \in X
  <2>1. ASSUME NEW at \in Ats
        PROVE {at[1]} \cup UNION {f[to] : to \in {next \in Onward(st, x, part, at) : n > 0}} \in SUBSET Iris
    <3>1. at[1] \in Iris
      OBVIOUS
    <3>2. \A to \in {next \in Onward(st, x, part, at) : n > 0} : f[to] \in SUBSET Iris
      BY <1>1
    <3> QED
      BY <3>1, <3>2
  <2> QED
    BY <2>1
<1> HIDE DEF step, X, base
<1>4. \A n \in Nat, f \in X : steps[<<n, f>>] = step(n, f)
  OBVIOUS
<1> HIDE DEF steps
<1>5. Stays(steps, X)
  BY <1>3, <1>4 DEF Stays
<1>6. PICK g : Recurs(g, X, base, steps)
  BY <1>2, <1>5, RecursionThere
<1>7. g \in [Nat -> X] /\ \A n \in Nat : g[n] = IF n = 0 THEN base ELSE steps[<<n, g[n - 1]>>]
  BY <1>6 DEF Recurs
<1>8. \A n \in Nat : g[n] = step(n, g[n - 1])
  <2> TAKE n \in Nat
  <2>1. CASE n # 0
    <3>1. n - 1 \in Nat /\ g[n - 1] \in X
      BY <1>7, <2>1
    <3> QED
      BY <1>4, <1>7, <2>1, <3>1
  <2>2. CASE n = 0
    <3>1. g[n] = base
      BY <1>7, <2>2
    <3>2. \A at : {next \in Onward(st, x, part, at) : n > 0} = {}
      BY <2>2
    <3>3. \A f, at : {at[1]} \cup UNION {f[to] : to \in {next \in Onward(st, x, part, at) : n > 0}} = {at[1]}
      BY <3>2
    <3>4. \A f : step(n, f) = base
      BY <3>3 DEF step, base
    <3> QED
      BY <3>1, <3>4
  <2> QED
    BY <2>1, <2>2
<1>9. g = [n \in Nat |-> step(n, g[n - 1])]
  BY <1>7, <1>8
<1>10. Filled(g, st, x, part)
  BY <1>9, Zenon DEF Filled, step
<1>11. Filled(all, st, x, part)
  BY <1>10, Zenon
<1>12. Resolved(st, x, part, depth) = all[depth][<<x, {x}>>]
  BY Zenon DEF Resolved, Filled
<1> HIDE DEF all
<1> QED
  BY <1>11, <1>12

(* What is filled in of a node, step by step.                              *)
LEMMA FilledIs ==
  ASSUME NEW st \in Stores, NEW x \in Iris, NEW part, NEW filled, Filled(filled, st, x, part),
         NEW y \in Iris, NEW seen \in SUBSET Iris
  PROVE  /\ filled[0][<<y, seen>>] = {y}
         /\ \A z : \A n \in Nat : z \in filled[n + 1][<<y, seen>>] <=>
              \/ z = y
              \/ \E w \in LeadsTo(st, x, part, y) : w \notin seen /\ z \in filled[n][<<w, seen \cup {w}>>]
<1> DEFINE at == <<y, seen>>
<1>2. at[1] = y /\ at \in Iris \X SUBSET Iris
  OBVIOUS
<1>3. \A to : to \in Onward(st, x, part, at) <=>
        \E w \in LeadsTo(st, x, part, y) : w \notin seen /\ to = <<w, seen \cup {w}>>
  BY OnwardIs
<1> HIDE DEF at
<1>1. \A n \in Nat : filled[n][at] =
        {at[1]} \cup UNION {filled[n - 1][to] : to \in {next \in Onward(st, x, part, at) : n > 0}}
  <2> TAKE n \in Nat
  <2> DEFINE row == [a \in Iris \X SUBSET Iris |->
                       {a[1]} \cup UNION {filled[n - 1][to] : to \in {next \in Onward(st, x, part, a) : n > 0}}]
  <2>1. filled[n] = row
    BY DEF Filled
  <2>2. row[at] = {at[1]} \cup UNION {filled[n - 1][to] : to \in {next \in Onward(st, x, part, at) : n > 0}}
    BY <1>2, Zenon
  <2> QED
    BY <2>1, <2>2
<1>4. filled[0][at] = {y}
  <2>1. {next \in Onward(st, x, part, at) : 0 > 0} = {}
    OBVIOUS
  <2> QED
    BY <1>1, <1>2, <2>1
<1>5. ASSUME NEW n \in Nat, NEW z
      PROVE  z \in filled[n + 1][at] <=>
               \/ z = y
               \/ \E w \in LeadsTo(st, x, part, y) : w \notin seen /\ z \in filled[n][<<w, seen \cup {w}>>]
  <2>1. {next \in Onward(st, x, part, at) : n + 1 > 0} = Onward(st, x, part, at) /\ (n + 1) - 1 = n
        /\ n + 1 \in Nat
    OBVIOUS
  <2>2. filled[n + 1][at] = {y} \cup UNION {filled[n][to] : to \in Onward(st, x, part, at)}
    BY <1>1, <1>2, <2>1
  <2>3. z \in filled[n + 1][at] <=> z = y \/ \E to \in Onward(st, x, part, at) : z \in filled[n][to]
    BY <2>2
  <2> QED
    BY <1>3, <2>3, Zenon
<1> QED
  BY <1>4, <1>5 DEF at

(* What is near an artifact grows with the steps, and is of the store.     *)
LEMMA NearbyIs ==
  ASSUME NEW st \in Stores, NEW x \in Iris, NEW part, NEW within, Nearby(within, st, x, part)
  PROVE  /\ within[0] = {x}
         /\ \A n \in Nat : within[n + 1] = within[n] \cup UNION {LeadsTo(st, x, part, y) : y \in within[n]}
         /\ \A n \in Nat : within[n] \subseteq Iris
         /\ \A n, k \in Nat : within[n] \subseteq within[n + k]
<1>1. \A n \in Nat : within[n] = IF n = 0 THEN {x}
        ELSE within[n - 1] \cup UNION {LeadsTo(st, x, part, y) : y \in within[n - 1]}
  BY DEF Nearby
<1>2. within[0] = {x}
  BY <1>1
<1>3. ASSUME NEW n \in Nat
      PROVE  within[n + 1] = within[n] \cup UNION {LeadsTo(st, x, part, y) : y \in within[n]}
  <2>1. n + 1 \in Nat /\ n + 1 # 0 /\ (n + 1) - 1 = n
    OBVIOUS
  <2> QED
    BY <1>1, <2>1
<1>4. ASSUME NEW y \in Iris PROVE LeadsTo(st, x, part, y) \subseteq Iris
  BY LinksAre DEF LeadsTo, Own, Link
<1>5. \A n \in Nat : within[n] \subseteq Iris
  <2> DEFINE T == {n \in Nat : within[n] \subseteq Iris}
  <2>1. 0 \in T
    BY <1>2
  <2>2. ASSUME NEW n \in Nat, n \in T PROVE n + 1 \in T
    <3>1. \A y \in within[n] : LeadsTo(st, x, part, y) \subseteq Iris
      BY <1>4, <2>2
    <3>2. UNION {LeadsTo(st, x, part, y) : y \in within[n]} \subseteq Iris
      BY <3>1
    <3> QED
      BY <1>3, <2>2, <3>2
  <2> HIDE DEF T
  <2>3. \A n \in Nat : n \in T
    BY <2>1, <2>2, EveryNumber
  <2> QED
    BY <2>3 DEF T
<1>6. ASSUME NEW n \in Nat PROVE \A k \in Nat : within[n] \subseteq within[n + k]
  <2> DEFINE T == {k \in Nat : within[n] \subseteq within[n + k]}
  <2>1. 0 \in T
    OBVIOUS
  <2>2. ASSUME NEW k \in Nat, k \in T PROVE k + 1 \in T
    <3>1. within[(n + k) + 1] = within[n + k] \cup UNION {LeadsTo(st, x, part, y) : y \in within[n + k]}
      BY <1>3
    <3>2. (n + k) + 1 = n + (k + 1)
      OBVIOUS
    <3>3. within[n + k] \subseteq within[n + (k + 1)]
      BY <3>1, <3>2
    <3> QED
      BY <2>2, <3>3
  <2> HIDE DEF T
  <2>3. \A k \in Nat : k \in T
    BY <2>1, <2>2, EveryNumber
  <2> QED
    BY <2>3 DEF T
<1> QED
  BY <1>2, <1>3, <1>5, <1>6

(* Nothing further is filled in, whatever is being filled in already.      *)
LEMMA FilledNear ==
  ASSUME NEW st \in Stores, NEW x \in Iris, NEW part, NEW filled, Filled(filled, st, x, part),
         NEW within, Nearby(within, st, x, part)
  PROVE  \A n, d \in Nat : \A y \in within[d], seen \in SUBSET Iris :
           filled[n][<<y, seen>>] \subseteq within[d + n]
<1>1. /\ within[0] = {x}
      /\ \A n \in Nat : within[n + 1] = within[n] \cup UNION {LeadsTo(st, x, part, y) : y \in within[n]}
      /\ \A n \in Nat : within[n] \subseteq Iris
      /\ \A n, k \in Nat : within[n] \subseteq within[n + k]
  BY NearbyIs
<1> DEFINE T == {n \in Nat : \A d \in Nat : \A y \in within[d], seen \in SUBSET Iris :
                              filled[n][<<y, seen>>] \subseteq within[d + n]}
<1>2. 0 \in T
  <2> SUFFICES ASSUME NEW d \in Nat, NEW y \in within[d], NEW seen \in SUBSET Iris
               PROVE filled[0][<<y, seen>>] \subseteq within[d + 0]
    OBVIOUS
  <2>1. y \in Iris /\ d + 0 = d
    BY <1>1
  <2>2. filled[0][<<y, seen>>] = {y}
    BY <2>1, FilledIs
  <2> QED
    BY <2>1, <2>2
<1>3. ASSUME NEW n \in Nat, n \in T PROVE n + 1 \in T
  <2> SUFFICES ASSUME NEW d \in Nat, NEW y \in within[d], NEW seen \in SUBSET Iris,
                      NEW z \in filled[n + 1][<<y, seen>>]
               PROVE z \in within[d + (n + 1)]
    OBVIOUS
  <2>1. y \in Iris
    <3>1. within[d] \subseteq Iris
      BY <1>1, Zenon
    <3> QED
      BY <3>1, Zenon
  <2>2. z = y \/ \E w \in LeadsTo(st, x, part, y) : w \notin seen /\ z \in filled[n][<<w, seen \cup {w}>>]
    BY <2>1, FilledIs
  <2>3. CASE z = y
    <3>1. n + 1 \in Nat
      OBVIOUS
    <3>2. within[d] \subseteq within[d + (n + 1)]
      BY <1>1, <3>1, Zenon
    <3> QED
      BY <2>3, <3>2
  <2>4. ASSUME NEW w \in LeadsTo(st, x, part, y), z \in filled[n][<<w, seen \cup {w}>>]
        PROVE  z \in within[d + (n + 1)]
    <3>1. w \in within[d + 1]
      <4>1. within[d + 1] = within[d] \cup UNION {LeadsTo(st, x, part, v) : v \in within[d]}
        BY <1>1
      <4> QED
        BY <4>1
    <3>2. w \in Iris /\ d + 1 \in Nat
      BY <1>1, <3>1
    <3>3. filled[n][<<w, seen \cup {w}>>] \subseteq within[(d + 1) + n]
      BY <1>3, <3>1, <3>2
    <3>4. (d + 1) + n = d + (n + 1)
      OBVIOUS
    <3> QED
      BY <2>4, <3>3, <3>4
  <2> QED
    BY <2>2, <2>3, <2>4
<1> HIDE DEF T
<1>4. \A n \in Nat : n \in T
  BY <1>2, <1>3, EveryNumber
<1> QED
  BY <1>4 DEF T

(* Everything near is filled in: along a shortest way nothing met is being *)
(* filled in already.                                                      *)
LEMMA NearFilled ==
  ASSUME NEW st \in Stores, NEW x \in Iris, NEW part, NEW filled, Filled(filled, st, x, part),
         NEW within, Nearby(within, st, x, part), NEW depth \in Nat, NEW z \in within[depth]
  PROVE  z \in filled[depth][<<x, {x}>>]
<1>1. /\ within[0] = {x}
      /\ \A n \in Nat : within[n + 1] = within[n] \cup UNION {LeadsTo(st, x, part, y) : y \in within[n]}
      /\ \A n \in Nat : within[n] \subseteq Iris
      /\ \A n, k \in Nat : within[n] \subseteq within[n + k]
  BY NearbyIs
<1>2. PICK k \in {n \in Nat : z \in within[n]} : \A n \in {m \in Nat : z \in within[m]} : k <= n
  <2>1. depth \in {n \in Nat : z \in within[n]}
    OBVIOUS
  <2> QED
    BY <2>1, LeastNumber
<1>3. k \in Nat /\ z \in within[k] /\ k <= depth /\ \A n \in Nat : z \in within[n] => k <= n
  BY <1>2
<1> DEFINE Ready(y, d, j) == \A seen \in SUBSET within[d], n \in Nat : n >= j => z \in filled[n][<<y, seen>>]
           Newly(y, d) == y \in within[d] /\ (d # 0 => y \notin within[d - 1])
           T == {j \in Nat : j <= k => \E y : Newly(y, k - j) /\ Ready(y, k - j, j)}
<1>4. 0 \in T
  <2>1. k - 0 = k
    BY <1>3
  <2>2. Newly(z, k)
    <3>1. k # 0 => k - 1 \in Nat /\ ~(k <= k - 1)
      BY <1>3
    <3> QED
      BY <1>3, <3>1
  <2>3. Ready(z, k, 0)
    <3> SUFFICES ASSUME NEW seen \in SUBSET within[k], NEW n \in Nat PROVE z \in filled[n][<<z, seen>>]
      OBVIOUS
    <3>1. z \in Iris /\ seen \in SUBSET Iris
      BY <1>1, <1>3
    <3>2. CASE n = 0
      BY <3>1, <3>2, FilledIs
    <3>3. CASE n # 0
      <4>1. n - 1 \in Nat /\ (n - 1) + 1 = n
        BY <3>3
      <4>2. z \in filled[(n - 1) + 1][<<z, seen>>]
        BY <3>1, <4>1, FilledIs
      <4> QED
        BY <4>1, <4>2
    <3> QED
      BY <3>2, <3>3
  <2> QED
    BY <2>1, <2>2, <2>3
<1>5. ASSUME NEW j \in Nat, j \in T PROVE j + 1 \in T
  <2> SUFFICES ASSUME j + 1 <= k PROVE \E y : Newly(y, k - (j + 1)) /\ Ready(y, k - (j + 1), j + 1)
    OBVIOUS
  <2> DEFINE d == k - (j + 1)
  <2>1. d \in Nat /\ k - j = d + 1 /\ (d + 1) - 1 = d /\ j <= k /\ d + 1 # 0
    BY <1>3
  <2>2. PICK y : Newly(y, k - j) /\ Ready(y, k - j, j)
    BY <1>5, <2>1
  <2> HIDE DEF d, Ready
  <2>3. y \in within[d + 1] /\ y \notin within[d]
    BY <2>1, <2>2
  <2>4. PICK w \in within[d] : y \in LeadsTo(st, x, part, w)
    BY <1>1, <2>1, <2>3
  <2>5. Newly(w, d)
    <3>1. ASSUME d # 0, w \in within[d - 1] PROVE FALSE
      <4>1. d - 1 \in Nat /\ (d - 1) + 1 = d
        BY <2>1, <3>1
      <4>2. within[(d - 1) + 1] = within[d - 1] \cup UNION {LeadsTo(st, x, part, v) : v \in within[d - 1]}
        BY <1>1, <4>1
      <4>3. y \in within[(d - 1) + 1]
        BY <2>4, <3>1, <4>2
      <4> QED
        BY <2>3, <4>1, <4>3
    <3> QED
      BY <2>4, <3>1
  <2>6. Ready(w, d, j + 1)
    <3> SUFFICES ASSUME NEW seen \in SUBSET within[d], NEW n \in Nat, n >= j + 1
                 PROVE z \in filled[n][<<w, seen>>]
      BY DEF Ready
    <3>1. w \in Iris /\ seen \in SUBSET Iris /\ y \notin seen
      BY <1>1, <2>1, <2>3, <2>4
    <3>2. n - 1 \in Nat /\ n - 1 >= j /\ (n - 1) + 1 = n
      OBVIOUS
    <3>3. seen \cup {y} \in SUBSET within[d + 1]
      <4>1. within[d] \subseteq within[d + 1]
        BY <1>1, <2>1
      <4> QED
        BY <2>3, <4>1
    <3>4. z \in filled[n - 1][<<y, seen \cup {y}>>]
      BY <2>1, <2>2, <3>2, <3>3 DEF Ready
    <3>5. z \in filled[(n - 1) + 1][<<w, seen>>]
      BY <2>4, <3>1, <3>2, <3>4, FilledIs
    <3> QED
      BY <3>2, <3>5
  <2> QED
    BY <2>5, <2>6 DEF d
<1> HIDE DEF T
<1>6. k \in T
  BY <1>3, <1>4, <1>5, EveryNumber
<1>7. PICK y : Newly(y, k - k) /\ Ready(y, k - k, k)
  BY <1>3, <1>6 DEF T
<1>8. k - k = 0 /\ y = x
  BY <1>1, <1>3, <1>7
<1>9. {x} \in SUBSET within[0]
  BY <1>1
<1> QED
  BY <1>3, <1>7, <1>8, <1>9

LEMMA ResolvedNear ==
  ASSUME NEW st \in Stores, NEW x \in Iris, NEW part, NEW depth \in Nat,
         NEW within, Nearby(within, st, x, part)
  PROVE  Resolved(st, x, part, depth) = within[depth]
<1>1. PICK filled : Filled(filled, st, x, part) /\ Resolved(st, x, part, depth) = filled[depth][<<x, {x}>>]
  BY ResolvedIs
<1>2. filled[depth][<<x, {x}>>] \subseteq within[depth]
  <2>1. x \in within[0] /\ 0 + depth = depth /\ {x} \in SUBSET Iris
    BY NearbyIs
  <2> QED
    BY <1>1, <2>1, FilledNear
<1>3. within[depth] \subseteq filled[depth][<<x, {x}>>]
  BY <1>1, NearFilled
<1> QED
  BY <1>1, <1>2, <1>3

-----------------------------------------------------------------------------
(* What waits, and what is told at a glance.                               *)
HeldIn(st) == {x \in Iris : Held(st, x)}
IntoOf(st, x) == {Inward(st, x)[i] : i \in DOMAIN Inward(st, x)}

LEMMA WholeCarried ==
  ASSUME NEW st, NEW x
  PROVE  Carried(st, x, Whole) = LinksOf(st, x)
BY DEF Carried

LEMMA ReadOnlyIs ==
  ASSUME NEW st \in Stores, NEW x \in Iris
  PROVE  ReadWhole(st, x, Whole, 0).placeholders = Placeholders(st, {x} \X LinksOf(st, x))
<1> DEFINE filled_in == Resolved(st, x, Whole, 0)
           shown == {x} \X Carried(st, x, Whole)
                      \cup UNION {{y} \X Carried(st, y, Whole) : y \in filled_in \ {x}}
<1>1. filled_in = {x}
  <2>1. 0 \in Nat /\ {x} \in SUBSET Iris
    OBVIOUS
  <2>2. PICK filled : Filled(filled, st, x, Whole) /\ filled_in = filled[0][<<x, {x}>>]
    BY <2>1, ResolvedIs
  <2> HIDE DEF filled_in
  <2>3. filled[0][<<x, {x}>>] = {x}
    BY <2>1, <2>2, FilledIs
  <2> QED
    BY <2>2, <2>3
<1>2. UNION {{y} \X Carried(st, y, Whole) : y \in filled_in \ {x}} = {}
  <2>1. filled_in \ {x} = {}
    BY <1>1
  <2> HIDE DEF filled_in
  <2> QED
    BY <2>1
<1>3. ReadWhole(st, x, Whole, 0) = [artifacts |-> filled_in, placeholders |-> Placeholders(st, shown)]
  BY Zenon DEF ReadWhole
<1>4. shown = {x} \X LinksOf(st, x)
  <2> HIDE DEF filled_in
  <2> QED
    BY <1>2, WholeCarried
<1> HIDE DEF shown, filled_in
<1> QED
  BY <1>3, <1>4

LEMMA WaitingIs ==
  ASSUME NEW st \in Stores, Emptied(st)
  PROVE  Waiting(st) = UNION {ReadWhole(st, x, Whole, 0).placeholders : x \in HeldIn(st)}
<1>1. \A x \in Iris : ~Held(st, x) => LinksOf(st, x) = {}
  BY DEF Emptied, Nothing, LinksOf
<1>2. \A w : w \in Waiting(st) <=> \E x \in Iris : w \in {x} \X LinksOf(st, x) /\ Waits(st, w[2])
  BY DEF Waiting
<1>3. \A w : \A x \in Iris : w \in ReadWhole(st, x, Whole, 0).placeholders <=>
        w \in {x} \X LinksOf(st, x) /\ Waits(st, w[2])
  <2> SUFFICES ASSUME NEW w, NEW x \in Iris
               PROVE  w \in ReadWhole(st, x, Whole, 0).placeholders <=>
                        w \in {x} \X LinksOf(st, x) /\ Waits(st, w[2])
    OBVIOUS
  <2>1. ReadWhole(st, x, Whole, 0).placeholders = Placeholders(st, {x} \X LinksOf(st, x))
    BY ReadOnlyIs
  <2>2. Placeholders(st, {x} \X LinksOf(st, x)) = {p \in {x} \X LinksOf(st, x) : Waits(st, p[2])}
    BY DEF Placeholders
  <2> QED
    BY <2>1, <2>2, Zenon
<1>4. \A w : \A x \in Iris : w \in {x} \X LinksOf(st, x) => x \in HeldIn(st)
  BY <1>1 DEF HeldIn
<1>5. HeldIn(st) \subseteq Iris
  BY DEF HeldIn
<1> QED
  BY <1>2, <1>3, <1>4, <1>5

LEMMA GlanceWaits ==
  ASSUME NEW st \in Stores, NEW x \in Iris
  PROVE  ReadSummary(st, x).placeholders = ReadWhole(st, x, Whole, 0).placeholders
<1>1. ReadSummary(st, x).placeholders = Placeholders(st, {x} \X Carried(st, x, Whole))
  BY DEF ReadSummary
<1> QED
  BY <1>1, WholeCarried, ReadOnlyIs

(* Who points at an artifact, by field, and as a walk into it meets them.  *)
Pointing(st, x) ==
  {c \in Iris \X Fields : \E link \in LinksOf(st, c[1]) : link.field = c[2] /\ link.target = x}

LEMMA IntoIs ==
  ASSUME NEW st \in Stores, NEW x \in Iris
  PROVE  /\ IsFiniteSet(IntoOf(st, x)) /\ IntoOf(st, x) \subseteq Fields \X Iris
         /\ \A z, f : <<f, z>> \in IntoOf(st, x) <=> <<z, f>> \in Pointing(st, x)
<1>1. /\ Inward(st, x) \in Seq(Fields \X Iris)
      /\ \A h : Tells(Inward(st, x), h) <=>
           \E y \in Iris : \E link \in LinksOf(st, y) : link.target = x /\ h = <<link.field, y>>
  BY InwardIs
<1>2. \A h : h \in IntoOf(st, x) <=> Tells(Inward(st, x), h)
  BY DEF IntoOf, Tells
<1>3. IsFiniteSet(IntoOf(st, x))
  BY <1>1, ToldFinite DEF IntoOf
<1>4. IntoOf(st, x) \subseteq Fields \X Iris
  BY <1>1, ElementOfSeq DEF IntoOf
<1>5. ASSUME NEW z, NEW f PROVE <<f, z>> \in IntoOf(st, x) <=> <<z, f>> \in Pointing(st, x)
  <2>1. <<f, z>> \in IntoOf(st, x) <=>
          z \in Iris /\ \E link \in LinksOf(st, z) : link.target = x /\ link.field = f
    BY <1>1, <1>2
  <2>2. \A link \in LinksOf(st, z) : z \in Iris => link.field \in Fields
    BY LinksAre DEF Link
  <2>3. <<z, f>> \in Pointing(st, x) <=>
          z \in Iris /\ f \in Fields /\ \E link \in LinksOf(st, z) : link.field = f /\ link.target = x
    BY DEF Pointing
  <2> QED
    BY <2>1, <2>2, <2>3
<1> QED
  BY <1>3, <1>4, <1>5

LEMMA PointingCounted ==
  ASSUME NEW st \in Stores, NEW x \in Iris, NEW key
  PROVE  Cardinality({c \in Pointing(st, x) : <<st[c[1]].kind, c[2]>> = key})
           = Cardinality({y \in IntoOf(st, x) : <<st[y[2]].kind, y[1]>> = key})
<1> DEFINE S == {y \in IntoOf(st, x) : <<st[y[2]].kind, y[1]>> = key}
           T == {c \in Pointing(st, x) : <<st[c[1]].kind, c[2]>> = key}
           f == [y \in S |-> <<y[2], y[1]>>]
<1>1. /\ IsFiniteSet(IntoOf(st, x)) /\ IntoOf(st, x) \subseteq Fields \X Iris
      /\ \A z, g : <<g, z>> \in IntoOf(st, x) <=> <<z, g>> \in Pointing(st, x)
  BY IntoIs
<1>2. IsFiniteSet(S)
  BY <1>1, FS_Subset
<1>3. \A y \in S : \E g, z : y = <<g, z>> /\ f[y] = <<z, g>>
  BY <1>1
<1>4. Pointing(st, x) \subseteq Iris \X Fields
  BY DEF Pointing
<1>5. f \in [S -> T]
  <2>1. ASSUME NEW y \in S PROVE <<y[2], y[1]>> \in T
    <3>1. PICK g \in Fields, z \in Iris : y = <<g, z>>
      BY <1>1
    <3>2. y[1] = g /\ y[2] = z
      BY <3>1
    <3>3. <<z, g>> \in Pointing(st, x) /\ <<st[z].kind, g>> = key
      BY <1>1, <3>1, <3>2
    <3> QED
      BY <3>2, <3>3
  <2> QED
    BY <2>1
<1>6. \A a, b \in S : f[a] = f[b] => a = b
  <2> TAKE a, b \in S
  <2>1. PICK g, z : a = <<g, z>> /\ f[a] = <<z, g>>
    BY <1>3
  <2>2. PICK h, w : b = <<h, w>> /\ f[b] = <<w, h>>
    BY <1>3
  <2> HIDE DEF f
  <2> QED
    BY <2>1, <2>2
<1>7. \A t \in T : \E a \in S : f[a] = t
  <2> TAKE t \in T
  <2>1. PICK z \in Iris, g \in Fields : t = <<z, g>>
    BY <1>4
  <2>2. <<z, g>> \in Pointing(st, x) /\ <<st[z].kind, g>> = key
    BY <2>1
  <2>3. <<g, z>> \in S
    BY <1>1, <2>2
  <2> QED
    BY <2>1, <2>3
<1> HIDE DEF S, T, f
<1>8. Cardinality(T) = Cardinality(S)
  BY <1>2, <1>5, <1>6, <1>7, SameCount
<1> QED
  BY <1>8 DEF S, T

LEMMA GlanceCounts ==
  ASSUME NEW st \in Stores, NEW x \in Iris
  PROVE  ReadSummary(st, x).inbound =
           [key \in {<<st[y[2]].kind, y[1]>> : y \in IntoOf(st, x)} |->
              Cardinality({y \in IntoOf(st, x) : <<st[y[2]].kind, y[1]>> = key})]
<1>1. ReadSummary(st, x).inbound =
        [key \in {<<st[c[1]].kind, c[2]>> : c \in Pointing(st, x)} |->
           Cardinality({c \in Pointing(st, x) : <<st[c[1]].kind, c[2]>> = key})]
  BY DEF ReadSummary, Pointing
<1>2. IntoOf(st, x) \subseteq Fields \X Iris /\ Pointing(st, x) \subseteq Iris \X Fields
      /\ \A z, g : <<g, z>> \in IntoOf(st, x) <=> <<z, g>> \in Pointing(st, x)
  BY IntoIs DEF Pointing
<1>3. {<<st[c[1]].kind, c[2]>> : c \in Pointing(st, x)} = {<<st[y[2]].kind, y[1]>> : y \in IntoOf(st, x)}
  <2>1. ASSUME NEW c \in Pointing(st, x) PROVE \E y \in IntoOf(st, x) : <<st[y[2]].kind, y[1]>> = <<st[c[1]].kind, c[2]>>
    <3>1. PICK z \in Iris, g \in Fields : c = <<z, g>>
      BY <1>2
    <3>2. <<g, z>> \in IntoOf(st, x)
      BY <1>2, <3>1
    <3> QED
      BY <3>1, <3>2
  <2>2. ASSUME NEW y \in IntoOf(st, x) PROVE \E c \in Pointing(st, x) : <<st[c[1]].kind, c[2]>> = <<st[y[2]].kind, y[1]>>
    <3>1. PICK g \in Fields, z \in Iris : y = <<g, z>>
      BY <1>2
    <3>2. <<z, g>> \in Pointing(st, x)
      BY <1>2, <3>1
    <3> QED
      BY <3>1, <3>2
  <2> DEFINE of(c) == <<st[c[1]].kind, c[2]>>
             at(y) == <<st[y[2]].kind, y[1]>>
  <2>3. \A c \in Pointing(st, x) : \E y \in IntoOf(st, x) : at(y) = of(c)
    BY <2>1
  <2>4. \A y \in IntoOf(st, x) : \E c \in Pointing(st, x) : of(c) = at(y)
    BY <2>2
  <2> HIDE DEF of, at
  <2>5. {of(c) : c \in Pointing(st, x)} = {at(y) : y \in IntoOf(st, x)}
    BY <2>3, <2>4
  <2> QED
    BY <2>5 DEF of, at
<1> DEFINE pointing(key) == Cardinality({c \in Pointing(st, x) : <<st[c[1]].kind, c[2]>> = key})
           into(key) == Cardinality({y \in IntoOf(st, x) : <<st[y[2]].kind, y[1]>> = key})
<1>4. \A key : pointing(key) = into(key)
  BY PointingCounted, Zenon
<1> HIDE DEF pointing, into
<1>5. [key \in {<<st[c[1]].kind, c[2]>> : c \in Pointing(st, x)} |-> pointing(key)]
        = [key \in {<<st[y[2]].kind, y[1]>> : y \in IntoOf(st, x)} |-> into(key)]
  BY <1>3, <1>4, Zenon
<1> QED
  BY <1>1, <1>5, Zenon DEF pointing, into

-----------------------------------------------------------------------------
(* A read whole, as deep as asked.                                         *)

(* What links in some of an artifact's fields lead to, held.               *)
Targets(st, y, at) ==
  {link.target : link \in {l \in Own(st, y, at) : l.part = Whole /\ l.target \in HeldIn(st)}}

(* What so many steps reach, the artifact read being of a part for one.    *)
Reaching(within, st, x, part) ==
  within = [n \in Nat |->
              IF n = 0 THEN {x}
              ELSE within[n - 1] \cup
                   IF n = 1 THEN Targets(st, x, part)
                   ELSE UNION {Targets(st, y, Whole) : y \in within[n - 1] \ {x}}]

LEMMA TargetsAre ==
  ASSUME NEW st \in Stores, NEW x \in Iris, NEW part, NEW y \in Iris
  PROVE  /\ LeadsTo(st, x, part, y) = Targets(st, y, IF y = x THEN part ELSE Whole)
         /\ LeadsTo(st, x, part, y) \subseteq Iris
<1>1. \A l \in Own(st, y, IF y = x THEN part ELSE Whole) : l.target \in Iris
  BY LinksAre DEF Own, Link
<1>2. \A l \in Own(st, y, IF y = x THEN part ELSE Whole) : Held(st, l.target) <=> l.target \in HeldIn(st)
  BY <1>1 DEF HeldIn
<1> QED
  BY <1>1, <1>2 DEF LeadsTo, Targets

LEMMA NearbyThere ==
  ASSUME NEW st \in Stores, NEW x \in Iris, NEW part
  PROVE  \E within : Nearby(within, st, x, part)
<1> DEFINE step(f) == f \cup UNION {LeadsTo(st, x, part, y) : y \in f}
           X == SUBSET Iris
           steps == [p \in Nat \X X |-> step(p[2])]
<1>1. ASSUME NEW f \in X PROVE step(f) \in X
  <2>1. \A y \in f : LeadsTo(st, x, part, y) \subseteq Iris
    BY TargetsAre
  <2> QED
    BY <2>1
<1>2. {x} \in X
  OBVIOUS
<1> HIDE DEF step, X
<1>3. \A n \in Nat, f \in X : steps[<<n, f>>] = step(f)
  OBVIOUS
<1> HIDE DEF steps
<1>4. Stays(steps, X)
  BY <1>1, <1>3 DEF Stays
<1>5. PICK g : Recurs(g, X, {x}, steps)
  BY <1>2, <1>4, RecursionThere
<1>6. g \in [Nat -> X] /\ \A n \in Nat : g[n] = IF n = 0 THEN {x} ELSE steps[<<n, g[n - 1]>>]
  BY <1>5 DEF Recurs
<1>7. \A n \in Nat : g[n] = IF n = 0 THEN {x} ELSE step(g[n - 1])
  <2> TAKE n \in Nat
  <2>1. n # 0 => n - 1 \in Nat /\ g[n - 1] \in X
    BY <1>6
  <2> QED
    BY <1>3, <1>6, <2>1
<1>8. g = [n \in Nat |-> IF n = 0 THEN {x} ELSE step(g[n - 1])]
  BY <1>6, <1>7
<1> QED
  BY <1>8, Zenon DEF Nearby, step

(* A step further keeps what the steps before had.                         *)
LEMMA Onwards ==
  ASSUME NEW w, NEW x, w[0] = {x}, \A n \in Nat : w[n] \subseteq w[n + 1]
  PROVE  \A n \in Nat : x \in w[n] /\ w[1] \subseteq w[n + 1]
<1> DEFINE T == {n \in Nat : x \in w[n] /\ w[1] \subseteq w[n + 1]}
<1>1. 0 \in T
  OBVIOUS
<1>2. ASSUME NEW n \in Nat, n \in T PROVE n + 1 \in T
  <2>1. n + 1 \in Nat /\ w[n] \subseteq w[n + 1] /\ w[n + 1] \subseteq w[(n + 1) + 1]
    OBVIOUS
  <2> QED
    BY <1>2, <2>1
<1> HIDE DEF T
<1>3. \A n \in Nat : n \in T
  BY <1>1, <1>2, EveryNumber
<1> QED
  BY <1>3 DEF T

(* Both say the same of one step further.                                  *)
LEMMA OneFurther ==
  ASSUME NEW st \in Stores, NEW x \in Iris, NEW part, NEW n \in Nat, NEW had \in SUBSET Iris,
         x \in had, n = 0 => had = {x}, n # 0 => LeadsTo(st, x, part, x) \subseteq had
  PROVE  had \cup UNION {LeadsTo(st, x, part, y) : y \in had}
           = had \cup IF n + 1 = 1 THEN Targets(st, x, part)
                       ELSE UNION {Targets(st, y, Whole) : y \in had \ {x}}
<1>1. LeadsTo(st, x, part, x) = Targets(st, x, part)
  BY TargetsAre
<1>2. \A y \in had \ {x} : LeadsTo(st, x, part, y) = Targets(st, y, Whole)
  BY TargetsAre
<1>3. CASE n = 0
  <2>1. UNION {LeadsTo(st, x, part, y) : y \in had} = LeadsTo(st, x, part, x)
    BY <1>3
  <2> QED
    BY <1>1, <1>3, <2>1
<1>4. CASE n # 0
  <2>1. n + 1 # 1
    BY <1>4
  <2>2. UNION {LeadsTo(st, x, part, y) : y \in had}
          = LeadsTo(st, x, part, x) \cup UNION {LeadsTo(st, x, part, y) : y \in had \ {x}}
    OBVIOUS
  <2>3. UNION {LeadsTo(st, x, part, y) : y \in had \ {x}} = UNION {Targets(st, y, Whole) : y \in had \ {x}}
    BY <1>2
  <2> QED
    BY <1>4, <2>1, <2>2, <2>3
<1> QED
  BY <1>3, <1>4

LEMMA NearbyReaching ==
  ASSUME NEW st \in Stores, NEW x \in Iris, NEW part, NEW w, Nearby(w, st, x, part)
  PROVE  Reaching(w, st, x, part)
<1>1. /\ w[0] = {x}
      /\ \A n \in Nat : w[n + 1] = w[n] \cup UNION {LeadsTo(st, x, part, y) : y \in w[n]}
      /\ \A n \in Nat : w[n] \subseteq Iris
      /\ \A n, k \in Nat : w[n] \subseteq w[n + k]
  BY NearbyIs
<1>2. \A n \in Nat : w[n] \subseteq w[n + 1]
  BY <1>1
<1>3. \A n \in Nat : x \in w[n] /\ w[1] \subseteq w[n + 1]
  BY <1>1, <1>2, Onwards
<1>4. LeadsTo(st, x, part, x) \subseteq w[1]
  <2>1. w[0 + 1] = w[0] \cup UNION {LeadsTo(st, x, part, y) : y \in w[0]}
    BY <1>1
  <2> QED
    BY <1>1, <2>1
<1> DEFINE next(n) == IF n = 0 THEN {x}
                      ELSE w[n - 1] \cup
                           IF n = 1 THEN Targets(st, x, part)
                           ELSE UNION {Targets(st, y, Whole) : y \in w[n - 1] \ {x}}
<1>5. ASSUME NEW n \in Nat PROVE w[n] = next(n)
  <2>1. CASE n = 0
    BY <1>1, <2>1
  <2>2. CASE n # 0
    <3> DEFINE m == n - 1
    <3>1. m \in Nat /\ m + 1 = n
      BY <2>2
    <3>2. m # 0 => m - 1 \in Nat /\ (m - 1) + 1 = m
      BY <3>1
    <3> HIDE DEF m
    <3>3. m # 0 => LeadsTo(st, x, part, x) \subseteq w[m]
      BY <1>3, <1>4, <3>2
    <3>4. w[m] \subseteq Iris /\ x \in w[m]
      BY <1>1, <1>3, <3>1
    <3>5. w[m + 1] = w[m] \cup UNION {LeadsTo(st, x, part, y) : y \in w[m]}
      BY <1>1, <3>1
    <3>6. w[m + 1] = w[m] \cup IF m + 1 = 1 THEN Targets(st, x, part)
                               ELSE UNION {Targets(st, y, Whole) : y \in w[m] \ {x}}
      <4>1. w[m] \cup UNION {LeadsTo(st, x, part, y) : y \in w[m]}
              = w[m] \cup IF m + 1 = 1 THEN Targets(st, x, part)
                          ELSE UNION {Targets(st, y, Whole) : y \in w[m] \ {x}}
        <5>1. m = 0 => w[m] = {x}
          BY <1>1
        <5>2. w[m] \in SUBSET Iris
          BY <3>4
        <5> QED
          BY <3>1, <3>3, <3>4, <5>1, <5>2, OneFurther
      <4> QED
        BY <3>5, <4>1, Zenon
    <3> QED
      BY <2>2, <3>1, <3>6 DEF m
  <2> QED
    BY <2>1, <2>2
<1> HIDE DEF next
<1>6. w = [n \in Nat |-> w[n]]
  BY DEF Nearby
<1>7. w = [n \in Nat |-> next(n)]
  BY <1>5, <1>6
<1> QED
  BY <1>7, Zenon DEF Reaching, next

LEMMA ReachingNearby ==
  ASSUME NEW st \in Stores, NEW x \in Iris, NEW part, NEW w, Reaching(w, st, x, part)
  PROVE  Nearby(w, st, x, part)
<1>1. \A n \in Nat : w[n] = IF n = 0 THEN {x}
        ELSE w[n - 1] \cup IF n = 1 THEN Targets(st, x, part)
                           ELSE UNION {Targets(st, y, Whole) : y \in w[n - 1] \ {x}}
  BY DEF Reaching
<1>2. w[0] = {x}
  BY <1>1
<1>3. ASSUME NEW n \in Nat
      PROVE  w[n + 1] = w[n] \cup IF n + 1 = 1 THEN Targets(st, x, part)
                                  ELSE UNION {Targets(st, y, Whole) : y \in w[n] \ {x}}
  <2>1. n + 1 \in Nat /\ n + 1 # 0 /\ (n + 1) - 1 = n
    OBVIOUS
  <2> QED
    BY <1>1, <2>1
<1>4. \A n \in Nat : w[n] \subseteq w[n + 1]
  BY <1>3
<1>5. \A n \in Nat : x \in w[n] /\ w[1] \subseteq w[n + 1]
  BY <1>2, <1>4, Onwards
<1>6. LeadsTo(st, x, part, x) \subseteq w[1]
  <2>1. w[0 + 1] = w[0] \cup Targets(st, x, part)
    BY <1>3
  <2>2. LeadsTo(st, x, part, x) = Targets(st, x, part)
    BY TargetsAre
  <2> QED
    BY <2>1, <2>2
<1>7. \A at : \A y \in Iris : Targets(st, y, at) \subseteq Iris
  BY DEF Targets, HeldIn
<1>8. \A n \in Nat : w[n] \subseteq Iris
  <2> DEFINE T == {n \in Nat : w[n] \subseteq Iris}
  <2>1. 0 \in T
    BY <1>2
  <2>2. ASSUME NEW n \in Nat, n \in T PROVE n + 1 \in T
    <3>1. w[n] \subseteq Iris
      BY <2>2
    <3>2. UNION {Targets(st, y, Whole) : y \in w[n] \ {x}} \subseteq Iris
      BY <1>7, <3>1
    <3>3. Targets(st, x, part) \subseteq Iris
      BY <1>7
    <3> QED
      BY <1>3, <3>1, <3>2, <3>3
  <2> HIDE DEF T
  <2>3. \A n \in Nat : n \in T
    BY <2>1, <2>2, EveryNumber
  <2> QED
    BY <2>3 DEF T
<1> DEFINE next(n) == IF n = 0 THEN {x}
                      ELSE w[n - 1] \cup UNION {LeadsTo(st, x, part, y) : y \in w[n - 1]}
<1>9. ASSUME NEW n \in Nat PROVE w[n] = next(n)
  <2>1. CASE n = 0
    BY <1>2, <2>1
  <2>2. CASE n # 0
    <3> DEFINE m == n - 1
    <3>1. m \in Nat /\ m + 1 = n
      BY <2>2
    <3>2. m # 0 => m - 1 \in Nat /\ (m - 1) + 1 = m
      BY <3>1
    <3> HIDE DEF m
    <3>3. m # 0 => LeadsTo(st, x, part, x) \subseteq w[m]
      BY <1>5, <1>6, <3>2
    <3>4. w[m] \subseteq Iris /\ x \in w[m]
      BY <1>5, <1>8, <3>1
    <3>5. w[m + 1] = w[m] \cup IF m + 1 = 1 THEN Targets(st, x, part)
                               ELSE UNION {Targets(st, y, Whole) : y \in w[m] \ {x}}
      BY <1>3, <3>1
    <3>6. w[m + 1] = w[m] \cup UNION {LeadsTo(st, x, part, y) : y \in w[m]}
      <4>1. w[m] \cup UNION {LeadsTo(st, x, part, y) : y \in w[m]}
              = w[m] \cup IF m + 1 = 1 THEN Targets(st, x, part)
                          ELSE UNION {Targets(st, y, Whole) : y \in w[m] \ {x}}
        <5>1. m = 0 => w[m] = {x}
          BY <1>2
        <5>2. w[m] \in SUBSET Iris
          BY <3>4
        <5> QED
          BY <3>1, <3>3, <3>4, <5>1, <5>2, OneFurther
      <4> QED
        BY <3>5, <4>1, Zenon
    <3> QED
      BY <2>2, <3>1, <3>6 DEF m
  <2> QED
    BY <2>1, <2>2
<1> HIDE DEF next
<1>10. w = [n \in Nat |-> w[n]]
  BY DEF Reaching
<1>11. w = [n \in Nat |-> next(n)]
  BY <1>9, <1>10
<1> QED
  BY <1>11, Zenon DEF Nearby, next

LEMMA WholeTold ==
  ASSUME NEW st \in Stores, NEW x \in Iris, NEW part, NEW depth \in Nat,
         NEW within, Reaching(within, st, x, part)
  PROVE  /\ ReadWhole(st, x, part, depth).artifacts = within[depth]
         /\ \A y \in within[depth] : \A link :
              <<y, link>> \in ReadWhole(st, x, part, depth).placeholders <=>
                Waits(st, link) /\ link \in Carried(st, y, IF y = x THEN part ELSE Whole)
<1> DEFINE filled_in == Resolved(st, x, part, depth)
           shown == {x} \X Carried(st, x, part)
                      \cup UNION {{y} \X Carried(st, y, Whole) : y \in filled_in \ {x}}
<1>1. Nearby(within, st, x, part)
  BY ReachingNearby
<1>2. filled_in = within[depth]
  BY <1>1, ResolvedNear
<1>3. ReadWhole(st, x, part, depth) = [artifacts |-> filled_in, placeholders |-> Placeholders(st, shown)]
  BY Zenon DEF ReadWhole
<1> HIDE DEF filled_in
<1>4. ASSUME NEW y \in filled_in, NEW link
      PROVE  <<y, link>> \in shown <=> link \in Carried(st, y, IF y = x THEN part ELSE Whole)
  OBVIOUS
<1> HIDE DEF shown
<1>5. \A p : p \in Placeholders(st, shown) <=> p \in shown /\ Waits(st, p[2])
  BY DEF Placeholders
<1>6. ReadWhole(st, x, part, depth).placeholders = Placeholders(st, shown)
      /\ ReadWhole(st, x, part, depth).artifacts = filled_in
  BY <1>3
<1>7. ASSUME NEW y \in within[depth], NEW link
      PROVE  <<y, link>> \in ReadWhole(st, x, part, depth).placeholders <=>
                Waits(st, link) /\ link \in Carried(st, y, IF y = x THEN part ELSE Whole)
  <2>1. <<y, link>> \in shown <=> link \in Carried(st, y, IF y = x THEN part ELSE Whole)
    BY <1>2, <1>4
  <2>2. <<y, link>>[2] = link
    OBVIOUS
  <2>3. <<y, link>> \in Placeholders(st, shown) <=> <<y, link>> \in shown /\ Waits(st, link)
    BY <1>5, <2>2
  <2> QED
    BY <1>6, <2>1, <2>3
<1> QED
  BY <1>2, <1>6, <1>7

LEMMA ReadsThere ==
  ASSUME TypeInv, HoldsInv
  PROVE  ReadsTold
<1>1. Now \in Stores /\ Emptied(Now)
  BY NowIs DEF TypeInv, HoldsInv
<1>2. Waiting(Now) = UNION {ReadWhole(Now, x, Whole, 0).placeholders : x \in {y \in Iris : Held(Now, y)}}
  BY <1>1, WaitingIs DEF HeldIn
<1>3. ASSUME NEW x \in {y \in Iris : Held(Now, y)}
      PROVE  LET glance == ReadSummary(Now, x)
                 into == {Inward(Now, x)[i] : i \in DOMAIN Inward(Now, x)}
             IN /\ glance.placeholders = ReadWhole(Now, x, Whole, 0).placeholders
                /\ glance.inbound = [key \in {<<Now[y[2]].kind, y[1]>> : y \in into} |->
                                       Cardinality({y \in into : <<Now[y[2]].kind, y[1]>> = key})]
  BY <1>1, GlanceWaits, GlanceCounts, Zenon DEF IntoOf
<1>4. ASSUME NEW x \in {y \in Iris : Held(Now, y)}, NEW part \in Parts \cup {Whole}, NEW depth \in 0..3
      PROVE  LET within == CHOOSE w : Reaching(w, Now, x, part)
                 told == ReadWhole(Now, x, part, depth)
             IN /\ told.artifacts = within[depth]
                /\ \A y \in within[depth], link \in UNION {LinksOf(Now, z) : z \in Iris} :
                     <<y, link>> \in told.placeholders <=>
                       Waits(Now, link) /\ link \in Carried(Now, y, IF y = x THEN part ELSE Whole)
  <2> DEFINE within == CHOOSE w : Reaching(w, Now, x, part)
  <2>1. x \in Iris /\ depth \in Nat
    OBVIOUS
  <2>2. PICK v : Nearby(v, Now, x, part)
    BY <1>1, <2>1, NearbyThere
  <2>3. Reaching(v, Now, x, part)
    BY <1>1, <2>1, <2>2, NearbyReaching
  <2>4. Reaching(within, Now, x, part)
    BY <2>3, Zenon
  <2> HIDE DEF within
  <2>5. /\ ReadWhole(Now, x, part, depth).artifacts = within[depth]
        /\ \A y \in within[depth] : \A link :
             <<y, link>> \in ReadWhole(Now, x, part, depth).placeholders <=>
               Waits(Now, link) /\ link \in Carried(Now, y, IF y = x THEN part ELSE Whole)
    BY <1>1, <2>1, <2>4, WholeTold
  <2> QED
    BY <2>5, Zenon DEF within
<1> QED
  BY <1>2, <1>3, <1>4, Zenon DEF ReadsTold, Reaching, Targets, HeldIn

(* Read whole and at a glance, what the store says is told whole, through  *)
(* whatever loops its links make; and what lands on nothing is told beside *)
(* it, and by the store as waiting (read._filled, _resolved, _placeholders,*)
(* sqlite_reads.inbound, waiting).                                         *)
THEOREM ReadsTell == Spec => []ReadsTold
<1>1. Init => TypeInv /\ HoldsInv
  BY TypesStart, HoldsStart
<1>2. TypeInv /\ HoldsInv /\ [Next]_vars => TypeInv' /\ HoldsInv'
  BY TypesNext, HoldsNext
<1>3. TypeInv /\ HoldsInv => ReadsTold
  BY ReadsThere
<1> QED
  BY <1>1, <1>2, <1>3, PTL DEF Spec

-----------------------------------------------------------------------------
(* Numbers: a finite set of them has a greatest.                           *)

LEMMA Bounded ==
  ASSUME NEW S \in SUBSET Nat, IsFiniteSet(S)
  PROVE  \E b \in Nat : \A k \in S : k <= b
<1>0. PICK n \in Nat : ExistsBijection(1..n, S)
  BY FS_NatBijection
<1>1. PICK f : f \in Bijection(1..n, S)
  BY <1>0 DEF ExistsBijection
<1>2. f \in [1..n -> S] /\ \A k \in S : \E i \in 1..n : f[i] = k
  BY <1>1 DEF Bijection, Surjection, Injection
<1> DEFINE T == {m \in Nat : m <= n => \E b \in Nat : \A i \in 1..m : f[i] <= b}
<1>3. 0 \in T
  <2>1. 0 \in Nat /\ 1..0 = {}
    OBVIOUS
  <2> QED
    BY <2>1
<1>4. ASSUME NEW m \in Nat, m \in T PROVE m + 1 \in T
  <2> SUFFICES ASSUME m + 1 <= n PROVE \E b \in Nat : \A i \in 1..(m + 1) : f[i] <= b
    OBVIOUS
  <2>1. PICK b \in Nat : \A i \in 1..m : f[i] <= b
    BY <1>4
  <2>2. f[m + 1] \in Nat /\ \A i \in 1..m : f[i] \in Nat
    <3>1. m + 1 \in 1..n /\ 1..m \subseteq 1..n
      OBVIOUS
    <3>2. \A i \in 1..n : f[i] \in Nat
      BY <1>2
    <3> QED
      BY <3>1, <3>2
  <2>3. \A i \in 1..(m + 1) : i \in 1..m \/ i = m + 1
    OBVIOUS
  <2>4. CASE f[m + 1] <= b
    BY <2>1, <2>3, <2>4
  <2>5. CASE ~(f[m + 1] <= b)
    <3>1. \A i \in 1..m : f[i] <= f[m + 1]
      BY <2>1, <2>2, <2>5
    <3> QED
      BY <2>2, <2>3, <3>1
  <2> QED
    BY <2>4, <2>5
<1> HIDE DEF T
<1>5. n \in T
  BY <1>3, <1>4, EveryNumber
<1>6. PICK b \in Nat : \A i \in 1..n : f[i] <= b
  BY <1>5 DEF T
<1> QED
  BY <1>2, <1>6

LEMMA MaxIs ==
  ASSUME NEW S \in SUBSET Nat, IsFiniteSet(S), S # {}
  PROVE  Max(S) \in S /\ \A k \in S : k <= Max(S)
<1>1. PICK b \in Nat : \A k \in S : k <= b
  BY Bounded
<1> DEFINE T == {b - k : k \in S}
<1>2. T \in SUBSET Nat /\ T # {}
  <2>1. \A k \in S : b - k \in Nat
    BY <1>1
  <2> QED
    BY <2>1
<1>3. PICK m \in T : \A k \in T : m <= k
  BY <1>2, LeastNumber
<1>4. PICK x \in S : m = b - x
  BY <1>3
<1>5. \A k \in S : x >= k
  BY <1>1, <1>3, <1>4
<1>6. Max(S) \in S /\ \A k \in S : Max(S) >= k
  BY <1>5, Zenon DEF Max
<1> QED
  BY <1>6

-----------------------------------------------------------------------------
(* The rows search finds a store by.                                       *)

Row == [row : Nat, artifact : Iris, kind : Iris \cup {NoIri}, what : {"section", "field"},
        words : SUBSET Words]
Index == {index \in [numbered : SUBSET (Nat \X Iris), rows : SUBSET Row] : IsFiniteSet(index.numbered)}

Entry == [what : {"section", "field"}, words : SUBSET Words]

(* Every row is numbered, once, for its artifact; and the rows are those   *)
(* each held artifact is found by.                                         *)
Numbering(index) ==
  /\ \A n, m \in index.numbered : n[1] = m[1] => n = m
  /\ \A r \in index.rows : <<r.row, r.artifact>> \in index.numbered
  /\ \A r, s \in index.rows : r.row = s.row => r = s

RowOf(r, st, x, i) ==
  /\ r.artifact = x /\ r.kind = st[x].kind
  /\ r.what = FoundBy(x, st[x].revision)[i].what /\ r.words = FoundBy(x, st[x].revision)[i].words

Indexes(index, st) ==
  /\ index \in Index /\ Numbering(index)
  /\ \A r \in index.rows : Held(st, r.artifact) /\
       \E i \in DOMAIN FoundBy(r.artifact, st[r.artifact].revision) : RowOf(r, st, r.artifact, i)
  /\ \A x \in Iris : Held(st, x) =>
       \A i \in DOMAIN FoundBy(x, st[x].revision) : \E r \in index.rows : RowOf(r, st, x, i)

LEMMA TextsAre ==
  ASSUME NEW x \in Iris, NEW revision \in Nat, revision # 0
  PROVE  /\ TextsOf(x, revision) \in Seq(Text) /\ FoundBy(x, revision) \in Seq(Entry)
         /\ DOMAIN FoundBy(x, revision) = DOMAIN TextsOf(x, revision)
         /\ \A i \in DOMAIN TextsOf(x, revision) :
              /\ FoundBy(x, revision)[i].what = TextsOf(x, revision)[i].what
              /\ FoundBy(x, revision)[i].words =
                   {Folded[TextsOf(x, revision)[i].words[k]] : k \in DOMAIN TextsOf(x, revision)[i].words}
<1>1. Wordings[x] \in Seq(Seq(Text)) /\ Wordings[x] # <<>>
  BY WordingsAssumption
<1>2. Len(Wordings[x]) \in Nat /\ Len(Wordings[x]) # 0
  BY <1>1
<1>3. (IF revision > Len(Wordings[x]) THEN Len(Wordings[x]) ELSE revision) \in DOMAIN Wordings[x]
  BY <1>1, <1>2
<1>4. TextsOf(x, revision) \in Seq(Text)
  BY <1>1, <1>3, ElementOfSeq DEF TextsOf
<1> DEFINE texts == TextsOf(x, revision)
           entry(i) == [what |-> texts[i].what, words |-> {Folded[texts[i].words[k]] : k \in DOMAIN texts[i].words}]
<1>5. FoundBy(x, revision) = [i \in DOMAIN texts |-> entry(i)]
  BY Zenon DEF FoundBy
<1>6. texts \in Seq(Text) /\ DOMAIN texts = 1..Len(texts) /\ Len(texts) \in Nat
  BY <1>4
<1> HIDE DEF texts
<1>7. ASSUME NEW i \in DOMAIN texts PROVE entry(i) \in Entry
  <2>1. texts[i] \in Text
    BY <1>6, ElementOfSeq
  <2>2. texts[i].what \in {"section", "field"} /\ texts[i].words \in Seq(Words)
    BY <2>1 DEF Text
  <2>3. \A k \in DOMAIN texts[i].words : texts[i].words[k] \in Words
    BY <2>2, ElementOfSeq
  <2>4. {Folded[texts[i].words[k]] : k \in DOMAIN texts[i].words} \in SUBSET Words
    BY <2>3, WordsAssumption
  <2> QED
    BY <2>2, <2>4 DEF Entry
<1>8. \A i \in DOMAIN texts :
        /\ entry(i).what = texts[i].what
        /\ entry(i).words = {Folded[texts[i].words[k]] : k \in DOMAIN texts[i].words}
  OBVIOUS
<1> HIDE DEF entry
<1>9. [i \in DOMAIN texts |-> entry(i)] \in Seq(Entry)
  BY <1>6, <1>7
<1>10. /\ DOMAIN FoundBy(x, revision) = DOMAIN texts
       /\ \A i \in DOMAIN texts : FoundBy(x, revision)[i] = entry(i)
  BY <1>5
<1> QED
  BY <1>5, <1>6, <1>8, <1>9, <1>10 DEF texts

LEMMA RowSame ==
  ASSUME NEW st, NEW left, NEW y, st[y] = left[y]
  PROVE  /\ Held(st, y) <=> Held(left, y)
         /\ FoundBy(y, st[y].revision) = FoundBy(y, left[y].revision)
         /\ \A r, i : RowOf(r, st, y, i) <=> RowOf(r, left, y, i)
BY DEF Held, RowOf

(* Rows taken out leave those of every other artifact.                     *)
LEMMA UnsearchedIs ==
  ASSUME NEW st \in Stores, NEW index, Indexes(index, st), NEW x \in Iris
  PROVE  Indexes(Unsearched(index, x), [st EXCEPT ![x] = Nothing])
<1> DEFINE taken == {n[1] : n \in {m \in index.numbered : m[2] = x}}
           without == Unsearched(index, x)
           left == [st EXCEPT ![x] = Nothing]
<1>1. without = [numbered |-> {n \in index.numbered : n[2] # x},
                 rows |-> {r \in index.rows : r.row \notin taken}]
  BY Zenon DEF Unsearched
<1>2. /\ index.numbered \in SUBSET (Nat \X Iris) /\ index.rows \in SUBSET Row
      /\ IsFiniteSet(index.numbered) /\ Numbering(index)
  BY DEF Indexes, Index
<1>3. \A r \in index.rows : r.row \in taken <=> r.artifact = x
  <2> TAKE r \in index.rows
  <2>1. <<r.row, r.artifact>> \in index.numbered
    BY <1>2 DEF Numbering
  <2>2. ASSUME r.artifact = x PROVE r.row \in taken
    <3>1. <<r.row, r.artifact>> \in {m \in index.numbered : m[2] = x}
      BY <2>1, <2>2
    <3> QED
      BY <3>1
  <2>3. ASSUME r.row \in taken PROVE r.artifact = x
    <3>1. PICK n \in index.numbered : n[2] = x /\ r.row = n[1]
      BY <2>3
    <3>2. n = <<r.row, r.artifact>>
      BY <1>2, <2>1, <3>1 DEF Numbering
    <3> QED
      BY <3>1, <3>2
  <2> QED
    BY <2>2, <2>3
<1> HIDE DEF taken, without
<1>4. /\ \A n : n \in without.numbered <=> n \in index.numbered /\ n[2] # x
      /\ \A r : r \in without.rows <=> r \in index.rows /\ r.artifact # x
  BY <1>1, <1>3
<1>5. without \in Index
  <2>1. without.numbered \subseteq index.numbered /\ without.rows \subseteq index.rows
    BY <1>4
  <2>2. IsFiniteSet(without.numbered)
    BY <1>2, <2>1, FS_Subset
  <2>3. without \in [numbered : SUBSET (Nat \X Iris), rows : SUBSET Row]
    BY <1>1, <1>2
  <2> QED
    BY <2>2, <2>3 DEF Index
<1>6. Numbering(without)
  <2>1. \A n, m \in without.numbered : n[1] = m[1] => n = m
    BY <1>2, <1>4 DEF Numbering
  <2>2. \A r \in without.rows : <<r.row, r.artifact>> \in without.numbered
    BY <1>2, <1>4 DEF Numbering
  <2>3. \A r, s \in without.rows : r.row = s.row => r = s
    BY <1>2, <1>4 DEF Numbering
  <2> QED
    BY <2>1, <2>2, <2>3 DEF Numbering
<1>7. \A y \in Iris : y # x => left[y] = st[y]
  BY DEF Stores
<1>8. ~Held(left, x)
  BY DEF Stores, Nothing, Held
<1> HIDE DEF left
<1>9. ASSUME NEW r \in without.rows
      PROVE  Held(left, r.artifact) /\
             \E i \in DOMAIN FoundBy(r.artifact, left[r.artifact].revision) : RowOf(r, left, r.artifact, i)
  <2>1. r \in index.rows /\ r.artifact # x
    BY <1>4
  <2>2. r.artifact \in Iris
    BY <1>2, <2>1 DEF Row
  <2>3. st[r.artifact] = left[r.artifact]
    BY <1>7, <2>1, <2>2
  <2>4. Held(st, r.artifact) /\
        \E i \in DOMAIN FoundBy(r.artifact, st[r.artifact].revision) : RowOf(r, st, r.artifact, i)
    BY <2>1 DEF Indexes
  <2> QED
    BY <2>3, <2>4, RowSame
<1>10. ASSUME NEW y \in Iris, Held(left, y), NEW i \in DOMAIN FoundBy(y, left[y].revision)
       PROVE  \E r \in without.rows : RowOf(r, left, y, i)
  <2>1. y # x /\ st[y] = left[y]
    BY <1>7, <1>8, <1>10
  <2>2. Held(st, y) /\ i \in DOMAIN FoundBy(y, st[y].revision)
    BY <1>10, <2>1, RowSame
  <2>3. PICK r \in index.rows : RowOf(r, st, y, i)
    BY <2>2 DEF Indexes
  <2>4. RowOf(r, left, y, i) /\ r.artifact = y
    BY <2>1, <2>3, RowSame DEF RowOf
  <2> QED
    BY <1>4, <2>1, <2>4
<1>11. Indexes(without, left)
  BY <1>5, <1>6, <1>9, <1>10 DEF Indexes
<1> QED
  BY <1>11 DEF without, left

(* Rows put in are found by what is now held, and no number is given twice.*)
LEMMA SearchableIs ==
  ASSUME NEW st \in Stores, NEW index, Indexes(index, st), NEW x \in Iris, ~Held(st, x),
         NEW held \in Artifact, held.revision # 0
  PROVE  Indexes(Searchable(index, x, held.kind, FoundBy(x, held.revision)), [st EXCEPT ![x] = held])
<1> DEFINE found == FoundBy(x, held.revision)
           numbers == {0} \cup {n[1] : n \in index.numbered}
           last == Max(numbers)
           row(i) == [row |-> last + i, artifact |-> x, kind |-> held.kind,
                      what |-> found[i].what, words |-> found[i].words]
           with == Searchable(index, x, held.kind, FoundBy(x, held.revision))
           left == [st EXCEPT ![x] = held]
<1>1. with = [numbered |-> index.numbered \cup {<<last + i, x>> : i \in DOMAIN found},
              rows |-> index.rows \cup {row(i) : i \in DOMAIN found}]
  BY Zenon DEF Searchable
<1>2. /\ index.numbered \in SUBSET (Nat \X Iris) /\ index.rows \in SUBSET Row
      /\ IsFiniteSet(index.numbered) /\ Numbering(index)
  BY DEF Indexes, Index
<1>3. held.revision \in Nat /\ held.kind \in Iris \cup {NoIri}
  BY DEF Artifact
<1>4. found \in Seq(Entry) /\ DOMAIN found = 1..Len(found) /\ Len(found) \in Nat
  BY <1>3, TextsAre
<1> HIDE DEF found
<1>5. last \in Nat /\ \A n \in index.numbered : n[1] <= last
  <2>1. numbers \in SUBSET Nat /\ numbers # {} /\ \A n \in index.numbered : n[1] \in numbers
    BY <1>2
  <2>2. IsFiniteSet(numbers)
    <3> DEFINE firsts == {n[1] : n \in index.numbered}
               first == [n \in index.numbered |-> n[1]]
    <3>1. first \in [index.numbered -> firsts] /\ \A k \in firsts : \E n \in index.numbered : first[n] = k
      OBVIOUS
    <3> HIDE DEF first, firsts
    <3>2. IsFiniteSet(firsts)
      <4>1. first \in Surjection(index.numbered, firsts)
        BY <3>1 DEF Surjection
      <4> QED
        BY <1>2, <4>1, FS_Surjection
    <3>3. IsFiniteSet({0}) /\ IsFiniteSet({0} \cup firsts)
      BY <3>2, FS_Singleton, FS_Union
    <3> QED
      BY <3>3 DEF firsts
  <2> HIDE DEF numbers
  <2> QED
    BY <2>1, <2>2, MaxIs
<1> HIDE DEF last
<1>6. ASSUME NEW i \in DOMAIN found
      PROVE  /\ row(i) \in Row /\ row(i).row = last + i /\ row(i).artifact = x /\ row(i).kind = held.kind
             /\ row(i).what = found[i].what /\ row(i).words = found[i].words /\ last + i \in Nat /\ i > 0
             /\ i \in Nat
  <2>1. found[i] \in Entry
    BY <1>4, ElementOfSeq
  <2>2. found[i].what \in {"section", "field"} /\ found[i].words \in SUBSET Words
    BY <2>1 DEF Entry
  <2>3. i \in Nat /\ i > 0 /\ last + i \in Nat
    BY <1>4, <1>5
  <2> QED
    BY <1>3, <2>2, <2>3 DEF Row
<1> HIDE DEF row, with
<1>7. /\ \A n : n \in with.numbered <=> n \in index.numbered \/ \E i \in DOMAIN found : n = <<last + i, x>>
      /\ \A r : r \in with.rows <=> r \in index.rows \/ \E i \in DOMAIN found : r = row(i)
  BY <1>1
<1>8. with \in Index
  <2> DEFINE new == {<<last + i, x>> : i \in DOMAIN found}
             number == [i \in DOMAIN found |-> <<last + i, x>>]
  <2>1. IsFiniteSet(DOMAIN found)
    BY <1>4, FS_Interval
  <2>2. number \in [DOMAIN found -> new] /\ \A n \in new : \E i \in DOMAIN found : number[i] = n
    OBVIOUS
  <2>3. new \subseteq Nat \X Iris
    BY <1>6
  <2>4. {row(i) : i \in DOMAIN found} \subseteq Row
    BY <1>6
  <2> HIDE DEF new, number
  <2>5. IsFiniteSet(new)
    BY <2>1, <2>2, FS_Surjection DEF Surjection
  <2>6. IsFiniteSet(index.numbered \cup new)
    BY <1>2, <2>5, FS_Union
  <2>7. with.numbered = index.numbered \cup new /\ with.rows = index.rows \cup {row(i) : i \in DOMAIN found}
    BY <1>1 DEF new
  <2>8. with \in [numbered : SUBSET (Nat \X Iris), rows : SUBSET Row]
    BY <1>1, <1>2, <2>3, <2>4 DEF new
  <2> QED
    BY <2>6, <2>7, <2>8 DEF Index
<1>9. Numbering(with)
  <2>1. ASSUME NEW n \in with.numbered, NEW m \in with.numbered, n[1] = m[1] PROVE n = m
    <3>1. CASE n \in index.numbered /\ m \in index.numbered
      BY <1>2, <2>1, <3>1 DEF Numbering
    <3>2. ASSUME NEW i \in DOMAIN found, n = <<last + i, x>> PROVE n = m
      <4>1. m \notin index.numbered
        <5>1. m \in index.numbered => m[1] <= last
          BY <1>5
        <5>2. m[1] = last + i
          BY <2>1, <3>2
        <5> QED
          BY <1>5, <1>6, <5>1, <5>2
      <4>2. PICK j \in DOMAIN found : m = <<last + j, x>>
        BY <1>7, <4>1
      <4>3. i = j
        BY <1>5, <1>6, <2>1, <3>2, <4>2
      <4> QED
        BY <3>2, <4>2, <4>3
    <3>3. ASSUME NEW i \in DOMAIN found, m = <<last + i, x>> PROVE n = m
      <4>1. n \notin index.numbered
        <5>1. n \in index.numbered => n[1] <= last
          BY <1>5
        <5>2. n[1] = last + i
          BY <2>1, <3>3
        <5> QED
          BY <1>5, <1>6, <5>1, <5>2
      <4>2. PICK j \in DOMAIN found : n = <<last + j, x>>
        BY <1>7, <4>1
      <4>3. i = j
        BY <1>5, <1>6, <2>1, <3>3, <4>2
      <4> QED
        BY <3>3, <4>2, <4>3
    <3> QED
      BY <1>7, <3>1, <3>2, <3>3
  <2>2. ASSUME NEW r \in with.rows PROVE <<r.row, r.artifact>> \in with.numbered
    <3>1. CASE r \in index.rows
      BY <1>2, <1>7, <3>1 DEF Numbering
    <3>2. CASE \E i \in DOMAIN found : r = row(i)
      BY <1>6, <1>7, <3>2
    <3> QED
      BY <1>7, <3>1, <3>2
  <2>3. ASSUME NEW r \in index.rows PROVE r.row <= last /\ r.row \in Nat
    <3>1. <<r.row, r.artifact>> \in index.numbered
      BY <1>2 DEF Numbering
    <3>2. <<r.row, r.artifact>>[1] <= last
      BY <1>5, <3>1
    <3> QED
      BY <1>2, <3>2 DEF Row
  <2>4. ASSUME NEW i \in DOMAIN found PROVE row(i).row = last + i /\ ~(row(i).row <= last)
    BY <1>5, <1>6
  <2>5. \A i, j \in DOMAIN found : row(i).row = row(j).row => i = j
    BY <1>5, <1>6
  <2>6. \A r, s \in with.rows : r.row = s.row => r = s
    BY <1>2, <1>7, <2>3, <2>4, <2>5 DEF Numbering
  <2> QED
    BY <2>1, <2>2, <2>6 DEF Numbering
<1>10. left[x] = held /\ \A y \in Iris : y # x => left[y] = st[y]
  BY DEF Stores
<1>11. Held(left, x)
  BY <1>10 DEF Held
<1> HIDE DEF left
<1>12. ASSUME NEW i \in DOMAIN found PROVE RowOf(row(i), left, x, i)
  BY <1>6, <1>10 DEF RowOf, found
<1>13. ASSUME NEW r \in with.rows
       PROVE  Held(left, r.artifact) /\
              \E i \in DOMAIN FoundBy(r.artifact, left[r.artifact].revision) : RowOf(r, left, r.artifact, i)
  <2>1. CASE r \in index.rows
    <3>1. r.artifact \in Iris
      BY <1>2, <2>1 DEF Row
    <3>2. Held(st, r.artifact) /\
          \E i \in DOMAIN FoundBy(r.artifact, st[r.artifact].revision) : RowOf(r, st, r.artifact, i)
      BY <2>1 DEF Indexes
    <3>3. st[r.artifact] = left[r.artifact]
      BY <1>10, <3>1, <3>2
    <3> QED
      BY <3>2, <3>3, RowSame
  <2>2. ASSUME NEW i \in DOMAIN found, r = row(i)
        PROVE  Held(left, r.artifact) /\
               \E k \in DOMAIN FoundBy(r.artifact, left[r.artifact].revision) : RowOf(r, left, r.artifact, k)
    <3>1. r.artifact = x /\ RowOf(r, left, x, i) /\ i \in DOMAIN FoundBy(x, left[x].revision)
      BY <1>6, <1>10, <1>12, <2>2 DEF found
    <3> QED
      BY <1>11, <3>1
  <2> QED
    BY <1>7, <2>1, <2>2
<1>14. ASSUME NEW y \in Iris, Held(left, y), NEW i \in DOMAIN FoundBy(y, left[y].revision)
       PROVE  \E r \in with.rows : RowOf(r, left, y, i)
  <2>1. CASE y = x
    <3>1. i \in DOMAIN found
      BY <1>10, <2>1 DEF found
    <3> QED
      BY <1>7, <1>12, <2>1, <3>1
  <2>2. CASE y # x
    <3>1. st[y] = left[y]
      BY <1>10, <2>2
    <3>2. Held(st, y) /\ i \in DOMAIN FoundBy(y, st[y].revision)
      BY <1>14, <3>1, RowSame
    <3>3. PICK r \in index.rows : RowOf(r, st, y, i)
      BY <3>2 DEF Indexes
    <3> QED
      BY <1>7, <3>1, <3>3, RowSame
  <2> QED
    BY <2>1, <2>2
<1>15. Indexes(with, left)
  BY <1>8, <1>9, <1>13, <1>14 DEF Indexes
<1> QED
  BY <1>15 DEF with, left

(* A recursive function there is while its values are kept to what its     *)
(* step takes on.                                                          *)
KeepsTo(next, m, X, R) ==
  \A n \in 1..m, x \in X :
    <<n - 1, x>> \in R => next[<<n, x>>] \in X /\ <<n, next[<<n, x>>]>> \in R

LEMMA RecursionKept ==
  ASSUME NEW X, NEW base \in X, NEW next, NEW m \in Nat, NEW R, <<0, base>> \in R,
         KeepsTo(next, m, X, R)
  PROVE  \E f : RecursTo(f, m, X, base, next)
<1>0. \A n \in 1..m, x \in X :
        <<n - 1, x>> \in R => next[<<n, x>>] \in X /\ <<n, next[<<n, x>>]>> \in R
  BY DEF KeepsTo
<1> DEFINE kept == [p \in Nat \X X |-> IF <<p[1] - 1, p[2]>> \in R THEN next[p] ELSE p[2]]
<1>1. \A n \in 1..m, x \in X : kept[<<n, x>>] = IF <<n - 1, x>> \in R THEN next[<<n, x>>] ELSE x
  <2> TAKE n \in 1..m, x \in X
  <2>1. <<n, x>> \in Nat \X X /\ <<n, x>>[1] = n /\ <<n, x>>[2] = x
    OBVIOUS
  <2> QED
    BY <2>1
<1> HIDE DEF kept
<1>2. StaysTo(kept, m, X)
  BY <1>0, <1>1 DEF StaysTo
<1>3. PICK f : RecursTo(f, m, X, base, kept)
  BY <1>2, RecursionTo
<1>4. f \in [0..m -> X] /\ \A n \in 0..m : f[n] = IF n = 0 THEN base ELSE kept[<<n, f[n - 1]>>]
  BY <1>3 DEF RecursTo
<1> DEFINE T == {n \in Nat : n <= m => <<n, f[n]>> \in R}
<1>5. 0 \in T
  <2>1. 0 \in 0..m
    OBVIOUS
  <2>2. f[0] = base
    BY <1>4, <2>1
  <2> QED
    BY <2>2
<1>6. ASSUME NEW n \in 1..m, <<n - 1, f[n - 1]>> \in R
      PROVE  f[n] = next[<<n, f[n - 1]>>] /\ <<n, f[n]>> \in R
  <2>1. n \in 0..m /\ n # 0 /\ n - 1 \in 0..m
    OBVIOUS
  <2>2. f[n - 1] \in X /\ f[n] = kept[<<n, f[n - 1]>>]
    BY <1>4, <2>1
  <2> QED
    BY <1>0, <1>1, <1>6, <2>2
<1>7. ASSUME NEW n \in Nat, n \in T PROVE n + 1 \in T
  <2> SUFFICES ASSUME n + 1 <= m PROVE <<n + 1, f[n + 1]>> \in R
    OBVIOUS
  <2>1. n + 1 \in 1..m /\ (n + 1) - 1 = n /\ <<n, f[n]>> \in R
    BY <1>7
  <2> QED
    BY <1>6, <2>1
<1> HIDE DEF T
<1>8. \A n \in Nat : n \in T
  BY <1>5, <1>7, EveryNumber
<1>9. \A n \in 0..m : <<n, f[n]>> \in R
  BY <1>8 DEF T
<1>10. ASSUME NEW n \in 0..m PROVE f[n] = IF n = 0 THEN base ELSE next[<<n, f[n - 1]>>]
  <2>1. CASE n = 0
    BY <1>4, <2>1
  <2>2. CASE n # 0
    <3>1. n \in 1..m /\ n - 1 \in 0..m
      BY <2>2
    <3> QED
      BY <1>6, <1>9, <2>2, <3>1
  <2> QED
    BY <2>1, <2>2
<1> QED
  BY <1>4, <1>10, Zenon DEF RecursTo

(* The store a set leaves is the one its last operation does.              *)
LEMMA PutLeaves ==
  ASSUME NEW st \in Stores, NEW ops \in Seq(Operation)
  PROVE  Put(st, Drafted(st, ops)) = LeftBefore(st, ops, Len(ops) + 1)
<1> DEFINE changes == Drafted(st, ops)
           m == Len(ops)
<1>1. /\ changes \in Seq(Change) /\ DOMAIN changes = 1..m /\ m \in Nat /\ Len(changes) = m
      /\ DOMAIN ops = 1..m
  BY DraftedType
<1>2. \A i \in 1..m : changes[i].id = ops[i].id /\ changes[i].left = Made(LeftBefore(st, ops, i), ops[i])
  BY <1>1 DEF Drafted
<1> HIDE DEF changes
<1>3. \A i \in 1..m : ops[i].id \in Iris
  <2>1. \A i \in 1..m : ops[i] \in Operation
    BY <1>1, ElementOfSeq
  <2> QED
    BY <2>1 DEF Operation
<1>4. \A i \in 1..(m + 1) : LeftBefore(st, ops, i) \in Stores
  BY LeftBeforeType
<1>5. /\ LeftBefore(st, ops, 1) = st
      /\ \A i \in 1..m : LeftBefore(st, ops, i + 1)
           = [LeftBefore(st, ops, i) EXCEPT ![ops[i].id] = Made(LeftBefore(st, ops, i), ops[i])]
  <2>1. LeftBefore(st, ops, 1) = st
    BY LeftBeforeStep
  <2>2. ASSUME NEW i \in 1..m
        PROVE LeftBefore(st, ops, i + 1)
                = [LeftBefore(st, ops, i) EXCEPT ![ops[i].id] = Made(LeftBefore(st, ops, i), ops[i])]
    <3>1. i \in Nat \ {0}
      OBVIOUS
    <3>2. LeftBefore(st, ops, i + 1) = After(ops, LeftBefore(st, ops, i), i)
      BY <3>1, LeftBeforeStep
    <3> QED
      BY <3>2 DEF After
  <2> QED
    BY <2>1, <2>2
<1>6. ASSUME NEW i \in 1..m, NEW x \in Iris
      PROVE  LeftBefore(st, ops, i + 1)[x]
               = IF ops[i].id = x THEN changes[i].left ELSE LeftBefore(st, ops, i)[x]
  <2>1. LeftBefore(st, ops, i) \in Stores
    BY <1>1, <1>4
  <2> QED
    BY <1>2, <1>3, <1>5, <2>1 DEF Stores
<1>7. ASSUME NEW x \in Iris, NEW n \in 0..m, n # 0 => ops[n].id = x,
             \A i \in (n + 1)..m : ops[i].id # x
      PROVE  LeftBefore(st, ops, m + 1)[x] = LeftBefore(st, ops, n + 1)[x]
  <2> DEFINE T == {k \in Nat : n + k <= m => LeftBefore(st, ops, (n + k) + 1)[x] = LeftBefore(st, ops, n + 1)[x]}
  <2>1. 0 \in T
    OBVIOUS
  <2>2. ASSUME NEW k \in Nat, k \in T PROVE k + 1 \in T
    <3> SUFFICES ASSUME n + (k + 1) <= m
                 PROVE LeftBefore(st, ops, (n + (k + 1)) + 1)[x] = LeftBefore(st, ops, n + 1)[x]
      OBVIOUS
    <3>1. n + (k + 1) \in 1..m /\ n + (k + 1) \in (n + 1)..m /\ n + (k + 1) = (n + k) + 1 /\ n + k <= m
      BY <1>1
    <3>2. LeftBefore(st, ops, (n + (k + 1)) + 1)[x] = LeftBefore(st, ops, n + (k + 1))[x]
      BY <1>6, <1>7, <3>1
    <3> QED
      BY <2>2, <3>1, <3>2
  <2> HIDE DEF T
  <2>3. m - n \in T /\ n + (m - n) = m
    <3>1. m - n \in Nat /\ n + (m - n) = m
      BY <1>1
    <3> QED
      BY <2>1, <2>2, <3>1, EveryNumber
  <2> QED
    BY <2>3 DEF T
<1>8. ASSUME NEW x \in Iris PROVE Put(st, changes)[x] = LeftBefore(st, ops, m + 1)[x]
  <2>1. CASE x \notin Changed(changes)
    <3>1. \A i \in 1..m : ops[i].id # x
      BY <1>1, <1>2, <2>1 DEF Changed
    <3>2. LeftBefore(st, ops, m + 1)[x] = LeftBefore(st, ops, 0 + 1)[x]
      BY <1>1, <1>7, <3>1
    <3> QED
      BY <1>5, <2>1, <3>2 DEF Put
  <2>2. CASE x \in Changed(changes)
    <3> DEFINE l == LastOf(changes, x)
    <3>1. l \in 1..m /\ changes[l].id = x /\ \A j \in 1..m : changes[j].id = x => j <= l
      BY <1>1, <2>2, LastThere
    <3>2. Put(st, changes)[x] = changes[l].left
      BY <2>2 DEF Put
    <3> HIDE DEF l
    <3>3. l \in 0..m /\ ops[l].id = x /\ \A i \in (l + 1)..m : ops[i].id # x
      BY <1>1, <1>2, <3>1
    <3>4. LeftBefore(st, ops, m + 1)[x] = LeftBefore(st, ops, l + 1)[x]
      BY <1>7, <3>3
    <3> QED
      BY <1>6, <3>1, <3>2, <3>3, <3>4
  <2> QED
    BY <2>1, <2>2
<1>9. LeftBefore(st, ops, m + 1) \in [Iris -> Artifact]
  BY <1>1, <1>4 DEF Stores
<1> QED
  BY <1>8, <1>9 DEF Put, changes

(* A change that lands leaves the rows of the store it leaves.             *)
LEMMA IndexedByIs ==
  ASSUME NEW st \in Stores, NEW index, Indexes(index, st), NEW change \in Change,
         change.op = "delete" => change.left = Nothing, change.op # "delete" => change.left.revision # 0
  PROVE  Indexes(IndexedBy(index, change), [st EXCEPT ![change.id] = change.left])
<1> DEFINE x == change.id
           without == Unsearched(index, x)
           left == [st EXCEPT ![x] = Nothing]
<1>1. x \in Iris /\ change.left \in Artifact
  BY DEF Change
<1>2. Indexes(without, left)
  BY <1>1, UnsearchedIs
<1>3. IndexedBy(index, change) = IF change.op = "delete" THEN without
        ELSE Searchable(without, x, change.left.kind, FoundBy(x, change.left.revision))
  BY Zenon DEF IndexedBy
<1>4. left \in Stores /\ ~Held(left, x)
  BY <1>1, NothingType DEF Stores, Held, Nothing
<1>5. [left EXCEPT ![x] = change.left] = [st EXCEPT ![x] = change.left]
  BY <1>1 DEF Stores
<1> HIDE DEF without
<1>6. CASE change.op = "delete"
  BY <1>2, <1>3, <1>6
<1>7. CASE change.op # "delete"
  <2> HIDE DEF left, x
  <2>1. Indexes(Searchable(without, x, change.left.kind, FoundBy(x, change.left.revision)),
                [left EXCEPT ![x] = change.left])
    BY <1>1, <1>2, <1>4, <1>7, SearchableIs
  <2> QED
    BY <1>3, <1>5, <1>7, <2>1 DEF x
<1> QED
  BY <1>6, <1>7

(* A set that lands leaves the rows of the store it leaves.                *)
LEMMA IndexedIs ==
  ASSUME NEW st \in Stores, NEW index, Indexes(index, st), NEW ops \in Seq(Operation),
         \A i \in DOMAIN ops : ops[i].op = "import" => ops[i].revision # 0
  PROVE  Indexes(Indexed(index, Drafted(st, ops)), Put(st, Drafted(st, ops)))
<1> DEFINE changes == Drafted(st, ops)
           m == Len(changes)
           next == [p \in Nat \X Index |-> IndexedBy(p[2], changes[p[1]])]
           R == {p \in Nat \X Index : Indexes(p[2], LeftBefore(st, ops, p[1] + 1))}
           after == CHOOSE f : f = [n \in 0..Len(changes) |->
                                      IF n = 0 THEN index ELSE IndexedBy(f[n - 1], changes[n])]
<1>1. changes \in Seq(Change) /\ DOMAIN changes = 1..m /\ m \in Nat /\ Len(ops) = m /\ DOMAIN ops = 1..m
  BY DraftedType
<1>2. \A i \in 1..m :
        /\ changes[i].id = ops[i].id /\ changes[i].op = ops[i].op
        /\ changes[i].left = Made(LeftBefore(st, ops, i), ops[i])
  BY <1>1 DEF Drafted
<1>3. ASSUME NEW n \in 1..m
      PROVE  /\ n \in Nat /\ changes[n] \in Change /\ LeftBefore(st, ops, n) \in Stores
             /\ changes[n].op = "delete" => changes[n].left = Nothing
             /\ changes[n].op # "delete" => changes[n].left.revision # 0
             /\ LeftBefore(st, ops, n + 1) = [LeftBefore(st, ops, n) EXCEPT ![changes[n].id] = changes[n].left]
  <2>1. n \in Nat \ {0} /\ n \in 1..(Len(ops) + 1)
    BY <1>1
  <2>2. changes[n] \in Change /\ ops[n] \in Operation
    BY <1>1, ElementOfSeq
  <2>3. LeftBefore(st, ops, n) \in Stores
    BY <2>1, LeftBeforeType
  <2>4. LeftBefore(st, ops, n + 1) = After(ops, LeftBefore(st, ops, n), n)
    BY <2>1, LeftBeforeStep
  <2>5. LeftBefore(st, ops, n + 1) = [LeftBefore(st, ops, n) EXCEPT ![changes[n].id] = changes[n].left]
    BY <1>2, <2>4 DEF After
  <2>6. ops[n].op = "import" => ops[n].revision # 0
    BY <1>1
  <2>7. /\ ops[n].op = "delete" => Made(LeftBefore(st, ops, n), ops[n]) = Nothing
        /\ ops[n].op # "delete" => Made(LeftBefore(st, ops, n), ops[n]).revision # 0
    BY <2>2, <2>3, <2>6, MadeIs
  <2> QED
    BY <1>2, <2>1, <2>2, <2>3, <2>5, <2>7
<1>4. LeftBefore(st, ops, 1) = st /\ Put(st, changes) = LeftBefore(st, ops, m + 1)
  BY <1>1, LeftBeforeStep, PutLeaves
<1> HIDE DEF changes, m
<1>5. ASSUME NEW n \in 1..m, NEW i, Indexes(i, LeftBefore(st, ops, n))
      PROVE  Indexes(IndexedBy(i, changes[n]), LeftBefore(st, ops, n + 1)) /\ IndexedBy(i, changes[n]) \in Index
  <2>1. Indexes(IndexedBy(i, changes[n]), [LeftBefore(st, ops, n) EXCEPT ![changes[n].id] = changes[n].left])
    <3>1. LeftBefore(st, ops, n) \in Stores /\ changes[n] \in Change
      BY <1>3
    <3>2. /\ changes[n].op = "delete" => changes[n].left = Nothing
          /\ changes[n].op # "delete" => changes[n].left.revision # 0
      BY <1>3
    <3> QED
      BY <1>5, <3>1, <3>2, IndexedByIs
  <2>2. Indexes(IndexedBy(i, changes[n]), LeftBefore(st, ops, n + 1))
    BY <1>3, <2>1, Zenon
  <2> QED
    BY <2>2, Zenon DEF Indexes
<1>6. index \in Index /\ <<0, index>> \in R
  <2>1. Indexes(index, LeftBefore(st, ops, 0 + 1))
    BY <1>4
  <2> QED
    BY <2>1 DEF Indexes
<1>7. \A n \in 1..m, i \in Index : next[<<n, i>>] = IndexedBy(i, changes[n])
  BY <1>3
<1>8. ASSUME NEW n \in 1..m, NEW i \in Index, <<n - 1, i>> \in R
      PROVE  next[<<n, i>>] \in Index /\ <<n, next[<<n, i>>]>> \in R
  <2>1. Indexes(i, LeftBefore(st, ops, (n - 1) + 1)) /\ (n - 1) + 1 = n /\ n \in Nat
    BY <1>3, <1>8
  <2> HIDE DEF next
  <2> QED
    BY <1>5, <1>7, <2>1
<1> HIDE DEF next, R
<1>9. PICK g : /\ g \in [0..m -> Index]
               /\ \A n \in 0..m : g[n] = IF n = 0 THEN index ELSE next[<<n, g[n - 1]>>]
  <2>1. \A n \in 1..m, i \in Index :
          <<n - 1, i>> \in R => next[<<n, i>>] \in Index /\ <<n, next[<<n, i>>]>> \in R
    BY <1>8
  <2> QED
    <3>1. KeepsTo(next, m, Index, R)
      BY <2>1, Zenon DEF KeepsTo
    <3>2. \E f : RecursTo(f, m, Index, index, next)
      BY <1>1, <1>6, <3>1, RecursionKept
    <3> QED
      BY <3>2, Zenon DEF RecursTo
<1>10. ASSUME NEW n \in 0..m PROVE g[n] = IF n = 0 THEN index ELSE IndexedBy(g[n - 1], changes[n])
  <2>1. n # 0 => n \in 1..m /\ n - 1 \in 0..m /\ g[n - 1] \in Index
    BY <1>1, <1>9
  <2>2. n # 0 => next[<<n, g[n - 1]>>] = IndexedBy(g[n - 1], changes[n])
    BY <1>7, <2>1
  <2> QED
    BY <1>9, <2>2, Zenon
<1>11. g = [n \in 0..m |-> IF n = 0 THEN index ELSE IndexedBy(g[n - 1], changes[n])]
  BY <1>9, <1>10
<1>12. after = [n \in 0..m |-> IF n = 0 THEN index ELSE IndexedBy(after[n - 1], changes[n])]
  BY <1>11, Zenon DEF m
<1>13. Indexed(index, changes) = after[m]
  BY Zenon DEF Indexed, m
<1> HIDE DEF after
<1> DEFINE T == {n \in Nat : n <= m => Indexes(after[n], LeftBefore(st, ops, n + 1))}
<1>14. 0 \in T
  <2>1. 0 \in 0..m
    BY <1>1
  <2>2. after[0] = index
    BY <1>12, <2>1
  <2> QED
    BY <1>4, <2>2
<1>15. ASSUME NEW n \in Nat, n \in T PROVE n + 1 \in T
  <2> SUFFICES ASSUME n + 1 <= m PROVE Indexes(after[n + 1], LeftBefore(st, ops, (n + 1) + 1))
    OBVIOUS
  <2>1. n + 1 \in 1..m /\ n + 1 \in 0..m /\ n + 1 # 0 /\ (n + 1) - 1 = n /\ Indexes(after[n], LeftBefore(st, ops, n + 1))
    BY <1>1, <1>15
  <2>2. after[n + 1] = IndexedBy(after[n], changes[n + 1])
    BY <1>12, <2>1
  <2> QED
    BY <1>5, <2>1, <2>2
<1> HIDE DEF T
<1>16. m \in T
  BY <1>1, <1>14, <1>15, EveryNumber
<1>17. Indexes(Indexed(index, changes), Put(st, changes))
  BY <1>1, <1>4, <1>13, <1>16 DEF T
<1> QED
  BY <1>17 DEF changes

(* The rows a store begins with are those of what it holds.                *)
LEMMA RowsBeforeIs == Indexes(RowsBefore, Before)
<1> DEFINE held == {x \in Iris : Held(Before, x)}
           names == Among(NameOrder, held)
           m == Len(names)
           put(i, n) == Searchable(i, names[n], Before[names[n]].kind,
                                   FoundBy(names[n], Before[names[n]].revision))
           upto(n) == [x \in Iris |-> IF \E k \in 1..n : names[k] = x THEN Before[x] ELSE Nothing]
           next == [p \in Nat \X Index |-> put(p[2], p[1])]
           R == {p \in Nat \X Index : Indexes(p[2], upto(p[1]))}
           rows == CHOOSE f : f = [n \in 0..Len(names) |-> IF n = 0 THEN NoRows ELSE put(f[n - 1], n)]
<1>1. /\ names \in Seq(Iris) /\ \A x : Tells(names, x) <=> Tells(NameOrder, x) /\ x \in held
      /\ Apart(names)
  BY AmongIs, OrderAssumption DEF Apart
<1>2. RowsBefore = rows[m]
  BY Zenon DEF RowsBefore
<1>3. DOMAIN names = 1..m /\ m \in Nat
  BY <1>1
<1>4. \A x : x \in held <=> \E k \in 1..m : names[k] = x
  BY <1>1, <1>3, OrderAssumption DEF Tells
<1> HIDE DEF names, m
<1>5. ASSUME NEW n \in 0..m PROVE upto(n) \in Stores
  BY BeforeAssumption, NothingType DEF Stores
<1>6. ASSUME NEW n \in 1..m
      PROVE  /\ names[n] \in Iris /\ Before[names[n]] \in Artifact /\ Before[names[n]].revision # 0
             /\ n - 1 \in 0..m /\ ~Held(upto(n - 1), names[n])
             /\ upto(n) = [upto(n - 1) EXCEPT ![names[n]] = Before[names[n]]]
  <2>1. names[n] \in held
    BY <1>4
  <2>2. \A k \in 1..(n - 1) : names[k] # names[n]
    BY <1>1, <1>3 DEF Apart
  <2>3. upto(n - 1)[names[n]] = Nothing
    BY <2>1, <2>2
  <2>4. \A x : (\E k \in 1..n : names[k] = x) <=> (\E k \in 1..(n - 1) : names[k] = x) \/ x = names[n]
    <3>1. n \in 1..n /\ \A k \in 1..n : k \in 1..(n - 1) \/ k = n
      OBVIOUS
    <3>2. 1..(n - 1) \subseteq 1..n
      OBVIOUS
    <3> QED
      BY <3>1, <3>2
  <2>5. upto(n) = [upto(n - 1) EXCEPT ![names[n]] = Before[names[n]]]
    BY <2>1, <2>4
  <2>6. Before[names[n]] \in Artifact /\ Before[names[n]].revision # 0
    BY <2>1, BeforeAssumption DEF Held
  <2> QED
    BY <1>3, <2>1, <2>3, <2>5, <2>6 DEF Held, Nothing
<1>7. upto(m) = Before
  <2>1. ASSUME NEW x \in Iris PROVE upto(m)[x] = Before[x]
    BY <1>4, BeforeAssumption
  <2> QED
    BY <2>1, BeforeAssumption
<1>8. Indexes(NoRows, upto(0))
  <2>1. NoRows \in Index /\ NoRows.rows = {} /\ NoRows.numbered = {}
    <3>1. IsFiniteSet({})
      BY FS_EmptySet
    <3> QED
      BY <3>1 DEF NoRows, Index
  <2>2. \A x \in Iris : ~Held(upto(0), x)
    BY DEF Held, Nothing
  <2> HIDE DEF upto
  <2> QED
    BY <2>1, <2>2 DEF Indexes, Numbering
<1> HIDE DEF upto
<1>9. ASSUME NEW n \in 1..m, NEW i, Indexes(i, upto(n - 1))
      PROVE  Indexes(put(i, n), upto(n)) /\ put(i, n) \in Index
  <2>1. Indexes(put(i, n), [upto(n - 1) EXCEPT ![names[n]] = Before[names[n]]])
    BY <1>5, <1>6, <1>9, SearchableIs
  <2> HIDE DEF put
  <2>2. Indexes(put(i, n), upto(n))
    BY <1>6, <2>1, Zenon
  <2> QED
    BY <2>2, Zenon DEF Indexes
<1> HIDE DEF put
<1>10. NoRows \in Index /\ <<0, NoRows>> \in R
  BY <1>8 DEF Indexes
<1>11. \A n \in 1..m, i \in Index : next[<<n, i>>] = put(i, n)
  BY <1>3
<1>12. ASSUME NEW n \in 1..m, NEW i \in Index, <<n - 1, i>> \in R
       PROVE  next[<<n, i>>] \in Index /\ <<n, next[<<n, i>>]>> \in R
  <2>1. Indexes(i, upto(n - 1)) /\ n \in Nat
    BY <1>12
  <2> HIDE DEF next
  <2> QED
    BY <1>9, <1>11, <2>1
<1> HIDE DEF next, R
<1>13. PICK g : /\ g \in [0..m -> Index]
                /\ \A n \in 0..m : g[n] = IF n = 0 THEN NoRows ELSE next[<<n, g[n - 1]>>]
  <2>1. \A n \in 1..m, i \in Index :
          <<n - 1, i>> \in R => next[<<n, i>>] \in Index /\ <<n, next[<<n, i>>]>> \in R
    BY <1>12
  <2> QED
    <3>1. KeepsTo(next, m, Index, R)
      BY <2>1, Zenon DEF KeepsTo
    <3>2. \E f : RecursTo(f, m, Index, NoRows, next)
      BY <1>3, <1>10, <3>1, RecursionKept
    <3> QED
      BY <3>2, Zenon DEF RecursTo
<1>14. ASSUME NEW n \in 0..m PROVE g[n] = IF n = 0 THEN NoRows ELSE put(g[n - 1], n)
  <2>1. n # 0 => n \in 1..m /\ n - 1 \in 0..m /\ g[n - 1] \in Index
    BY <1>3, <1>13
  <2>2. n # 0 => next[<<n, g[n - 1]>>] = put(g[n - 1], n)
    BY <1>11, <2>1
  <2> QED
    BY <1>13, <2>2, Zenon
<1>15. g = [n \in 0..m |-> IF n = 0 THEN NoRows ELSE put(g[n - 1], n)]
  BY <1>13, <1>14
<1>16. rows = [n \in 0..m |-> IF n = 0 THEN NoRows ELSE put(rows[n - 1], n)]
  BY <1>15, Zenon DEF m
<1> HIDE DEF rows
<1> DEFINE T == {n \in Nat : n <= m => Indexes(rows[n], upto(n))}
<1>17. 0 \in T
  <2>1. 0 \in 0..m
    BY <1>3
  <2>2. rows[0] = NoRows
    BY <1>16, <2>1
  <2> QED
    BY <1>8, <2>2
<1>18. ASSUME NEW n \in Nat, n \in T PROVE n + 1 \in T
  <2> SUFFICES ASSUME n + 1 <= m PROVE Indexes(rows[n + 1], upto(n + 1))
    OBVIOUS
  <2>1. n + 1 \in 1..m /\ n + 1 \in 0..m /\ n + 1 # 0 /\ (n + 1) - 1 = n /\ Indexes(rows[n], upto(n))
    BY <1>3, <1>18
  <2>2. rows[n + 1] = put(rows[n], n + 1)
    BY <1>16, <2>1
  <2> QED
    BY <1>9, <2>1, <2>2
<1> HIDE DEF T
<1>19. m \in T
  BY <1>3, <1>17, <1>18, EveryNumber
<1> QED
  BY <1>2, <1>3, <1>7, <1>19 DEF T

(* Whatever was changed and removed, the rows are those of the store.      *)
RowsInv == Indexes(past[Len(past)].rows, Now)

LEMMA RowsStart == Init => RowsInv
<1> SUFFICES ASSUME Init PROVE RowsInv
  OBVIOUS
<1>1. Len(past) = 1 /\ past[1].rows = RowsBefore /\ past[1].holds = Before
  BY DEF Init
<1> QED
  BY <1>1, RowsBeforeIs DEF RowsInv, Now

LEMMA RowsNext == TypeInv /\ RowsInv /\ [Next]_vars => RowsInv'
<1> SUFFICES ASSUME TypeInv, RowsInv, [Next]_vars PROVE RowsInv'
  OBVIOUS
<1>1. PastOK /\ Now \in Stores /\ Now = past[Len(past)].holds
  BY NowIs DEF TypeInv
<1>2. CASE past' = past
  BY <1>2 DEF RowsInv, Now
<1>3. ASSUME NEW ops \in Sets,
             past' = Append(past, [holds |-> Put(Now, Drafted(Now, ops)), lists |-> {},
                                   rows |-> Indexed(past[Len(past)].rows, Drafted(Now, ops))])
      PROVE  RowsInv'
  <2> DEFINE moment == [holds |-> Put(Now, Drafted(Now, ops)), lists |-> {},
                        rows |-> Indexed(past[Len(past)].rows, Drafted(Now, ops))]
  <2>1. moment.holds = Put(Now, Drafted(Now, ops)) /\ past' = Append(past, moment)
        /\ moment.rows = Indexed(past[Len(past)].rows, Drafted(Now, ops))
    BY <1>3
  <2> HIDE DEF moment
  <2>2. ops \in Seq(Operation)
    BY BeforeAssumption
  <2>3. moment.holds \in Stores
    BY <1>1, <2>1, <2>2, DraftedType, PutType
  <2>4. past'[Len(past')] = moment
    BY <1>1, <2>1, <2>3, PastGrows
  <2>5. Indexes(moment.rows, moment.holds)
    BY <1>1, <2>1, <2>2, IndexedIs, ImportsAssumption DEF RowsInv
  <2> QED
    BY <2>4, <2>5 DEF RowsInv, Now
<1>4. ASSUME NEW lists, past' = Append(past, [past[Len(past)] EXCEPT !.lists = lists])
      PROVE  RowsInv'
  <2> DEFINE moment == [past[Len(past)] EXCEPT !.lists = lists]
  <2>1. moment.holds = Now /\ moment.rows = past[Len(past)].rows /\ past' = Append(past, moment)
    BY <1>1, <1>4
  <2> HIDE DEF moment
  <2>2. past'[Len(past')] = moment
    BY <1>1, <2>1, PastGrows
  <2> QED
    BY <2>1, <2>2 DEF RowsInv, Now
<1> QED
  BY <1>2, <1>3, <1>4, PastNext

-----------------------------------------------------------------------------
(* A search.                                                               *)

HitsOf(st, asked, x) ==
  {[id |-> x, text |-> i,
    count |-> IF TextsOf(x, st[x].revision)[i].what \in asked.within
              THEN Occurrences(TextsOf(x, st[x].revision)[i], asked.words) ELSE 0] :
     i \in DOMAIN TextsOf(x, st[x].revision)}

Hit == [id : Iris, text : Nat, count : Nat]

LEMMA OccurrencesAre ==
  ASSUME NEW text \in Text, NEW words
  PROVE  /\ Occurrences(text, words) \in Nat
         /\ Occurrences(text, words) > 0 <=>
              \E k \in DOMAIN text.words : \E w \in words : <<w, text.words[k]>> \in Alike
<1> DEFINE at == {k \in DOMAIN text.words : \E w \in words : <<w, text.words[k]>> \in Alike}
<1>1. text.words \in Seq(Words)
  BY DEF Text
<1>2. IsFiniteSet(DOMAIN text.words)
  <2>1. DOMAIN text.words = 1..Len(text.words) /\ Len(text.words) \in Nat
    BY <1>1
  <2>2. IsFiniteSet(1..Len(text.words))
    BY <2>1, FS_Interval
  <2> QED
    BY <2>1, <2>2, Zenon
<1>3. IsFiniteSet(at)
  BY <1>2, FS_Subset
<1>4. Occurrences(text, words) = Cardinality(at)
  BY Zenon DEF Occurrences
<1>5. at # {} <=> \E k \in DOMAIN text.words : \E w \in words : <<w, text.words[k]>> \in Alike
  OBVIOUS
<1> HIDE DEF at
<1>6. Cardinality(at) \in Nat /\ (Cardinality(at) = 0 <=> at = {})
  BY <1>3, FS_CardinalityType, FS_EmptySet
<1>7. Cardinality(at) > 0 <=> at # {}
  BY <1>6
<1> QED
  BY <1>4, <1>5, <1>6, <1>7, Zenon

LEMMA HitsAre ==
  ASSUME NEW st \in Stores, NEW asked, NEW x \in Iris, Held(st, x)
  PROVE  /\ Hits(st, asked, x) \in Seq(Hit) /\ Apart(Hits(st, asked, x))
         /\ \A h : Tells(Hits(st, asked, x), h) <=> h \in HitsOf(st, asked, x)
<1> DEFINE texts == TextsOf(x, st[x].revision)
           hit(i) == [id |-> x, text |-> i,
                      count |-> IF texts[i].what \in asked.within THEN Occurrences(texts[i], asked.words) ELSE 0]
<1>1. st[x].revision \in Nat /\ st[x].revision # 0
  BY DEF Stores, Artifact, Held
<1>2. texts \in Seq(Text) /\ DOMAIN texts = 1..Len(texts) /\ Len(texts) \in Nat
  BY <1>1, TextsAre
<1>3. Hits(st, asked, x) = [i \in DOMAIN texts |-> hit(i)]
  BY Zenon DEF Hits
<1>4. HitsOf(st, asked, x) = {hit(i) : i \in DOMAIN texts}
  BY Zenon DEF HitsOf
<1> HIDE DEF texts
<1>5. ASSUME NEW i \in DOMAIN texts PROVE hit(i) \in Hit /\ hit(i).text = i
  <2>1. texts[i] \in Text /\ i \in Nat
    BY <1>2, ElementOfSeq
  <2>2. Occurrences(texts[i], asked.words) \in Nat
    BY <2>1, OccurrencesAre
  <2> QED
    BY <2>1, <2>2 DEF Hit
<1> HIDE DEF hit
<1>6. Hits(st, asked, x) \in Seq(Hit)
  BY <1>2, <1>3, <1>5
<1>7. Apart(Hits(st, asked, x))
  BY <1>3, <1>5 DEF Apart
<1>8. \A h : Tells(Hits(st, asked, x), h) <=> h \in HitsOf(st, asked, x)
  BY <1>3, <1>4 DEF Tells
<1> QED
  BY <1>6, <1>7, <1>8

(* The hits of some held artifacts, most often first, each once.           *)
LEMMA RankedIs ==
  ASSUME NEW st \in Stores, NEW asked, NEW names \in Seq(Iris), Apart(names),
         \A x : Tells(names, x) => Held(st, x)
  PROVE  LET ranked == Ranked(st, names, asked)
         IN /\ ranked \in Seq(Hit) /\ Apart(ranked)
            /\ \A h : Tells(ranked, h) <=> h.count > 0 /\ \E x : Tells(names, x) /\ h \in HitsOf(st, asked, x)
            /\ \A i, j \in DOMAIN ranked : i <= j => ranked[i].count >= ranked[j].count
<1> DEFINE seqs == [k \in DOMAIN names |-> Hits(st, asked, names[k])]
           hits == Joined(seqs)
           counts == {0} \cup {hits[k].count : k \in DOMAIN hits}
           most == Max(counts)
           times(n) == Among(hits, {hits[k] : k \in {l \in DOMAIN hits : hits[l].count = n}})
           blocks == [n \in 1..most |-> times(most + 1 - n)]
           ranked == Joined(blocks)
<1>1. Ranked(st, names, asked) = ranked
  BY Zenon DEF Ranked
<1>2. /\ DOMAIN names = 1..Len(names) /\ Len(names) \in Nat
      /\ \A k \in DOMAIN names : names[k] \in Iris /\ Held(st, names[k])
  BY ElementOfSeq DEF Tells
<1>3. \A k \in DOMAIN names :
        /\ Hits(st, asked, names[k]) \in Seq(Hit) /\ Apart(Hits(st, asked, names[k]))
        /\ \A h : Tells(Hits(st, asked, names[k]), h) <=> h \in HitsOf(st, asked, names[k])
  BY <1>2, HitsAre
<1>4. /\ seqs \in Seq(Seq(Hit)) /\ DOMAIN seqs = DOMAIN names
      /\ \A k \in DOMAIN names : seqs[k] = Hits(st, asked, names[k])
  BY <1>2, <1>3
<1> HIDE DEF seqs
<1>5. \A x, h : h \in HitsOf(st, asked, x) => h.id = x
  BY DEF HitsOf
<1>6. /\ \A k \in DOMAIN seqs : Apart(seqs[k])
      /\ \A h : \A k, l \in DOMAIN seqs : Tells(seqs[k], h) /\ Tells(seqs[l], h) => k = l
  <2>1. \A k \in DOMAIN seqs : Apart(seqs[k])
    BY <1>3, <1>4
  <2>2. ASSUME NEW h, NEW k \in DOMAIN seqs, NEW l \in DOMAIN seqs, Tells(seqs[k], h), Tells(seqs[l], h)
        PROVE  k = l
    <3>1. h \in HitsOf(st, asked, names[k]) /\ h \in HitsOf(st, asked, names[l])
      BY <1>3, <1>4, <2>2
    <3>2. names[k] = names[l]
      BY <1>5, <3>1
    <3> QED
      BY <1>4, <3>2 DEF Apart
  <2> QED
    BY <2>1, <2>2
<1>7. /\ hits \in Seq(Hit) /\ Apart(hits)
      /\ \A h : Tells(hits, h) <=> \E k \in DOMAIN seqs : Tells(seqs[k], h)
  BY <1>4, <1>6, JoinedIs
<1>8. ASSUME NEW h PROVE Tells(hits, h) <=> \E x : Tells(names, x) /\ h \in HitsOf(st, asked, x)
  <2>1. Tells(hits, h) <=> \E k \in DOMAIN names : h \in HitsOf(st, asked, names[k])
    BY <1>3, <1>4, <1>7
  <2> QED
    BY <2>1 DEF Tells
<1> HIDE DEF hits
<1>9. \A k \in DOMAIN hits : hits[k] \in Hit /\ hits[k].count \in Nat
  <2>1. \A k \in DOMAIN hits : hits[k] \in Hit
    BY <1>7, ElementOfSeq
  <2> QED
    BY <2>1 DEF Hit
<1>10. most \in Nat /\ \A h : Tells(hits, h) => h.count \in Nat /\ h.count <= most
  <2> DEFINE all == {hits[k].count : k \in DOMAIN hits}
             count == [k \in DOMAIN hits |-> hits[k].count]
  <2>1. IsFiniteSet(all)
    <3>1. IsFiniteSet(DOMAIN hits)
      <4>1. DOMAIN hits = 1..Len(hits) /\ Len(hits) \in Nat
        BY <1>7
      <4> QED
        BY <4>1, FS_Interval
    <3>2. count \in Surjection(DOMAIN hits, all)
      BY DEF Surjection
    <3> QED
      BY <3>1, <3>2, FS_Surjection
  <2>2. all \subseteq Nat
    BY <1>9
  <2>3. counts = {0} \cup all
    OBVIOUS
  <2>4. \A h : Tells(hits, h) => h.count \in all
    BY DEF Tells
  <2> HIDE DEF all, counts
  <2>5. IsFiniteSet(counts) /\ counts \in SUBSET Nat /\ counts # {}
    <3>1. IsFiniteSet({0}) /\ IsFiniteSet({0} \cup all)
      BY <2>1, FS_Singleton, FS_Union
    <3> QED
      BY <2>2, <2>3, <3>1
  <2>6. most \in counts /\ \A k \in counts : k <= most
    BY <2>5, MaxIs
  <2> QED
    BY <2>2, <2>3, <2>4, <2>5, <2>6
<1> HIDE DEF counts, most
<1>11. ASSUME NEW n
       PROVE /\ times(n) \in Seq(Hit) /\ Apart(times(n))
             /\ \A h : Tells(times(n), h) <=> Tells(hits, h) /\ h.count = n
  <2> DEFINE set == {hits[k] : k \in {l \in DOMAIN hits : hits[l].count = n}}
  <2>1. \A h : h \in set <=> Tells(hits, h) /\ h.count = n
    BY DEF Tells
  <2> HIDE DEF set
  <2>2. /\ Among(hits, set) \in Seq(Hit) /\ Apart(Among(hits, set))
        /\ \A h : Tells(Among(hits, set), h) <=> Tells(hits, h) /\ h \in set
    BY <1>7, AmongIs
  <2> QED
    BY <2>1, <2>2 DEF set
<1> HIDE DEF times
<1>12. /\ blocks \in Seq(Seq(Hit)) /\ DOMAIN blocks = 1..most /\ Len(blocks) = most
       /\ \A n \in 1..most : blocks[n] = times(most + 1 - n)
  BY <1>10, <1>11
<1> HIDE DEF blocks
<1>13. /\ \A k \in DOMAIN blocks : Apart(blocks[k])
       /\ \A h : \A k, l \in DOMAIN blocks : Tells(blocks[k], h) /\ Tells(blocks[l], h) => k = l
  <2>1. \A k \in DOMAIN blocks : Apart(blocks[k])
    BY <1>11, <1>12
  <2>2. ASSUME NEW h, NEW k \in DOMAIN blocks, NEW l \in DOMAIN blocks, Tells(blocks[k], h), Tells(blocks[l], h)
        PROVE  k = l
    <3>1. h.count = most + 1 - k /\ h.count = most + 1 - l
      BY <1>11, <1>12, <2>2
    <3> QED
      BY <1>10, <1>12, <3>1
  <2> QED
    BY <2>1, <2>2
<1>14. /\ ranked \in Seq(Hit) /\ Apart(ranked)
       /\ \A h : Tells(ranked, h) <=> \E k \in DOMAIN blocks : Tells(blocks[k], h)
       /\ Follows(ranked, blocks, Len(blocks))
  BY <1>12, <1>13, JoinedIs
<1> HIDE DEF ranked
<1>15. \A h : \A k \in DOMAIN blocks : Tells(blocks[k], h) <=> Tells(hits, h) /\ h.count = most + 1 - k
  BY <1>11, <1>12
<1>16. ASSUME NEW h
       PROVE Tells(ranked, h) <=> h.count > 0 /\ \E x : Tells(names, x) /\ h \in HitsOf(st, asked, x)
  <2>1. Tells(ranked, h) <=> Tells(hits, h) /\ \E k \in DOMAIN blocks : h.count = most + 1 - k
    BY <1>14, <1>15
  <2>2. Tells(hits, h) => ((\E k \in DOMAIN blocks : h.count = most + 1 - k) <=> h.count > 0)
    <3> SUFFICES ASSUME Tells(hits, h) PROVE (\E k \in 1..most : h.count = most + 1 - k) <=> h.count > 0
      BY <1>12
    <3>1. h.count \in Nat /\ h.count <= most
      BY <1>10
    <3>2. h.count > 0 => most + 1 - h.count \in 1..most /\ h.count = most + 1 - (most + 1 - h.count)
      BY <1>10, <3>1
    <3>3. \A k \in 1..most : most + 1 - k > 0
      BY <1>10
    <3> QED
      BY <3>2, <3>3
  <2> QED
    BY <1>8, <2>1, <2>2
<1>17. ASSUME NEW i \in DOMAIN ranked, NEW j \in DOMAIN ranked, i <= j
       PROVE  ranked[i].count >= ranked[j].count
  <2>1. PICK k, l \in 1..most : k <= l /\ Tells(blocks[k], ranked[i]) /\ Tells(blocks[l], ranked[j])
    BY <1>12, <1>14, <1>17 DEF Follows
  <2>2. ranked[i].count = most + 1 - k /\ ranked[j].count = most + 1 - l
    BY <1>12, <1>15, <2>1
  <2> QED
    BY <1>10, <2>1, <2>2
<1> QED
  BY <1>1, <1>14, <1>16, <1>17

(* What a search is to find: the texts that hold a word searched for.      *)
Holding(st, asked) ==
  UNION {{[id |-> x, text |-> i, count |-> Occurrences(TextsOf(x, st[x].revision)[i], asked.words)] :
            i \in {j \in DOMAIN TextsOf(x, st[x].revision) : TextsOf(x, st[x].revision)[j].what \in asked.within}} :
          x \in {x \in Iris : Held(st, x) /\ asked.kind \in {NoIri, st[x].kind}}}

(* The rows name no artifact a search is not of, and each that holds a word*)
(* searched for: what a match takes for one another folds alike.           *)
LEMMA CandidatesAre ==
  ASSUME NEW st \in Stores, NEW index, Indexes(index, st), NEW asked \in Searching
  PROVE  /\ \A x \in Candidates(index, asked) :
              x \in Iris /\ Held(st, x) /\ asked.kind \in {NoIri, st[x].kind}
         /\ \A x \in Iris : \A i \in DOMAIN TextsOf(x, st[x].revision) :
              /\ Held(st, x) /\ asked.kind \in {NoIri, st[x].kind}
              /\ TextsOf(x, st[x].revision)[i].what \in asked.within
              /\ Occurrences(TextsOf(x, st[x].revision)[i], asked.words) > 0
              => x \in Candidates(index, asked)
<1>1. \A x : x \in Candidates(index, asked) <=>
        \E r \in index.rows : /\ r.artifact = x /\ r.words \cap Terms(asked) # {}
                              /\ r.what \in asked.within /\ asked.kind \in {NoIri, r.kind}
  BY Zenon DEF Candidates
<1>2. ASSUME NEW r \in index.rows
      PROVE  r.artifact \in Iris /\ Held(st, r.artifact) /\ r.kind = st[r.artifact].kind
  BY DEF Indexes, Index, RowOf, Row
<1>3. ASSUME NEW x \in Iris, NEW i \in DOMAIN TextsOf(x, st[x].revision),
             Held(st, x), asked.kind \in {NoIri, st[x].kind},
             TextsOf(x, st[x].revision)[i].what \in asked.within,
             Occurrences(TextsOf(x, st[x].revision)[i], asked.words) > 0
      PROVE  x \in Candidates(index, asked)
  <2> DEFINE texts == TextsOf(x, st[x].revision)
             found == FoundBy(x, st[x].revision)
  <2>1. st[x].revision \in Nat /\ st[x].revision # 0
    BY <1>3 DEF Stores, Artifact, Held
  <2>2. /\ texts \in Seq(Text) /\ DOMAIN found = DOMAIN texts
        /\ found[i].what = texts[i].what
        /\ found[i].words = {Folded[texts[i].words[k]] : k \in DOMAIN texts[i].words}
    BY <2>1, TextsAre
  <2>3. texts[i] \in Text
    BY <2>2, ElementOfSeq
  <2>4. PICK k \in DOMAIN texts[i].words : \E w \in asked.words : <<w, texts[i].words[k]>> \in Alike
    BY <1>3, <2>3, OccurrencesAre
  <2>5. PICK w \in asked.words : <<w, texts[i].words[k]>> \in Alike
    BY <2>4
  <2>6. PICK r \in index.rows : RowOf(r, st, x, i)
    BY <1>3, <2>2 DEF Indexes
  <2>7. r.artifact = x /\ r.kind = st[x].kind /\ r.what = found[i].what /\ r.words = found[i].words
    BY <2>6 DEF RowOf
  <2> HIDE DEF texts, found
  <2>8. Folded[w] = Folded[texts[i].words[k]]
    <3>1. <<w, texts[i].words[k]>>[1] = w /\ <<w, texts[i].words[k]>>[2] = texts[i].words[k]
      OBVIOUS
    <3> QED
      BY <2>5, <3>1, WordsAssumption
  <2>9. Folded[w] \in r.words /\ Folded[w] \in Terms(asked)
    BY <2>2, <2>7, <2>8 DEF Terms
  <2>10. r.what \in asked.within /\ asked.kind \in {NoIri, r.kind}
    BY <1>3, <2>2, <2>7 DEF texts
  <2> QED
    BY <1>1, <2>7, <2>9, <2>10
<1> QED
  BY <1>1, <1>2, <1>3

LEMMA SearchTold ==
  ASSUME NEW st \in Stores, NEW index, Indexes(index, st), NEW asked \in Searching
  PROVE  LET told == Found(st, index, asked)
             found == told.hits
         IN /\ ~told.failed
            /\ {found[k] : k \in DOMAIN found} = {hit \in Holding(st, asked) : hit.count > 0}
            /\ Cardinality(DOMAIN found) = Cardinality({hit \in Holding(st, asked) : hit.count > 0})
            /\ \A k \in DOMAIN found \ {1} : found[k - 1].count >= found[k].count
<1> DEFINE named == Candidates(index, asked)
           names == Among(NameOrder, named)
           ranked == Ranked(st, names, asked)
<1>1. /\ \A x \in named : x \in Iris /\ Held(st, x) /\ asked.kind \in {NoIri, st[x].kind}
      /\ \A x \in Iris : \A i \in DOMAIN TextsOf(x, st[x].revision) :
           /\ Held(st, x) /\ asked.kind \in {NoIri, st[x].kind}
           /\ TextsOf(x, st[x].revision)[i].what \in asked.within
           /\ Occurrences(TextsOf(x, st[x].revision)[i], asked.words) > 0
           => x \in named
  BY CandidatesAre
<1>2. Found(st, index, asked).failed = FALSE /\ Found(st, index, asked).hits = ranked
  BY <1>1 DEF Found
<1> HIDE DEF named
<1>3. /\ names \in Seq(Iris) /\ Apart(names)
      /\ \A x : Tells(names, x) <=> Tells(NameOrder, x) /\ x \in named
  BY AmongIs, OrderAssumption DEF Apart
<1>4. \A x : Tells(names, x) <=> x \in named
  BY <1>1, <1>3, OrderAssumption DEF Tells
<1> HIDE DEF names
<1>5. /\ ranked \in Seq(Hit) /\ Apart(ranked)
      /\ \A h : Tells(ranked, h) <=> h.count > 0 /\ \E x : Tells(names, x) /\ h \in HitsOf(st, asked, x)
      /\ \A i, j \in DOMAIN ranked : i <= j => ranked[i].count >= ranked[j].count
  BY <1>1, <1>3, <1>4, RankedIs
<1> HIDE DEF ranked
<1>6. ASSUME NEW h, h.count > 0
      PROVE  (\E x \in named : h \in HitsOf(st, asked, x)) <=> h \in Holding(st, asked)
  <2>1. ASSUME NEW x \in named, h \in HitsOf(st, asked, x) PROVE h \in Holding(st, asked)
    <3>1. x \in {y \in Iris : Held(st, y) /\ asked.kind \in {NoIri, st[y].kind}}
      BY <1>1
    <3>2. PICK i \in DOMAIN TextsOf(x, st[x].revision) :
            h = [id |-> x, text |-> i,
                 count |-> IF TextsOf(x, st[x].revision)[i].what \in asked.within
                           THEN Occurrences(TextsOf(x, st[x].revision)[i], asked.words) ELSE 0]
      BY <2>1 DEF HitsOf
    <3>3. TextsOf(x, st[x].revision)[i].what \in asked.within
      <4>1. ASSUME TextsOf(x, st[x].revision)[i].what \notin asked.within PROVE h.count = 0
        BY <3>2, <4>1
      <4> QED
        BY <1>6, <4>1
    <3>4. h = [id |-> x, text |-> i, count |-> Occurrences(TextsOf(x, st[x].revision)[i], asked.words)]
      BY <3>2, <3>3
    <3>5. i \in {j \in DOMAIN TextsOf(x, st[x].revision) : TextsOf(x, st[x].revision)[j].what \in asked.within}
      BY <3>3
    <3>6. h \in {[id |-> x, text |-> k, count |-> Occurrences(TextsOf(x, st[x].revision)[k], asked.words)] :
                   k \in {j \in DOMAIN TextsOf(x, st[x].revision) :
                            TextsOf(x, st[x].revision)[j].what \in asked.within}}
      BY <3>4, <3>5, Zenon
    <3> QED
      BY <3>1, <3>6, Zenon DEF Holding
  <2>2. ASSUME h \in Holding(st, asked) PROVE \E x \in named : h \in HitsOf(st, asked, x)
    <3>1. PICK x \in {y \in Iris : Held(st, y) /\ asked.kind \in {NoIri, st[y].kind}} :
            \E i \in {j \in DOMAIN TextsOf(x, st[x].revision) : TextsOf(x, st[x].revision)[j].what \in asked.within} :
              h = [id |-> x, text |-> i, count |-> Occurrences(TextsOf(x, st[x].revision)[i], asked.words)]
      BY <2>2, Zenon DEF Holding
    <3>2. PICK i \in DOMAIN TextsOf(x, st[x].revision) :
            /\ TextsOf(x, st[x].revision)[i].what \in asked.within
            /\ h = [id |-> x, text |-> i, count |-> Occurrences(TextsOf(x, st[x].revision)[i], asked.words)]
      BY <3>1
    <3>3. Occurrences(TextsOf(x, st[x].revision)[i], asked.words) > 0
      BY <1>6, <3>2
    <3>4. x \in named
      BY <1>1, <3>1, <3>2, <3>3
    <3>5. h \in HitsOf(st, asked, x)
      BY <3>2 DEF HitsOf
    <3> QED
      BY <3>4, <3>5
  <2> QED
    BY <2>1, <2>2
<1>7. \A h : Tells(ranked, h) <=> h.count > 0 /\ h \in Holding(st, asked)
  BY <1>4, <1>5, <1>6
<1>8. {ranked[k] : k \in DOMAIN ranked} = {hit \in Holding(st, asked) : hit.count > 0}
  BY <1>7 DEF Tells
<1>9. Cardinality(DOMAIN ranked) = Cardinality({hit \in Holding(st, asked) : hit.count > 0})
  BY <1>5, <1>8, ToldFinite
<1>10. ASSUME NEW k \in DOMAIN ranked \ {1} PROVE ranked[k - 1].count >= ranked[k].count
  <2>1. k - 1 \in DOMAIN ranked /\ k - 1 <= k
    BY <1>5
  <2> QED
    BY <1>5, <2>1
<1> QED
  BY <1>2, <1>8, <1>9, <1>10

LEMMA SearchesThere ==
  ASSUME TypeInv, RowsInv
  PROVE  SearchFinds
<1>1. Now \in Stores /\ Indexes(past[Len(past)].rows, Now)
  BY NowIs DEF TypeInv, RowsInv
<1>2. \A r, s \in past[Len(past)].rows.rows : r.row = s.row => r = s
  BY <1>1 DEF Indexes, Numbering
<1>3. ASSUME NEW asked \in Searches
      PROVE  LET told == Found(Now, past[Len(past)].rows, asked)
                 found == told.hits
             IN /\ ~told.failed
                /\ {found[k] : k \in DOMAIN found} = {hit \in Holding(Now, asked) : hit.count > 0}
                /\ Cardinality(DOMAIN found) = Cardinality({hit \in Holding(Now, asked) : hit.count > 0})
                /\ \A k \in DOMAIN found \ {1} : found[k - 1].count >= found[k].count
  <2>1. asked \in Searching
    BY SelectionsAssumption
  <2> QED
    BY <1>1, <2>1, SearchTold
<1> QED
  BY <1>2, <1>3, Zenon DEF SearchFinds, Holding

(* A search finds every text of the store that holds a word searched for,  *)
(* and no other, each once, most often first, whatever was changed and     *)
(* removed (sqlite_search.py, query.found, search.rank).                   *)
THEOREM SearchesFind == Spec => []SearchFinds
<1>1. Init => TypeInv /\ RowsInv
  BY TypesStart, RowsStart
<1>2. TypeInv /\ RowsInv /\ [Next]_vars => TypeInv' /\ RowsInv'
  BY TypesNext, RowsNext
<1>3. TypeInv /\ RowsInv => SearchFinds
  BY SearchesThere
<1> QED
  BY <1>1, <1>2, <1>3, PTL DEF Spec

-----------------------------------------------------------------------------
(* A walk.  What it is as it goes: what it reached, in order, each with    *)
(* its route, what it met, and what the last step reached.                 *)
Hop == Fields \X Iris
Taken == [id : Iris, route : Seq(Hop)]
WalkState == [reached : Seq(Taken), seen : SUBSET Iris, following : Seq(Taken)]

StepOf(st, asked, from) == Step(st, asked, from.id, IF from.route = <<>> THEN asked.part ELSE Whole)

LEMMA StepIs ==
  ASSUME NEW st \in Stores, NEW asked, NEW x \in Iris, NEW part
  PROVE  Step(st, asked, x, part) \in Seq(Hop)
BY OutwardIs, InwardIs DEF Step, Hop

MetIs(st, asked, w, route, hop, met) ==
  LET taken == [id |-> hop[2], route |-> Append(route, hop)]
  IN IF hop[2] \in w.seen \/ asked.via \notin {NoField, hop[1]} \/ ~NarrowedTo(st, asked, hop[2])
     THEN met = w
     ELSE /\ met.seen = w.seen \cup {hop[2]} /\ met.reached = Append(w.reached, taken)
          /\ met.following = IF Held(st, hop[2]) THEN Append(w.following, taken) ELSE w.following
          /\ taken \in Taken

LEMMA MeetsIs ==
  ASSUME NEW st, NEW asked, NEW w \in WalkState, NEW route \in Seq(Hop), NEW hop \in Hop
  PROVE  /\ Meets(st, asked, w, route, hop) \in WalkState
         /\ MetIs(st, asked, w, route, hop, Meets(st, asked, w, route, hop))
<1> DEFINE taken == [id |-> hop[2], route |-> Append(route, hop)]
           met == Meets(st, asked, w, route, hop)
<1>1. taken \in Taken /\ hop[2] \in Iris
  <2>1. hop[2] \in Iris /\ Append(route, hop) \in Seq(Hop)
    BY DEF Hop
  <2> QED
    BY <2>1 DEF Taken
<1>2. w.reached \in Seq(Taken) /\ w.following \in Seq(Taken) /\ w.seen \in SUBSET Iris
  BY DEF WalkState
<1>3. met = IF ~Fresh(w, hop[2]) \/ asked.via \notin {NoField, hop[1]} \/ ~NarrowedTo(st, asked, hop[2])
            THEN w
            ELSE [w EXCEPT !.seen = w.seen \cup {hop[2]}, !.reached = Append(w.reached, taken),
                           !.following = IF Held(st, hop[2]) THEN Append(w.following, taken) ELSE w.following]
  BY DEF Meets
<1>4. Fresh(w, hop[2]) <=> hop[2] \notin w.seen
  BY DEF Fresh
<1> HIDE DEF met, taken
<1>5. CASE hop[2] \in w.seen \/ asked.via \notin {NoField, hop[1]} \/ ~NarrowedTo(st, asked, hop[2])
  BY <1>3, <1>4, <1>5 DEF met, MetIs
<1>6. CASE ~(hop[2] \in w.seen \/ asked.via \notin {NoField, hop[1]} \/ ~NarrowedTo(st, asked, hop[2]))
  <2>1. met = [w EXCEPT !.seen = w.seen \cup {hop[2]}, !.reached = Append(w.reached, taken),
                        !.following = IF Held(st, hop[2]) THEN Append(w.following, taken) ELSE w.following]
    BY <1>3, <1>4, <1>6
  <2>2. /\ met.seen = w.seen \cup {hop[2]} /\ met.reached = Append(w.reached, taken)
        /\ met.following = IF Held(st, hop[2]) THEN Append(w.following, taken) ELSE w.following
    BY <2>1 DEF WalkState
  <2>3. Append(w.reached, taken) \in Seq(Taken) /\ Append(w.following, taken) \in Seq(Taken)
    BY <1>1, <1>2
  <2>4. met \in WalkState
    BY <1>1, <1>2, <2>1, <2>3 DEF WalkState
  <2> QED
    BY <1>1, <1>6, <2>2, <2>4 DEF met, taken, MetIs
<1> QED
  BY <1>5, <1>6

LEMMA MeetsType ==
  ASSUME NEW st, NEW asked, NEW w \in WalkState, NEW route \in Seq(Hop), NEW hop \in Hop
  PROVE  Meets(st, asked, w, route, hop) \in WalkState
BY MeetsIs

(* Every link met, one by one.                                             *)
Meeting(met, st, asked, w, from) ==
  /\ met \in [0..Len(StepOf(st, asked, from)) -> WalkState] /\ met[0] = w
  /\ \A n \in 1..Len(StepOf(st, asked, from)) :
       met[n] = Meets(st, asked, met[n - 1], from.route, StepOf(st, asked, from)[n])
  /\ MeetsAll(st, asked, w, from) = met[Len(StepOf(st, asked, from))]

LEMMA MeetsAllIs ==
  ASSUME NEW st \in Stores, NEW asked, NEW w \in WalkState, NEW from \in Taken
  PROVE  \E met : Meeting(met, st, asked, w, from)
<1> DEFINE hops == StepOf(st, asked, from)
           m == Len(hops)
           next == [p \in Nat \X WalkState |-> Meets(st, asked, p[2], from.route, hops[p[1]])]
           met == CHOOSE f : f = [n \in 0..Len(hops) |->
                                    IF n = 0 THEN w ELSE Meets(st, asked, f[n - 1], from.route, hops[n])]
<1>1. from.id \in Iris /\ from.route \in Seq(Hop)
  BY DEF Taken
<1>2. hops \in Seq(Hop) /\ m \in Nat /\ DOMAIN hops = 1..m
  <2>1. hops \in Seq(Hop)
    BY <1>1, StepIs DEF StepOf
  <2> HIDE DEF hops
  <2> QED
    BY <2>1
<1>3. MeetsAll(st, asked, w, from) = met[m]
  BY Zenon DEF MeetsAll, StepOf
<1> HIDE DEF hops, m
<1>4. \A n \in 1..m : hops[n] \in Hop
  BY <1>2, ElementOfSeq
<1>5. \A n \in 1..m, v \in WalkState : next[<<n, v>>] = Meets(st, asked, v, from.route, hops[n])
  BY <1>2
<1> HIDE DEF next
<1>6. StaysTo(next, m, WalkState)
  <2>1. ASSUME NEW n \in 1..m, NEW v \in WalkState PROVE next[<<n, v>>] \in WalkState
    BY <1>1, <1>4, <1>5, MeetsType
  <2> QED
    BY <2>1 DEF StaysTo
<1>7. PICK g : RecursTo(g, m, WalkState, w, next)
  BY <1>2, <1>6, RecursionTo
<1>8. /\ g \in [0..m -> WalkState]
      /\ \A n \in 0..m : g[n] = IF n = 0 THEN w ELSE next[<<n, g[n - 1]>>]
  BY <1>7 DEF RecursTo
<1>9. ASSUME NEW n \in 0..m
      PROVE  g[n] = IF n = 0 THEN w ELSE Meets(st, asked, g[n - 1], from.route, hops[n])
  <2>1. n # 0 => n \in 1..m /\ n - 1 \in 0..m /\ g[n - 1] \in WalkState
    BY <1>2, <1>8
  <2>2. n # 0 => next[<<n, g[n - 1]>>] = Meets(st, asked, g[n - 1], from.route, hops[n])
    BY <1>5, <2>1
  <2> QED
    BY <1>8, <2>2, Zenon
<1>10. g = [n \in 0..m |-> IF n = 0 THEN w ELSE Meets(st, asked, g[n - 1], from.route, hops[n])]
  BY <1>8, <1>9
<1>11. met = [n \in 0..m |-> IF n = 0 THEN w ELSE Meets(st, asked, met[n - 1], from.route, hops[n])]
  BY <1>10, Zenon DEF m
<1> HIDE DEF met
<1>12. \A n \in 0..m : met[n] = IF n = 0 THEN w ELSE Meets(st, asked, met[n - 1], from.route, hops[n])
  BY <1>11
<1>13. met[0] = w /\ \A n \in 1..m : met[n] = Meets(st, asked, met[n - 1], from.route, hops[n])
  <2>1. 0 \in 0..m /\ \A n \in 1..m : n \in 0..m /\ n # 0
    BY <1>2
  <2> QED
    BY <1>12, <2>1
<1> DEFINE T == {n \in Nat : n <= m => met[n] \in WalkState}
<1>14. 0 \in T
  BY <1>13
<1>15. ASSUME NEW n \in Nat, n \in T PROVE n + 1 \in T
  <2> SUFFICES ASSUME n + 1 <= m PROVE met[n + 1] \in WalkState
    OBVIOUS
  <2>1. n + 1 \in 1..m /\ (n + 1) - 1 = n /\ met[n] \in WalkState
    BY <1>2, <1>15
  <2>2. met[n + 1] = Meets(st, asked, met[n], from.route, hops[n + 1])
    BY <1>13, <2>1
  <2> QED
    BY <1>1, <1>4, <2>1, <2>2, MeetsType
<1> HIDE DEF T
<1>16. \A n \in 0..m : met[n] \in WalkState
  <2>1. \A n \in Nat : n \in T
    BY <1>14, <1>15, EveryNumber
  <2> QED
    BY <2>1 DEF T
<1>17. met \in [0..m -> WalkState]
  BY <1>11, <1>16
<1> QED
  BY <1>3, <1>13, <1>17, Zenon DEF m, hops, Meeting

LEMMA MeetsAllType ==
  ASSUME NEW st \in Stores, NEW asked, NEW w \in WalkState, NEW from \in Taken
  PROVE  MeetsAll(st, asked, w, from) \in WalkState
<1>1. PICK met : Meeting(met, st, asked, w, from)
  BY MeetsAllIs
<1>0. /\ met \in [0..Len(StepOf(st, asked, from)) -> WalkState]
      /\ MeetsAll(st, asked, w, from) = met[Len(StepOf(st, asked, from))]
  BY <1>1 DEF Meeting
<1>2. StepOf(st, asked, from) \in Seq(Hop)
  BY StepIs DEF StepOf, Taken
<1>3. Len(StepOf(st, asked, from)) \in 0..Len(StepOf(st, asked, from))
  BY <1>2
<1> QED
  BY <1>0, <1>3

(* One step further, from each the step before reached.                    *)
Furthering(upto, st, asked, w) ==
  /\ upto \in [0..Len(w.following) -> WalkState] /\ upto[0] = [w EXCEPT !.following = <<>>]
  /\ \A n \in 1..Len(w.following) : upto[n] = MeetsAll(st, asked, upto[n - 1], w.following[n])
  /\ Further(st, asked, w) = upto[Len(w.following)]

LEMMA FurtherIs ==
  ASSUME NEW st \in Stores, NEW asked, NEW w \in WalkState
  PROVE  \E upto : Furthering(upto, st, asked, w)
<1> DEFINE m == Len(w.following)
           base == [w EXCEPT !.following = <<>>]
           next == [p \in Nat \X WalkState |-> MeetsAll(st, asked, p[2], w.following[p[1]])]
           upto == CHOOSE f : f = [n \in 0..Len(w.following) |->
                     IF n = 0 THEN base ELSE MeetsAll(st, asked, f[n - 1], w.following[n])]
<1>1. w.following \in Seq(Taken) /\ base \in WalkState
  <2>1. <<>> \in Seq(Taken)
    OBVIOUS
  <2> QED
    BY <2>1 DEF WalkState
<1>2. m \in Nat /\ \A n \in 1..m : w.following[n] \in Taken
  BY <1>1, ElementOfSeq
<1>3. Further(st, asked, w) = upto[m]
  BY Zenon DEF Further
<1> HIDE DEF m, base
<1>4. \A n \in 1..m, v \in WalkState : next[<<n, v>>] = MeetsAll(st, asked, v, w.following[n])
  BY <1>2
<1> HIDE DEF next
<1>5. StaysTo(next, m, WalkState)
  <2>1. ASSUME NEW n \in 1..m, NEW v \in WalkState PROVE next[<<n, v>>] \in WalkState
    BY <1>2, <1>4, MeetsAllType
  <2> QED
    BY <2>1 DEF StaysTo
<1>6. PICK g : RecursTo(g, m, WalkState, base, next)
  BY <1>1, <1>2, <1>5, RecursionTo
<1>7. /\ g \in [0..m -> WalkState]
      /\ \A n \in 0..m : g[n] = IF n = 0 THEN base ELSE next[<<n, g[n - 1]>>]
  BY <1>6 DEF RecursTo
<1>8. ASSUME NEW n \in 0..m
      PROVE  g[n] = IF n = 0 THEN base ELSE MeetsAll(st, asked, g[n - 1], w.following[n])
  <2>1. n # 0 => n \in 1..m /\ n - 1 \in 0..m /\ g[n - 1] \in WalkState
    BY <1>2, <1>7
  <2>2. n # 0 => next[<<n, g[n - 1]>>] = MeetsAll(st, asked, g[n - 1], w.following[n])
    BY <1>4, <2>1
  <2> QED
    BY <1>7, <2>2, Zenon
<1>9. g = [n \in 0..m |-> IF n = 0 THEN base ELSE MeetsAll(st, asked, g[n - 1], w.following[n])]
  BY <1>7, <1>8
<1>10. upto = [n \in 0..m |-> IF n = 0 THEN base ELSE MeetsAll(st, asked, upto[n - 1], w.following[n])]
  BY <1>9, Zenon DEF m
<1> HIDE DEF upto
<1>11. \A n \in 0..m : upto[n] = IF n = 0 THEN base ELSE MeetsAll(st, asked, upto[n - 1], w.following[n])
  BY <1>10
<1>12. upto[0] = base /\ \A n \in 1..m : upto[n] = MeetsAll(st, asked, upto[n - 1], w.following[n])
  <2>1. 0 \in 0..m /\ \A n \in 1..m : n \in 0..m /\ n # 0
    BY <1>2
  <2> QED
    BY <1>11, <2>1
<1> DEFINE T == {n \in Nat : n <= m => upto[n] \in WalkState}
<1>13. 0 \in T
  BY <1>1, <1>12
<1>14. ASSUME NEW n \in Nat, n \in T PROVE n + 1 \in T
  <2> SUFFICES ASSUME n + 1 <= m PROVE upto[n + 1] \in WalkState
    OBVIOUS
  <2>1. n + 1 \in 1..m /\ (n + 1) - 1 = n /\ upto[n] \in WalkState
    BY <1>2, <1>14
  <2>2. upto[n + 1] = MeetsAll(st, asked, upto[n], w.following[n + 1])
    BY <1>12, <2>1
  <2> QED
    BY <1>2, <2>1, <2>2, MeetsAllType
<1> HIDE DEF T
<1>15. \A n \in 0..m : upto[n] \in WalkState
  <2>1. \A n \in Nat : n \in T
    BY <1>13, <1>14, EveryNumber
  <2> QED
    BY <2>1 DEF T
<1>16. upto \in [0..m -> WalkState]
  BY <1>10, <1>15
<1> QED
  BY <1>3, <1>12, <1>16, Zenon DEF m, base, Furthering

LEMMA FurtherType ==
  ASSUME NEW st \in Stores, NEW asked, NEW w \in WalkState
  PROVE  Further(st, asked, w) \in WalkState
<1>1. PICK upto : Furthering(upto, st, asked, w)
  BY FurtherIs
<1>0. upto \in [0..Len(w.following) -> WalkState] /\ Further(st, asked, w) = upto[Len(w.following)]
  BY <1>1 DEF Furthering
<1>2. w.following \in Seq(Taken)
  BY DEF WalkState
<1>3. Len(w.following) \in 0..Len(w.following)
  BY <1>2
<1> QED
  BY <1>0, <1>3

(* A walk, step by step.                                                   *)
LEMMA WalkedIs ==
  ASSUME NEW st \in Stores, NEW asked, asked.start \in Iris, asked.depth \in Nat
  PROVE  \E after :
           /\ after[0] = Setting(asked) /\ \A n \in Nat : after[n] \in WalkState
           /\ \A n \in Nat : after[n + 1] = Further(st, asked, after[n])
           /\ Walked(st, asked) = after[asked.depth].reached
<1> DEFINE next == [p \in Nat \X WalkState |-> Further(st, asked, p[2])]
           after == CHOOSE f : f = [n \in Nat |-> IF n = 0 THEN Setting(asked) ELSE Further(st, asked, f[n - 1])]
<1>1. Setting(asked) \in WalkState
  <2>1. <<>> \in Seq(Hop) /\ <<>> \in Seq(Taken)
    OBVIOUS
  <2>2. [id |-> asked.start, route |-> <<>>] \in Taken
    BY <2>1 DEF Taken
  <2>3. <<[id |-> asked.start, route |-> <<>>]>> \in Seq(Taken)
    BY <2>2
  <2> QED
    BY <2>1, <2>3 DEF Setting, WalkState
<1>2. \A n \in Nat, v \in WalkState : next[<<n, v>>] = Further(st, asked, v)
  OBVIOUS
<1> HIDE DEF next
<1>3. Stays(next, WalkState)
  <2>1. ASSUME NEW n \in Nat \ {0}, NEW v \in WalkState PROVE next[<<n, v>>] \in WalkState
    BY <1>2, FurtherType
  <2> QED
    BY <2>1 DEF Stays
<1>4. PICK g : Recurs(g, WalkState, Setting(asked), next)
  BY <1>1, <1>3, RecursionThere
<1>5. /\ g \in [Nat -> WalkState]
      /\ \A n \in Nat : g[n] = IF n = 0 THEN Setting(asked) ELSE next[<<n, g[n - 1]>>]
  BY <1>4 DEF Recurs
<1>6. ASSUME NEW n \in Nat PROVE g[n] = IF n = 0 THEN Setting(asked) ELSE Further(st, asked, g[n - 1])
  <2>1. n # 0 => n - 1 \in Nat /\ g[n - 1] \in WalkState
    BY <1>5
  <2>2. n # 0 => next[<<n, g[n - 1]>>] = Further(st, asked, g[n - 1])
    BY <1>2, <2>1
  <2> QED
    BY <1>5, <2>2, Zenon
<1>7. g = [n \in Nat |-> IF n = 0 THEN Setting(asked) ELSE Further(st, asked, g[n - 1])]
  BY <1>5, <1>6
<1>8. after = [n \in Nat |-> IF n = 0 THEN Setting(asked) ELSE Further(st, asked, after[n - 1])]
  BY <1>7, Zenon
<1>9. Walked(st, asked) = after[asked.depth].reached
  BY Zenon DEF Walked
<1> HIDE DEF after
<1>10. \A n \in Nat : after[n] = IF n = 0 THEN Setting(asked) ELSE Further(st, asked, after[n - 1])
  BY <1>8
<1>11. after[0] = Setting(asked) /\ \A n \in Nat : after[n + 1] = Further(st, asked, after[n])
  <2>1. \A n \in Nat : n + 1 \in Nat /\ n + 1 # 0 /\ (n + 1) - 1 = n
    OBVIOUS
  <2> QED
    BY <1>10, <2>1
<1> DEFINE T == {n \in Nat : after[n] \in WalkState}
<1>12. 0 \in T
  BY <1>1, <1>11
<1>13. ASSUME NEW n \in Nat, n \in T PROVE n + 1 \in T
  BY <1>11, <1>13, FurtherType
<1> HIDE DEF T
<1>14. \A n \in Nat : after[n] \in WalkState
  <2>1. \A n \in Nat : n \in T
    BY <1>12, <1>13, EveryNumber
  <2> QED
    BY <2>1 DEF T
<1> QED
  BY <1>9, <1>11, <1>14

(* The hops a walk may take from an artifact, and what is near where it    *)
(* began, in so many steps.                                                *)
HopsOf(st, asked, x, part) ==
  LET steps == Step(st, asked, x, part)
  IN {hop \in {steps[i] : i \in DOMAIN steps} :
        asked.via \in {NoField, hop[1]} /\ NarrowedTo(st, asked, hop[2])}

HopsFrom(st, asked, x) == HopsOf(st, asked, x, IF x = asked.start THEN asked.part ELSE Whole)

Within(within, st, asked) ==
  within = [n \in Nat |->
              IF n = 0 THEN {asked.start}
              ELSE within[n - 1] \cup
                   UNION {{hop[2] : hop \in HopsOf(st, asked, x, IF x = asked.start THEN asked.part ELSE Whole)}
                            : x \in {y \in within[n - 1] : Held(st, y)}}]

LEMMA HopsAre ==
  ASSUME NEW st \in Stores, NEW asked, NEW x \in Iris, NEW part
  PROVE  /\ HopsOf(st, asked, x, part) \subseteq Hop
         /\ \A h : h \in HopsOf(st, asked, x, part) <=>
              /\ Tells(Step(st, asked, x, part), h) /\ asked.via \in {NoField, h[1]}
              /\ NarrowedTo(st, asked, h[2])
<1>1. \A h : h \in HopsOf(st, asked, x, part) <=>
        /\ Tells(Step(st, asked, x, part), h) /\ asked.via \in {NoField, h[1]}
        /\ NarrowedTo(st, asked, h[2])
  BY DEF HopsOf, Tells
<1>2. \A h : Tells(Step(st, asked, x, part), h) => h \in Hop
  BY StepIs, ElementOfSeq DEF Tells
<1> QED
  BY <1>1, <1>2

Onto(st, asked, xs, y) == \E x \in xs : Held(st, x) /\ \E h \in HopsFrom(st, asked, x) : h[2] = y

LEMMA WithinIs ==
  ASSUME NEW st \in Stores, NEW asked, asked.start \in Iris, NEW within, Within(within, st, asked)
  PROVE  /\ within[0] = {asked.start}
         /\ \A n \in Nat : \A y : y \in within[n + 1] <=> y \in within[n] \/ Onto(st, asked, within[n], y)
         /\ \A n \in Nat : within[n] \subseteq Iris /\ within[n] \subseteq within[n + 1]
         /\ \A n \in Nat : asked.start \in within[n]
<1>1. \A n \in Nat : within[n] =
        IF n = 0 THEN {asked.start}
        ELSE within[n - 1] \cup
             UNION {{hop[2] : hop \in HopsOf(st, asked, x, IF x = asked.start THEN asked.part ELSE Whole)}
                      : x \in {y \in within[n - 1] : Held(st, y)}}
  BY DEF Within
<1>2. within[0] = {asked.start}
  BY <1>1
<1>3. ASSUME NEW n \in Nat
      PROVE  within[n + 1] = within[n] \cup
               UNION {{hop[2] : hop \in HopsFrom(st, asked, x)} : x \in {y \in within[n] : Held(st, y)}}
  <2>1. n + 1 \in Nat /\ n + 1 # 0 /\ (n + 1) - 1 = n
    OBVIOUS
  <2> QED
    BY <1>1, <2>1 DEF HopsFrom
<1>4. ASSUME NEW n \in Nat, NEW y
      PROVE  y \in within[n + 1] <=> y \in within[n] \/ Onto(st, asked, within[n], y)
  BY <1>3 DEF Onto
<1>5. \A n \in Nat : within[n] \subseteq Iris
  <2> DEFINE T == {n \in Nat : within[n] \subseteq Iris}
  <2>1. 0 \in T
    BY <1>2
  <2>2. ASSUME NEW n \in Nat, n \in T PROVE n + 1 \in T
    <3>1. ASSUME NEW x \in within[n], NEW h \in HopsFrom(st, asked, x) PROVE h[2] \in Iris
      <4>1. x \in Iris
        BY <2>2
      <4>2. h \in Hop
        BY <4>1, HopsAre DEF HopsFrom
      <4> QED
        BY <4>2 DEF Hop
    <3> QED
      BY <1>4, <2>2, <3>1 DEF Onto
  <2> HIDE DEF T
  <2>3. \A n \in Nat : n \in T
    BY <2>1, <2>2, EveryNumber
  <2> QED
    BY <2>3 DEF T
<1>6. \A n \in Nat : within[n] \subseteq within[n + 1]
  BY <1>4
<1>7. \A n \in Nat : asked.start \in within[n]
  BY <1>2, <1>6, Onwards
<1> QED
  BY <1>2, <1>4, <1>5, <1>6, <1>7

(* A route of hops from where a walk began to what none shorter reaches.   *)
GoodRoute(st, asked, within, t) ==
  /\ Len(t.route) # 0 /\ t.id \notin within[Len(t.route) - 1] /\ t.route[Len(t.route)][2] = t.id
  /\ \A k \in DOMAIN t.route :
       t.route[k] \in HopsOf(st, asked, IF k = 1 THEN asked.start ELSE t.route[k - 1][2],
                             IF k = 1 THEN asked.part ELSE Whole)

(* What the n-th step reached and is followed.                             *)
Ahead(st, asked, within, n, f) ==
  /\ f \in Taken /\ f.id \in within[n] /\ Held(st, f.id) /\ Len(f.route) = n
  /\ IF n = 0 THEN f.id = asked.start ELSE f.id \notin within[n - 1] /\ GoodRoute(st, asked, within, f)

(* What is reached is what was met but where the walk began, each once.    *)
ReachedIs(st, asked, within, w) ==
  /\ \A y : (\E t : Tells(w.reached, t) /\ t.id = y) <=> y \in w.seen /\ y # asked.start
  /\ \A i, j \in DOMAIN w.reached : w.reached[i].id = w.reached[j].id => i = j
  /\ \A t : Tells(w.reached, t) => GoodRoute(st, asked, within, t)

(* After n steps; and on the way from the n-th to the next.                *)
AfterStep(st, asked, within, n, w) ==
  /\ w \in WalkState /\ w.seen = within[n] /\ ReachedIs(st, asked, within, w)
  /\ \A f : Tells(w.following, f) => Ahead(st, asked, within, n, f)
  /\ \A y \in within[n] : Held(st, y) /\ (n # 0 => y \notin within[n - 1]) =>
       \E f : Tells(w.following, f) /\ f.id = y

OnStep(st, asked, within, n, w) ==
  /\ w \in WalkState /\ within[n] \subseteq w.seen /\ w.seen \subseteq within[n + 1]
  /\ ReachedIs(st, asked, within, w)
  /\ \A f : Tells(w.following, f) => Ahead(st, asked, within, n + 1, f)
  /\ \A y \in w.seen : Held(st, y) /\ y \notin within[n] => \E f : Tells(w.following, f) /\ f.id = y

(* The links followed out of what a step reached are those that lead on.   *)
LEMMA AheadHops ==
  ASSUME NEW st \in Stores, NEW asked, asked.start \in Iris, NEW within, Within(within, st, asked),
         NEW n \in Nat, NEW f, Ahead(st, asked, within, n, f)
  PROVE  /\ f.id \in Iris
         /\ (IF f.route = <<>> THEN asked.part ELSE Whole) = (IF f.id = asked.start THEN asked.part ELSE Whole)
         /\ \A h : h \in HopsFrom(st, asked, f.id) <=>
              /\ Tells(StepOf(st, asked, f), h) /\ asked.via \in {NoField, h[1]}
              /\ NarrowedTo(st, asked, h[2])
<1>1. f \in Taken /\ f.id \in Iris /\ f.route \in Seq(Hop) /\ Len(f.route) = n
  BY DEF Ahead, Taken
<1>2. f.route = <<>> <=> n = 0
  BY <1>1
<1>3. n # 0 => f.id # asked.start
  <2> SUFFICES ASSUME n # 0 PROVE f.id # asked.start
    OBVIOUS
  <2>1. n - 1 \in Nat /\ f.id \notin within[n - 1]
    BY DEF Ahead
  <2>2. asked.start \in within[n - 1]
    BY <2>1, WithinIs
  <2> QED
    BY <2>1, <2>2
<1>4. n = 0 => f.id = asked.start
  BY DEF Ahead
<1>5. (IF f.route = <<>> THEN asked.part ELSE Whole) = (IF f.id = asked.start THEN asked.part ELSE Whole)
  BY <1>2, <1>3, <1>4
<1>6. StepOf(st, asked, f) = Step(st, asked, f.id, IF f.id = asked.start THEN asked.part ELSE Whole)
  BY <1>5 DEF StepOf
<1> QED
  BY <1>1, <1>5, <1>6, HopsAre DEF HopsFrom

(* A route one hop longer, to what was not met before.                     *)
LEMMA LongerRoute ==
  ASSUME NEW st \in Stores, NEW asked, asked.start \in Iris, NEW within, Within(within, st, asked),
         NEW n \in Nat, NEW f, Ahead(st, asked, within, n, f),
         NEW hop \in HopsFrom(st, asked, f.id), hop[2] \notin within[n]
  PROVE  LET taken == [id |-> hop[2], route |-> Append(f.route, hop)]
         IN /\ taken \in Taken /\ GoodRoute(st, asked, within, taken) /\ taken.id \in within[n + 1]
            /\ Held(st, hop[2]) => Ahead(st, asked, within, n + 1, taken)
<1> DEFINE taken == [id |-> hop[2], route |-> Append(f.route, hop)]
           route == Append(f.route, hop)
<1>1. /\ f \in Taken /\ f.id \in within[n] /\ Held(st, f.id) /\ f.route \in Seq(Hop) /\ Len(f.route) = n
      /\ f.id \in Iris
  BY AheadHops DEF Ahead, Taken
<1>2. hop \in Hop /\ hop[2] \in Iris
  <2>1. HopsFrom(st, asked, f.id) \subseteq Hop
    BY <1>1, HopsAre DEF HopsFrom
  <2> QED
    BY <2>1 DEF Hop
<1>3. /\ route \in Seq(Hop) /\ Len(route) = n + 1 /\ DOMAIN route = 1..(n + 1) /\ route[n + 1] = hop
      /\ \A k \in 1..n : route[k] = f.route[k]
  BY <1>1, <1>2
<1>4. taken.id = hop[2] /\ taken.route = route /\ taken \in Taken
  BY <1>2, <1>3 DEF Taken
<1>5. hop[2] \in within[n + 1]
  <2>1. Onto(st, asked, within[n], hop[2])
    BY <1>1 DEF Onto
  <2> QED
    BY <2>1, WithinIs
<1> HIDE DEF taken, route
<1>6. ASSUME NEW k \in 1..(n + 1)
      PROVE  route[k] \in HopsOf(st, asked, IF k = 1 THEN asked.start ELSE route[k - 1][2],
                                 IF k = 1 THEN asked.part ELSE Whole)
  <2>1. CASE k = n + 1 /\ n = 0
    <3>1. f.id = asked.start
      BY <2>1 DEF Ahead
    <3> QED
      BY <1>3, <2>1, <3>1 DEF HopsFrom
  <2>2. CASE k = n + 1 /\ n # 0
    <3>1. GoodRoute(st, asked, within, f) /\ f.id \notin within[n - 1] /\ n - 1 \in Nat
      BY <2>2 DEF Ahead
    <3>2. f.route[n][2] = f.id
      BY <1>1, <3>1 DEF GoodRoute
    <3>3. f.id # asked.start
      BY <3>1, WithinIs
    <3>4. n \in 1..n /\ k # 1 /\ k - 1 = n
      BY <2>2
    <3>5. route[k - 1][2] = f.id
      BY <1>3, <3>2, <3>4
    <3> QED
      BY <1>3, <2>2, <3>3, <3>4, <3>5 DEF HopsFrom
  <2>3. CASE k # n + 1
    <3>1. k \in 1..n /\ n # 0 /\ (k # 1 => k - 1 \in 1..n)
      BY <2>3
    <3>2. GoodRoute(st, asked, within, f)
      BY <3>1 DEF Ahead
    <3>3. DOMAIN f.route = 1..n
      BY <1>1
    <3>4. f.route[k] \in HopsOf(st, asked, IF k = 1 THEN asked.start ELSE f.route[k - 1][2],
                                IF k = 1 THEN asked.part ELSE Whole)
      BY <3>1, <3>2, <3>3 DEF GoodRoute
    <3> QED
      BY <1>3, <3>1, <3>4
  <2> QED
    BY <2>1, <2>2, <2>3
<1>7. GoodRoute(st, asked, within, taken)
  <2>1. (n + 1) - 1 = n /\ n + 1 # 0
    OBVIOUS
  <2> QED
    BY <1>3, <1>4, <1>6, <2>1 DEF GoodRoute
<1>8. Held(st, hop[2]) => Ahead(st, asked, within, n + 1, taken)
  <2>1. (n + 1) - 1 = n /\ n + 1 # 0
    OBVIOUS
  <2> QED
    BY <1>3, <1>4, <1>5, <1>7, <2>1 DEF Ahead
<1> QED
  BY <1>4, <1>5, <1>7, <1>8 DEF taken, route

(* One link met: what was met stays met, and where it leads is, if it may. *)
LEMMA MeetsOn ==
  ASSUME NEW st \in Stores, NEW asked, asked.start \in Iris, NEW within, Within(within, st, asked),
         NEW n \in Nat, NEW f, Ahead(st, asked, within, n, f),
         NEW w, OnStep(st, asked, within, n, w), NEW hop, Tells(StepOf(st, asked, f), hop)
  PROVE  /\ OnStep(st, asked, within, n, Meets(st, asked, w, f.route, hop))
         /\ w.seen \subseteq Meets(st, asked, w, f.route, hop).seen
         /\ hop \in HopsFrom(st, asked, f.id) => hop[2] \in Meets(st, asked, w, f.route, hop).seen
<1> DEFINE met == Meets(st, asked, w, f.route, hop)
           taken == [id |-> hop[2], route |-> Append(f.route, hop)]
<1>1. f.id \in Iris /\ f.route \in Seq(Hop) /\ w \in WalkState
  BY AheadHops DEF Ahead, Taken, OnStep
<1>2. hop \in HopsFrom(st, asked, f.id) <=> asked.via \in {NoField, hop[1]} /\ NarrowedTo(st, asked, hop[2])
  BY AheadHops
<1>3. hop \in Hop
  <2>1. StepOf(st, asked, f) \in Seq(Hop)
    BY <1>1, StepIs DEF StepOf
  <2> QED
    BY <2>1, ElementOfSeq DEF Tells
<1>4. /\ met \in WalkState
      /\ IF hop[2] \in w.seen \/ hop \notin HopsFrom(st, asked, f.id)
         THEN met = w
         ELSE /\ met.seen = w.seen \cup {hop[2]} /\ met.reached = Append(w.reached, taken)
              /\ met.following = IF Held(st, hop[2]) THEN Append(w.following, taken) ELSE w.following
              /\ taken \in Taken
  <2>1. met \in WalkState
    BY <1>1, <1>3, MeetsType
  <2>2. MetIs(st, asked, w, f.route, hop, met)
    BY <1>1, <1>3, MeetsIs
  <2> HIDE DEF met
  <2> QED
    BY <1>2, <2>1, <2>2 DEF MetIs
<1> HIDE DEF met
<1>5. CASE hop[2] \in w.seen \/ hop \notin HopsFrom(st, asked, f.id)
  BY <1>4, <1>5 DEF met
<1>6. CASE ~(hop[2] \in w.seen \/ hop \notin HopsFrom(st, asked, f.id))
  <2>1. /\ within[n] \subseteq w.seen /\ w.seen \subseteq within[n + 1] /\ ReachedIs(st, asked, within, w)
        /\ \A g : Tells(w.following, g) => Ahead(st, asked, within, n + 1, g)
        /\ \A y \in w.seen : Held(st, y) /\ y \notin within[n] => \E g : Tells(w.following, g) /\ g.id = y
    BY DEF OnStep
  <2>2. hop \in HopsFrom(st, asked, f.id) /\ hop[2] \notin w.seen /\ hop[2] \notin within[n]
    BY <1>6, <2>1
  <2>3. /\ taken \in Taken /\ GoodRoute(st, asked, within, taken) /\ taken.id \in within[n + 1]
        /\ Held(st, hop[2]) => Ahead(st, asked, within, n + 1, taken)
    BY <2>2, LongerRoute
  <2>4. taken.id = hop[2]
    OBVIOUS
  <2>5. w.reached \in Seq(Taken) /\ w.following \in Seq(Taken)
    BY <1>1 DEF WalkState
  <2> HIDE DEF taken
  <2>6. /\ met.seen = w.seen \cup {hop[2]} /\ met.reached = Append(w.reached, taken)
        /\ met.following = IF Held(st, hop[2]) THEN Append(w.following, taken) ELSE w.following
    BY <1>4, <1>6
  <2>7. \A t : Tells(met.reached, t) <=> Tells(w.reached, t) \/ t = taken
    BY <2>3, <2>5, <2>6, AppendTells
  <2>8. \A t : Tells(met.following, t) <=> Tells(w.following, t) \/ (Held(st, hop[2]) /\ t = taken)
    BY <2>3, <2>5, <2>6, AppendTells
  <2>9. asked.start \in w.seen
    BY <2>1, WithinIs
  <2>10. ReachedIs(st, asked, within, met)
    <3>1. \A y : (\E t : Tells(met.reached, t) /\ t.id = y) <=> y \in met.seen /\ y # asked.start
      BY <2>1, <2>2, <2>4, <2>6, <2>7, <2>9 DEF ReachedIs
    <3>2. \A t : Tells(met.reached, t) => GoodRoute(st, asked, within, t)
      BY <2>1, <2>3, <2>7 DEF ReachedIs
    <3>3. ASSUME NEW i \in DOMAIN met.reached, NEW j \in DOMAIN met.reached,
                 met.reached[i].id = met.reached[j].id
          PROVE  i = j
      <4>1. /\ DOMAIN met.reached = 1..(Len(w.reached) + 1) /\ DOMAIN w.reached = 1..Len(w.reached)
            /\ Len(w.reached) \in Nat /\ met.reached[Len(w.reached) + 1] = taken
            /\ \A k \in 1..Len(w.reached) : met.reached[k] = w.reached[k]
        BY <2>3, <2>5, <2>6
      <4>2. \A k \in DOMAIN w.reached : w.reached[k].id # hop[2]
        BY <2>1, <2>2 DEF ReachedIs, Tells
      <4>3. \A k, l \in DOMAIN w.reached : w.reached[k].id = w.reached[l].id => k = l
        BY <2>1 DEF ReachedIs
      <4>4. \A k \in DOMAIN met.reached : k \in DOMAIN w.reached \/ k = Len(w.reached) + 1
        BY <4>1
      <4> QED
        BY <2>4, <3>3, <4>1, <4>2, <4>3, <4>4
    <3> QED
      BY <3>1, <3>2, <3>3 DEF ReachedIs
  <2>11. OnStep(st, asked, within, n, met)
    <3>1. within[n] \subseteq met.seen /\ met.seen \subseteq within[n + 1]
      BY <2>1, <2>3, <2>4, <2>6
    <3>2. \A g : Tells(met.following, g) => Ahead(st, asked, within, n + 1, g)
      BY <2>1, <2>3, <2>8
    <3>3. \A y \in met.seen : Held(st, y) /\ y \notin within[n] => \E g : Tells(met.following, g) /\ g.id = y
      BY <2>1, <2>4, <2>6, <2>8
    <3> QED
      BY <1>4, <2>10, <3>1, <3>2, <3>3 DEF OnStep
  <2> QED
    BY <2>6, <2>11 DEF met
<1> QED
  BY <1>5, <1>6

(* Every link out of what the n-th step reached, and every link out of all *)
(* of that, is met.                                                        *)
Covers(st, asked, x, seen) == \A h \in HopsFrom(st, asked, x) : h[2] \in seen

LEMMA MeetsAllOn ==
  ASSUME NEW st \in Stores, NEW asked, asked.start \in Iris, NEW within, Within(within, st, asked),
         NEW n \in Nat, NEW f, Ahead(st, asked, within, n, f), NEW w, OnStep(st, asked, within, n, w)
  PROVE  /\ OnStep(st, asked, within, n, MeetsAll(st, asked, w, f))
         /\ w.seen \subseteq MeetsAll(st, asked, w, f).seen
         /\ Covers(st, asked, f.id, MeetsAll(st, asked, w, f).seen)
<1> DEFINE hops == StepOf(st, asked, f)
           m == Len(hops)
<1>1. f \in Taken /\ f.id \in Iris /\ w \in WalkState
  BY AheadHops DEF Ahead, OnStep
<1>2. hops \in Seq(Hop) /\ m \in Nat /\ DOMAIN hops = 1..m
  <2>1. hops \in Seq(Hop)
    BY <1>1, StepIs DEF StepOf
  <2> HIDE DEF hops
  <2> QED
    BY <2>1
<1>3. PICK met : Meeting(met, st, asked, w, f)
  BY <1>1, MeetsAllIs
<1>4. /\ met[0] = w /\ MeetsAll(st, asked, w, f) = met[m]
      /\ \A i \in 1..m : met[i] = Meets(st, asked, met[i - 1], f.route, hops[i])
  BY <1>3 DEF Meeting
<1>5. \A i \in 1..m : Tells(hops, hops[i])
  BY <1>2 DEF Tells
<1> HIDE DEF hops, m
<1> DEFINE Going(i) == /\ OnStep(st, asked, within, n, met[i]) /\ w.seen \subseteq met[i].seen
                       /\ \A k \in 1..i : hops[k] \in HopsFrom(st, asked, f.id) => hops[k][2] \in met[i].seen
           T == {i \in Nat : i <= m => Going(i)}
<1>6. 0 \in T
  BY <1>4
<1>7. ASSUME NEW i \in Nat, i \in T PROVE i + 1 \in T
  <2> SUFFICES ASSUME i + 1 <= m PROVE Going(i + 1)
    OBVIOUS
  <2>1. i + 1 \in 1..m /\ (i + 1) - 1 = i /\ Going(i)
    BY <1>2, <1>7
  <2>2. met[i + 1] = Meets(st, asked, met[i], f.route, hops[i + 1])
    BY <1>4, <2>1
  <2>3. Tells(StepOf(st, asked, f), hops[i + 1])
    BY <1>5, <2>1 DEF hops
  <2>4. /\ OnStep(st, asked, within, n, met[i + 1]) /\ met[i].seen \subseteq met[i + 1].seen
        /\ hops[i + 1] \in HopsFrom(st, asked, f.id) => hops[i + 1][2] \in met[i + 1].seen
    BY <2>1, <2>2, <2>3, MeetsOn
  <2>5. \A k \in 1..(i + 1) : k \in 1..i \/ k = i + 1
    OBVIOUS
  <2> QED
    BY <2>1, <2>4, <2>5
<1> HIDE DEF T, Going
<1>8. Going(m)
  <2>1. m \in T
    BY <1>2, <1>6, <1>7, EveryNumber
  <2> QED
    BY <1>2, <2>1 DEF T
<1>9. ASSUME NEW h \in HopsFrom(st, asked, f.id) PROVE h[2] \in met[m].seen
  <2>1. Tells(hops, h)
    BY AheadHops DEF hops
  <2> QED
    BY <1>2, <1>8, <2>1 DEF Tells, Going
<1> QED
  BY <1>4, <1>8, <1>9 DEF Going, Covers

(* From one step to the next.                                              *)
LEMMA FurtherOn ==
  ASSUME NEW st \in Stores, NEW asked, asked.start \in Iris, NEW within, Within(within, st, asked),
         NEW n \in Nat, NEW w, AfterStep(st, asked, within, n, w),
         \A x \in within[n] : Held(st, x) /\ n # 0 /\ x \in within[n - 1] => Covers(st, asked, x, within[n])
  PROVE  AfterStep(st, asked, within, n + 1, Further(st, asked, w))
<1> DEFINE base == [w EXCEPT !.following = <<>>]
           m == Len(w.following)
<1>1. /\ w \in WalkState /\ w.seen = within[n] /\ ReachedIs(st, asked, within, w)
      /\ \A f : Tells(w.following, f) => Ahead(st, asked, within, n, f)
      /\ \A y \in within[n] : Held(st, y) /\ (n # 0 => y \notin within[n - 1]) =>
           \E f : Tells(w.following, f) /\ f.id = y
  BY DEF AfterStep
<1>2. w.following \in Seq(Taken) /\ m \in Nat /\ DOMAIN w.following = 1..m
  BY <1>1 DEF WalkState
<1>3. /\ base \in WalkState /\ base.seen = w.seen /\ base.reached = w.reached /\ base.following = <<>>
  <2>1. <<>> \in Seq(Taken)
    OBVIOUS
  <2> QED
    BY <1>1, <2>1 DEF WalkState
<1> HIDE DEF base
<1>4. OnStep(st, asked, within, n, base)
  <2>1. \A f : ~Tells(base.following, f)
    BY <1>3 DEF Tells
  <2>2. within[n] \subseteq within[n + 1]
    BY WithinIs
  <2>3. ReachedIs(st, asked, within, base)
    BY <1>1, <1>3 DEF ReachedIs
  <2> QED
    BY <1>1, <1>3, <2>1, <2>2, <2>3 DEF OnStep
<1>5. PICK upto : Furthering(upto, st, asked, w)
  BY <1>1, FurtherIs
<1>6. /\ upto[0] = base /\ Further(st, asked, w) = upto[m]
      /\ \A i \in 1..m : upto[i] = MeetsAll(st, asked, upto[i - 1], w.following[i])
  BY <1>5 DEF Furthering, base
<1>7. \A i \in 1..m : Ahead(st, asked, within, n, w.following[i])
  BY <1>1, <1>2 DEF Tells
<1> HIDE DEF m
<1> DEFINE Going(i) == /\ OnStep(st, asked, within, n, upto[i])
                       /\ \A k \in 1..i : Covers(st, asked, w.following[k].id, upto[i].seen)
           T == {i \in Nat : i <= m => Going(i)}
<1>8. 0 \in T
  BY <1>4, <1>6
<1>9. ASSUME NEW i \in Nat, i \in T PROVE i + 1 \in T
  <2> SUFFICES ASSUME i + 1 <= m PROVE Going(i + 1)
    OBVIOUS
  <2>1. i + 1 \in 1..m /\ (i + 1) - 1 = i /\ Going(i)
    BY <1>2, <1>9
  <2>2. upto[i + 1] = MeetsAll(st, asked, upto[i], w.following[i + 1])
    BY <1>6, <2>1
  <2>3. Ahead(st, asked, within, n, w.following[i + 1])
    BY <1>7, <2>1
  <2>4. /\ OnStep(st, asked, within, n, upto[i + 1]) /\ upto[i].seen \subseteq upto[i + 1].seen
        /\ Covers(st, asked, w.following[i + 1].id, upto[i + 1].seen)
    BY <2>1, <2>2, <2>3, MeetsAllOn
  <2>5. ASSUME NEW k \in 1..(i + 1) PROVE Covers(st, asked, w.following[k].id, upto[i + 1].seen)
    <3>1. CASE k = i + 1
      BY <2>4, <3>1
    <3>2. CASE k \in 1..i
      BY <2>1, <2>4, <3>2 DEF Covers
    <3> QED
      BY <3>1, <3>2
  <2> QED
    BY <2>4, <2>5
<1> HIDE DEF T, Going
<1>10. Going(m)
  <2>1. m \in T
    BY <1>2, <1>8, <1>9, EveryNumber
  <2> QED
    BY <1>2, <2>1 DEF T
<1> DEFINE far == upto[m]
<1>11. OnStep(st, asked, within, n, far) /\ \A k \in 1..m : Covers(st, asked, w.following[k].id, far.seen)
  BY <1>10 DEF Going
<1> HIDE DEF far
<1>12. /\ far \in WalkState /\ within[n] \subseteq far.seen /\ far.seen \subseteq within[n + 1]
       /\ ReachedIs(st, asked, within, far)
       /\ \A f : Tells(far.following, f) => Ahead(st, asked, within, n + 1, f)
       /\ \A y \in far.seen : Held(st, y) /\ y \notin within[n] => \E f : Tells(far.following, f) /\ f.id = y
  BY <1>11 DEF OnStep
<1>13. ASSUME NEW x \in within[n], Held(st, x), NEW h \in HopsFrom(st, asked, x)
       PROVE  h[2] \in far.seen
  <2>1. CASE n # 0 /\ x \in within[n - 1]
    BY <1>12, <1>13, <2>1 DEF Covers
  <2>2. CASE n # 0 => x \notin within[n - 1]
    <3>1. PICK f : Tells(w.following, f) /\ f.id = x
      BY <1>1, <1>13, <2>2
    <3>2. PICK k \in 1..m : w.following[k] = f
      BY <1>2, <3>1 DEF Tells
    <3> QED
      BY <1>11, <1>13, <3>1, <3>2 DEF Covers
  <2> QED
    BY <2>1, <2>2
<1>14. far.seen = within[n + 1]
  <2>1. ASSUME NEW y \in within[n + 1] PROVE y \in far.seen
    <3>1. y \in within[n] \/ Onto(st, asked, within[n], y)
      BY <2>1, WithinIs
    <3> QED
      BY <1>12, <1>13, <3>1 DEF Onto
  <2> QED
    BY <1>12, <2>1
<1>15. AfterStep(st, asked, within, n + 1, far)
  <2>1. n + 1 # 0 /\ (n + 1) - 1 = n
    OBVIOUS
  <2> QED
    BY <1>12, <1>14, <2>1 DEF AfterStep
<1> QED
  BY <1>6, <1>15 DEF far

(* Where a walk starts, and every step from there.                         *)
LEMMA SettingOut ==
  ASSUME NEW st \in Stores, NEW asked, asked.start \in Iris, Held(st, asked.start),
         NEW within, Within(within, st, asked)
  PROVE  AfterStep(st, asked, within, 0, Setting(asked))
<1> DEFINE first == [id |-> asked.start, route |-> <<>>]
           w == Setting(asked)
<1>1. first \in Taken /\ first.id = asked.start /\ first.route = <<>> /\ Len(first.route) = 0
  <2>1. <<>> \in Seq(Hop)
    OBVIOUS
  <2> QED
    BY <2>1 DEF Taken
<1> HIDE DEF first
<1>2. w.reached = <<>> /\ w.seen = {asked.start} /\ w.following = <<first>>
  BY DEF Setting, first
<1>3. w \in WalkState
  <2>1. <<>> \in Seq(Taken) /\ <<first>> \in Seq(Taken)
    BY <1>1
  <2> QED
    BY <2>1 DEF Setting, WalkState, first
<1> HIDE DEF w
<1>4. within[0] = {asked.start}
  BY WithinIs
<1>5. \A f : Tells(w.following, f) <=> f = first
  BY <1>2 DEF Tells
<1>6. \A f : ~Tells(w.reached, f)
  BY <1>2 DEF Tells
<1>7. ReachedIs(st, asked, within, w)
  BY <1>2, <1>6 DEF ReachedIs
<1>8. Ahead(st, asked, within, 0, first)
  BY <1>1, <1>4 DEF Ahead
<1>9. AfterStep(st, asked, within, 0, w)
  BY <1>1, <1>2, <1>3, <1>4, <1>5, <1>7, <1>8 DEF AfterStep
<1> QED
  BY <1>9 DEF w

LEMMA StepsOn ==
  ASSUME NEW st \in Stores, NEW asked, asked.start \in Iris, Held(st, asked.start),
         NEW within, Within(within, st, asked), NEW after, after[0] = Setting(asked),
         \A n \in Nat : after[n + 1] = Further(st, asked, after[n])
  PROVE  \A n \in Nat : AfterStep(st, asked, within, n, after[n])
<1> DEFINE T == {n \in Nat : AfterStep(st, asked, within, n, after[n])}
<1>1. 0 \in T
  BY SettingOut
<1>2. ASSUME NEW n \in Nat, n \in T PROVE n + 1 \in T
  <2>1. AfterStep(st, asked, within, n, after[n])
    BY <1>2
  <2>2. ASSUME NEW x \in within[n], Held(st, x) /\ n # 0 /\ x \in within[n - 1]
        PROVE  Covers(st, asked, x, within[n])
    <3>1. n - 1 \in Nat /\ (n - 1) + 1 = n
      BY <2>2
    <3>2. ASSUME NEW h \in HopsFrom(st, asked, x) PROVE h[2] \in within[n]
      <4>1. Onto(st, asked, within[n - 1], h[2])
        BY <2>2 DEF Onto
      <4>2. h[2] \in within[(n - 1) + 1]
        BY <3>1, <4>1, WithinIs
      <4> QED
        BY <3>1, <4>2
    <3> QED
      BY <3>2 DEF Covers
  <2>3. AfterStep(st, asked, within, n + 1, Further(st, asked, after[n]))
    BY <2>1, <2>2, FurtherOn
  <2> QED
    BY <2>3
<1> HIDE DEF T
<1>3. \A n \in Nat : n \in T
  BY <1>1, <1>2, EveryNumber
<1> QED
  BY <1>3 DEF T

(* What a walk tells, of what is near where it began.                      *)
WalkTold(st, asked, within, walked) ==
  /\ {walked[i].id : i \in DOMAIN walked} = within[asked.depth] \ {asked.start}
  /\ Cardinality(DOMAIN walked) = Cardinality(within[asked.depth]) - 1
  /\ \A i \in DOMAIN walked : GoodRoute(st, asked, within, walked[i])

LEMMA WalkTells ==
  ASSUME NEW st \in Stores, NEW asked, asked.start \in Iris, asked.depth \in Nat, Held(st, asked.start),
         NEW within, Within(within, st, asked)
  PROVE  WalkTold(st, asked, within, Walked(st, asked))
<1> DEFINE walked == Walked(st, asked)
           met == within[asked.depth]
<1>1. PICK after : /\ after[0] = Setting(asked) /\ \A n \in Nat : after[n] \in WalkState
                   /\ \A n \in Nat : after[n + 1] = Further(st, asked, after[n])
                   /\ walked = after[asked.depth].reached
  BY WalkedIs
<1>2. AfterStep(st, asked, within, asked.depth, after[asked.depth])
  BY <1>1, StepsOn
<1>3. /\ after[asked.depth] \in WalkState /\ after[asked.depth].seen = met
      /\ ReachedIs(st, asked, within, after[asked.depth])
  BY <1>2 DEF AfterStep
<1>4. walked \in Seq(Taken)
  BY <1>1, <1>3 DEF WalkState
<1> HIDE DEF walked, met
<1>5. /\ \A y : (\E t : Tells(walked, t) /\ t.id = y) <=> y \in met /\ y # asked.start
      /\ \A i, j \in DOMAIN walked : walked[i].id = walked[j].id => i = j
      /\ \A t : Tells(walked, t) => GoodRoute(st, asked, within, t)
  BY <1>1, <1>3 DEF ReachedIs
<1>6. \A i \in DOMAIN walked : Tells(walked, walked[i])
  BY DEF Tells
<1>7. \A y \in met \ {asked.start} : \E i \in DOMAIN walked : walked[i].id = y
  BY <1>5 DEF Tells
<1>8. \A i \in DOMAIN walked : walked[i].id \in met \ {asked.start}
  BY <1>5, <1>6
<1>9. {walked[i].id : i \in DOMAIN walked} = met \ {asked.start}
  BY <1>7, <1>8
<1>10. Cardinality(DOMAIN walked) = Cardinality(met) - 1
  <2>1. IsFiniteSet(met) /\ asked.start \in met
    <3>1. met \subseteq Iris /\ asked.start \in met
      BY WithinIs DEF met
    <3> QED
      BY <3>1, IrisFinite, FS_Subset
  <2>2. IsFiniteSet(met \ {asked.start}) /\ Cardinality(met \ {asked.start}) = Cardinality(met) - 1
    BY <2>1, FS_RemoveElement
  <2> DEFINE f == [i \in DOMAIN walked |-> walked[i].id]
             S == DOMAIN walked
             T == met \ {asked.start}
  <2>3. IsFiniteSet(S)
    <3>1. S = 1..Len(walked) /\ Len(walked) \in Nat
      BY <1>4
    <3> QED
      BY <3>1, FS_Interval
  <2>4. f \in [S -> T]
    BY <1>8
  <2>5. \A a, b \in S : f[a] = f[b] => a = b
    BY <1>5
  <2>6. \A t \in T : \E a \in S : f[a] = t
    BY <1>7
  <2> HIDE DEF f, S, T
  <2>7. Cardinality(T) = Cardinality(S)
    BY <2>3, <2>4, <2>5, <2>6, SameCount
  <2> QED
    BY <2>2, <2>7 DEF S, T
<1> QED
  BY <1>5, <1>6, <1>9, <1>10 DEF WalkTold, walked, met

LEMMA WithinThere ==
  ASSUME NEW st \in Stores, NEW asked, asked.start \in Iris
  PROVE  \E within : Within(within, st, asked)
<1> DEFINE step(f) == f \cup UNION {{hop[2] : hop \in HopsOf(st, asked, x, IF x = asked.start THEN asked.part ELSE Whole)}
                                      : x \in {y \in f : Held(st, y)}}
           X == SUBSET Iris
           steps == [p \in Nat \X X |-> step(p[2])]
<1>1. ASSUME NEW f \in X PROVE step(f) \in X
  <2>1. ASSUME NEW x \in f, NEW h \in HopsFrom(st, asked, x) PROVE h[2] \in Iris
    <3>1. h \in Hop
      BY HopsAre DEF HopsFrom
    <3> QED
      BY <3>1 DEF Hop
  <2> QED
    BY <2>1 DEF HopsFrom
<1>2. {asked.start} \in X
  OBVIOUS
<1> HIDE DEF step, X
<1>3. \A n \in Nat, f \in X : steps[<<n, f>>] = step(f)
  OBVIOUS
<1> HIDE DEF steps
<1>4. Stays(steps, X)
  BY <1>1, <1>3 DEF Stays
<1>5. PICK g : Recurs(g, X, {asked.start}, steps)
  BY <1>2, <1>4, RecursionThere
<1>6. g \in [Nat -> X] /\ \A n \in Nat : g[n] = IF n = 0 THEN {asked.start} ELSE steps[<<n, g[n - 1]>>]
  BY <1>5 DEF Recurs
<1>7. \A n \in Nat : g[n] = IF n = 0 THEN {asked.start} ELSE step(g[n - 1])
  <2> TAKE n \in Nat
  <2>1. n # 0 => n - 1 \in Nat /\ g[n - 1] \in X
    BY <1>6
  <2> QED
    BY <1>3, <1>6, <2>1
<1>8. g = [n \in Nat |-> IF n = 0 THEN {asked.start} ELSE step(g[n - 1])]
  BY <1>6, <1>7
<1> QED
  BY <1>8, Zenon DEF Within, step

LEMMA WalksThere ==
  ASSUME TypeInv
  PROVE  WalksShortest
<1>1. Now \in Stores
  BY NowIs DEF TypeInv
<1>2. ASSUME NEW asked \in {each \in Walks : Held(Now, each.start)}
      PROVE  LET within == CHOOSE w : Within(w, Now, asked)
                 walked == Walked(Now, asked)
             IN /\ {walked[i].id : i \in DOMAIN walked} = within[asked.depth] \ {asked.start}
                /\ Cardinality(DOMAIN walked) = Cardinality(within[asked.depth]) - 1
                /\ \A i \in DOMAIN walked :
                     LET route == walked[i].route
                         from(k) == IF k = 1 THEN asked.start ELSE route[k - 1][2]
                     IN /\ walked[i].id \notin within[Len(route) - 1] /\ route[Len(route)][2] = walked[i].id
                        /\ \A k \in DOMAIN route :
                             route[k] \in HopsOf(Now, asked, from(k), IF k = 1 THEN asked.part ELSE Whole)
  <2> DEFINE within == CHOOSE w : Within(w, Now, asked)
  <2>1. asked.start \in Iris /\ asked.depth \in Nat /\ Held(Now, asked.start)
    BY SelectionsAssumption DEF Walk
  <2>2. Within(within, Now, asked)
    <3>1. \E w : Within(w, Now, asked)
      BY <1>1, <2>1, WithinThere
    <3> QED
      BY <3>1, Zenon
  <2> HIDE DEF within
  <2>3. WalkTold(Now, asked, within, Walked(Now, asked))
    BY <1>1, <2>1, <2>2, WalkTells
  <2> QED
    BY <2>3, Zenon DEF WalkTold, GoodRoute, within
<1> QED
  BY <1>2, Zenon DEF WalksShortest, Within, HopsOf, Hops

(* A walk reaches everything within its depth and nothing else, each once  *)
(* and by a shortest route of its own links, and never where it began,     *)
(* through cycles, IRIs not held and narrowed steps (query.walk).          *)
THEOREM WalksAreShortest == Spec => []WalksShortest
<1>1. Init => TypeInv
  BY TypesStart
<1>2. TypeInv /\ [Next]_vars => TypeInv'
  BY TypesNext
<1>3. TypeInv => WalksShortest
  BY WalksThere
<1> QED
  BY <1>1, <1>2, <1>3, PTL DEF Spec
=============================================================================
