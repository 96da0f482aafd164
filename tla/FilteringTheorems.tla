-------------------------- MODULE FilteringTheorems --------------------------
(***************************************************************************)
(* What Filter returns.  A theorem cannot take the test as a parameter, so *)
(* they are about Keep, which takes the set of the elements that pass: for *)
(* a test in particular, Filter(s, Test) = Keep(s, {e \in S : Test(e)}) by *)
(* the definitions.  The induction over the sequence is an argument by the *)
(* least counterexample.                                                   *)
(***************************************************************************)
EXTENDS Filtering, SequencesExt, WellFoundedInduction, TLAPS

\* The elements of s that are in T, in their order.
Keep(s, T) ==
  LET kept[n \in 0..Len(s)] ==
        IF n = 0 THEN <<>>
        ELSE IF s[n] \in T THEN Append(kept[n - 1], s[n]) ELSE kept[n - 1]
  IN kept[Len(s)]

-----------------------------------------------------------------------------
\* A nonempty set of naturals has a least element.
LEMMA Least ==
  ASSUME NEW W, W \subseteq Nat, W # {}
  PROVE  \E x \in W : \A y \in W : x <= y
PROOF
<1>1. PICK x \in W : \A y \in W : <<y, x>> \notin OpToRel(<, Nat)
  BY NatLessThanWellFounded, WFMin, Zenon
<1>2. \A y \in W : ~(y < x)
  BY <1>1 DEF OpToRel
<1>. QED  BY <1>2

\* The recursion of Keep, up to n.
Kept(s, T, f, n) ==
  /\ f[0] = <<>>
  /\ \A i \in 1..n : f[i] = IF s[i] \in T THEN Append(f[i - 1], s[i]) ELSE f[i - 1]

\* There is a function that satisfies it.
LEMMA KeptExists ==
  ASSUME NEW S, NEW s \in Seq(S), NEW T, NEW k \in 0..Len(s)
  PROVE  \E f \in [0..k -> Seq(S)] : Kept(s, T, f, k)
PROOF
<1>. DEFINE Has(n) == \E f \in [0..n -> Seq(S)] : Kept(s, T, f, n)
            Bad == {n \in 0..Len(s) : ~ Has(n)}
<1>. SUFFICES ASSUME Bad # {}  PROVE FALSE
  OBVIOUS
<1>. HIDE DEF Has
<1>0. Bad \subseteq Nat
  OBVIOUS
<1>1. PICK n \in Bad : \A m \in Bad : n <= m
  BY <1>0, Least
<1>2. CASE n = 0
  <2>1. [i \in 0..0 |-> <<>>] \in [0..0 -> Seq(S)]
    OBVIOUS
  <2>2. Kept(s, T, [i \in 0..0 |-> <<>>], 0)
    BY DEF Kept
  <2>. QED  BY <1>1, <1>2, <2>1, <2>2 DEF Has
<1>3. CASE n # 0
  <2>1. n \in 1..Len(s) /\ n - 1 \in 0..Len(s) /\ n - 1 \notin Bad
    BY <1>1, <1>3
  <2>2. PICK f \in [0..(n - 1) -> Seq(S)] : Kept(s, T, f, n - 1)
    BY <2>1 DEF Has
  <2>. DEFINE last == IF s[n] \in T THEN Append(f[n - 1], s[n]) ELSE f[n - 1]
              g == [i \in 0..n |-> IF i < n THEN f[i] ELSE last]
  <2>3. last \in Seq(S)
    <3>1. f[n - 1] \in Seq(S) /\ s[n] \in S
      BY <2>1
    <3>. QED  BY <3>1
  <2>. HIDE DEF last
  <2>4. g \in [0..n -> Seq(S)]
    BY <2>1, <2>3
  <2>5. g[0] = <<>> /\ g[n] = last /\ \A i \in 0..(n - 1) : g[i] = f[i]
    BY <2>1, <2>2 DEF Kept
  <2>. HIDE DEF g
  <2>6. Kept(s, T, g, n)
    <3>. SUFFICES ASSUME NEW i \in 1..n
                  PROVE  g[i] = IF s[i] \in T THEN Append(g[i - 1], s[i]) ELSE g[i - 1]
      BY <2>5 DEF Kept
    <3>1. CASE i = n
      BY <2>1, <2>5, <3>1 DEF last
    <3>2. CASE i # n
      <4>1. i \in 1..(n - 1) /\ i \in 0..(n - 1) /\ i - 1 \in 0..(n - 1)
        BY <2>1, <3>2
      <4>. QED  BY <2>2, <2>5, <4>1 DEF Kept
    <3>. QED  BY <3>1, <3>2
  <2>. QED  BY <1>1, <2>4, <2>6 DEF Has
<1>. QED  BY <1>2, <1>3

\* Keep is the last value of that function.
LEMMA KeepIs ==
  ASSUME NEW S, NEW s \in Seq(S), NEW T
  PROVE  \E f \in [0..Len(s) -> Seq(S)] : Kept(s, T, f, Len(s)) /\ Keep(s, T) = f[Len(s)]
PROOF
<1>. DEFINE R(f) == f = [n \in 0..Len(s) |->
                         IF n = 0 THEN <<>>
                         ELSE IF s[n] \in T THEN Append(f[n - 1], s[n]) ELSE f[n - 1]]
<1>0. Len(s) \in Nat /\ Len(s) \in 0..Len(s)
  OBVIOUS
<1>1. PICK f \in [0..Len(s) -> Seq(S)] : Kept(s, T, f, Len(s))
  BY <1>0, KeptExists, Zenon
<1>2. R(f)
  <2>1. f = [n \in 0..Len(s) |-> f[n]]
    OBVIOUS
  <2>2. \A n \in 0..Len(s) : f[n] = IF n = 0 THEN <<>>
                         ELSE IF s[n] \in T THEN Append(f[n - 1], s[n]) ELSE f[n - 1]
    <3>. SUFFICES ASSUME NEW n \in 0..Len(s)
         PROVE f[n] = IF n = 0 THEN <<>>
                         ELSE IF s[n] \in T THEN Append(f[n - 1], s[n]) ELSE f[n - 1]
      OBVIOUS
    <3>1. n # 0 => n \in 1..Len(s)
      BY <1>0
    <3>. QED  BY <1>1, <3>1 DEF Kept
  <2>. QED  BY <2>1, <2>2
<1>3. ASSUME NEW g, R(g), NEW i \in 0..Len(s)  PROVE g[i] = f[i]
  <2>. DEFINE Bad == {n \in 0..Len(s) : g[n] # f[n]}
  <2>. SUFFICES ASSUME Bad # {}  PROVE FALSE
    OBVIOUS
  <2>0. Bad \subseteq Nat
    BY <1>0
  <2>1. PICK n \in Bad : \A m \in Bad : n <= m
    BY <2>0, Least
  <2>2. \A m \in 0..Len(s) : g[m] = IF m = 0 THEN <<>>
                         ELSE IF s[m] \in T THEN Append(g[m - 1], s[m]) ELSE g[m - 1]
    BY <1>3
  <2>3. n # 0
    BY <1>0, <1>1, <2>1, <2>2 DEF Kept
  <2>4. n - 1 \in 0..Len(s) /\ n - 1 \notin Bad /\ n \in 1..Len(s)
    BY <1>0, <2>1, <2>3
  <2>5. g[n] = IF s[n] \in T THEN Append(g[n - 1], s[n]) ELSE g[n - 1]
    BY <2>1, <2>2, <2>3
  <2>6. f[n] = IF s[n] \in T THEN Append(f[n - 1], s[n]) ELSE f[n - 1]
    BY <1>1, <2>4 DEF Kept
  <2>. QED  BY <2>1, <2>4, <2>5, <2>6, SMTT(30)
<1>4. R(CHOOSE g : R(g))
  <2>. HIDE DEF R
  <2>. QED  BY <1>2
<1>5. Keep(s, T) = (CHOOSE g : R(g))[Len(s)]
  BY DEF Keep
<1>6. Keep(s, T) = f[Len(s)]
  <2>. HIDE DEF R
  <2>. QED BY <1>0, <1>3, <1>4, <1>5
<1>. QED  BY <1>1, <1>6

-----------------------------------------------------------------------------
\* h tells where in s the elements of r come from: r is s without what is not in
\* T, up to position n.
Picks(s, T, r, n, h) ==
  /\ h \in [1..Len(r) -> 1..n]
  /\ \A i, j \in 1..Len(r) : i < j => h[i] < h[j]
  /\ \A i \in 1..Len(r) : r[i] = s[h[i]] /\ r[i] \in T
  /\ \A k \in 1..n : s[k] \in T => \E i \in 1..Len(r) : h[i] = k

\* One step of the recursion: an element that is dropped.
LEMMA PicksDrop ==
  ASSUME NEW S, NEW s \in Seq(S), NEW T, NEW r \in Seq(S), NEW n \in 1..Len(s),
         NEW h, Picks(s, T, r, n - 1, h), s[n] \notin T
  PROVE  Picks(s, T, r, n, h)
PROOF
<1>1. \A k \in 1..n : k = n \/ k \in 1..(n - 1)
  OBVIOUS
<1>2. h \in [1..Len(r) -> 1..n]
  BY DEF Picks
<1>. QED  BY <1>1, <1>2 DEF Picks

\* One step of the recursion: an element that is kept.
LEMMA PicksKeep ==
  ASSUME NEW S, NEW s \in Seq(S), NEW T, NEW r \in Seq(S), NEW n \in 1..Len(s),
         NEW h, Picks(s, T, r, n - 1, h), s[n] \in T
  PROVE  \E g : Picks(s, T, Append(r, s[n]), n, g)
PROOF
<1>. DEFINE q == Append(r, s[n])
            g == [i \in 1..(Len(r) + 1) |-> IF i <= Len(r) THEN h[i] ELSE n]
<1>1. s[n] \in S /\ Len(r) \in Nat
  OBVIOUS
<1>2. /\ q \in Seq(S) /\ Len(q) = Len(r) + 1 /\ q[Len(r) + 1] = s[n]
      /\ \A i \in 1..Len(r) : q[i] = r[i]
  BY <1>1
<1>3. h \in [1..Len(r) -> 1..(n - 1)]
  BY DEF Picks
<1>4. /\ g \in [1..(Len(r) + 1) -> 1..n] /\ g[Len(r) + 1] = n
      /\ \A i \in 1..Len(r) : g[i] = h[i]
  BY <1>1, <1>3
<1>. HIDE DEF q, g
<1>5. \A i \in 1..Len(q) : i = Len(r) + 1 \/ i \in 1..Len(r)
  BY <1>1, <1>2
<1>6. \A i, j \in 1..Len(q) : i < j => g[i] < g[j]
  <2>. SUFFICES ASSUME NEW i \in 1..Len(q), NEW j \in 1..Len(q), i < j  PROVE g[i] < g[j]
    OBVIOUS
  <2>0. i \in 1..Len(r)
    BY <1>1, <1>2
  <2>1. i \in 1..Len(r) /\ g[i] = h[i] /\ h[i] \in 1..(n - 1)
    BY <1>3, <1>4, <2>0
  <2>2. CASE j \in 1..Len(r)
    BY <1>4, <2>1, <2>2 DEF Picks
  <2>3. CASE j = Len(r) + 1
    BY <1>4, <2>1, <2>3
  <2>. QED  BY <1>5, <2>2, <2>3
<1>7. \A i \in 1..Len(q) : q[i] = s[g[i]] /\ q[i] \in T
  BY <1>2, <1>4, <1>5 DEF Picks
<1>8. ASSUME NEW k \in 1..n, s[k] \in T  PROVE \E i \in 1..Len(q) : g[i] = k
  <2>1. CASE k = n
    BY <1>1, <1>2, <1>4, <2>1
  <2>2. CASE k # n
    <3>1. PICK i \in 1..Len(r) : h[i] = k
      BY <1>8, <2>2 DEF Picks
    <3>2. i \in 1..Len(q) /\ g[i] = k
      BY <1>1, <1>2, <1>4, <3>1
    <3>. QED  BY <3>2
  <2>. QED  BY <2>1, <2>2
<1>9. Picks(s, T, q, n, g)
  BY <1>2, <1>4, <1>6, <1>7, <1>8 DEF Picks
<1>. QED  BY <1>9 DEF q

\* What filter() returns: some elements of the array, each as often and in the
\* same order, and all those that pass the test.
THEOREM KeepPicks ==
  ASSUME NEW S, NEW s \in Seq(S), NEW T
  PROVE  /\ Keep(s, T) \in Seq(S)
         /\ \E h : Picks(s, T, Keep(s, T), Len(s), h)
PROOF
<1>0. Len(s) \in Nat /\ Len(s) \in 0..Len(s)
  OBVIOUS
<1>1. PICK f \in [0..Len(s) -> Seq(S)] : Kept(s, T, f, Len(s)) /\ Keep(s, T) = f[Len(s)]
  BY KeepIs
<1>. DEFINE Good(n) == \E h : Picks(s, T, f[n], n, h)
            Bad == {n \in 0..Len(s) : ~Good(n)}
<1>2. Bad = {}
  <2>. SUFFICES ASSUME Bad # {}  PROVE FALSE
    OBVIOUS
  <2>. HIDE DEF Good
  <2>0. Bad \subseteq Nat
    BY <1>0
  <2>1. PICK n \in Bad : \A m \in Bad : n <= m
    BY <2>0, Least
  <2>2. CASE n = 0
    <3>1. Picks(s, T, <<>>, 0, <<>>)
      BY DEF Picks
    <3>. QED  BY <1>1, <2>1, <2>2, <3>1 DEF Kept, Good
  <2>3. CASE n # 0
    <3>1. n - 1 \in 0..Len(s) /\ n - 1 \notin Bad /\ n \in 1..Len(s)
      BY <1>0, <2>1, <2>3
    <3>2. PICK h : Picks(s, T, f[n - 1], n - 1, h)
      BY <3>1 DEF Good
    <3>3. f[n - 1] \in Seq(S)
      BY <3>1
    <3>4. f[n] = IF s[n] \in T THEN Append(f[n - 1], s[n]) ELSE f[n - 1]
      BY <1>1, <3>1 DEF Kept
    <3>5. Good(n)
      BY <3>1, <3>2, <3>3, <3>4, PicksDrop, PicksKeep DEF Good
    <3>. QED  BY <2>1, <3>5
  <2>. QED  BY <2>2, <2>3
<1>3. Good(Len(s))
  <2>. HIDE DEF Good
  <2>. QED  BY <1>0, <1>2
<1>. QED  BY <1>0, <1>1, <1>3

\* Its elements are those that pass the test.
THEOREM KeepSet ==
  ASSUME NEW S, NEW s \in Seq(S), NEW T
  PROVE  Keep(s, T) \in Seq(S) /\ ToSet(Keep(s, T)) = ToSet(s) \cap T
PROOF
<1>. DEFINE r == Keep(s, T)
<1>1. r \in Seq(S)
  BY KeepPicks
<1>2. PICK h : Picks(s, T, r, Len(s), h)
  BY KeepPicks
<1>. HIDE DEF r
<1>3. DOMAIN r = 1..Len(r) /\ DOMAIN s = 1..Len(s)
  BY <1>1
<1>4. ASSUME NEW i \in 1..Len(r)  PROVE h[i] \in 1..Len(s) /\ r[i] = s[h[i]] /\ r[i] \in T
  BY <1>2 DEF Picks
<1>5. ASSUME NEW k \in 1..Len(s), s[k] \in T  PROVE \E i \in 1..Len(r) : r[i] = s[k]
  BY <1>2, <1>5 DEF Picks
<1>6. ToSet(r) \subseteq ToSet(s) \cap T
  BY <1>3, <1>4 DEF ToSet
<1>7. ToSet(s) \cap T \subseteq ToSet(r)
  BY <1>3, <1>5 DEF ToSet
<1>. QED  BY <1>1, <1>6, <1>7 DEF r

\* No element comes twice that came once.
THEOREM KeepOnce ==
  ASSUME NEW S, NEW s \in Seq(S), NEW T, \A i, j \in DOMAIN s : s[i] = s[j] => i = j
  PROVE  \A i, j \in DOMAIN Keep(s, T) : Keep(s, T)[i] = Keep(s, T)[j] => i = j
PROOF
<1>. DEFINE r == Keep(s, T)
<1>1. r \in Seq(S)
  BY KeepPicks
<1>2. PICK h : Picks(s, T, r, Len(s), h)
  BY KeepPicks
<1>. HIDE DEF r
<1>3. DOMAIN r = 1..Len(r) /\ DOMAIN s = 1..Len(s) /\ Len(r) \in Nat
  BY <1>1
<1>4. ASSUME NEW i \in 1..Len(r)  PROVE h[i] \in 1..Len(s) /\ r[i] = s[h[i]]
  BY <1>2 DEF Picks
<1>5. \A i, j \in 1..Len(r) : i < j => h[i] < h[j]
  BY <1>2 DEF Picks
<1>6. \A i, j \in DOMAIN r : r[i] = r[j] => i = j
  <2>. SUFFICES ASSUME NEW i \in 1..Len(r), NEW j \in 1..Len(r), r[i] = r[j], i # j
                PROVE  FALSE
    BY <1>3
  <2>1. h[i] = h[j]
    BY <1>3, <1>4
  <2>. QED  BY <1>3, <1>4, <1>5, <2>1
<1>. QED  BY <1>6 DEF r

\* If the first element is kept, it stays the first.
THEOREM KeepHead ==
  ASSUME NEW S, NEW s \in Seq(S), NEW T, s # <<>>, s[1] \in T
  PROVE  Keep(s, T)[1] = s[1]
PROOF
<1>. DEFINE r == Keep(s, T)
<1>1. r \in Seq(S)
  BY KeepPicks
<1>2. PICK h : Picks(s, T, r, Len(s), h)
  BY KeepPicks
<1>. HIDE DEF r
<1>3. 1 \in 1..Len(s) /\ Len(r) \in Nat
  BY <1>1
<1>4. PICK i \in 1..Len(r) : h[i] = 1
  BY <1>2, <1>3 DEF Picks
<1>5. 1 \in 1..Len(r) /\ h[1] \in 1..Len(s)
  BY <1>2, <1>3, <1>4 DEF Picks
<1>6. ~(1 < i)
  <2>1. 1 < i => h[1] < h[i]
    BY <1>2, <1>4, <1>5 DEF Picks
  <2>. QED  BY <1>4, <1>5, <2>1
<1>7. h[1] = 1
  BY <1>3, <1>4, <1>6
<1>8. r[1] = s[1]
  BY <1>2, <1>5, <1>7 DEF Picks
<1>. QED  BY <1>8 DEF r
=============================================================================
