---------------------------- MODULE OwnCallProofs ----------------------------
(***************************************************************************)
(* Theorems about calls that have the provider to themselves, for any      *)
(* callers, processes, mode flags, names and trees: what the daemon's      *)
(* cache is worth, which document a call acts on and what its answer may   *)
(* be trusted for.  The invariant Ground says of every step of such a call *)
(* what is so on the server; it rests on lemmas about paths and the        *)
(* documents at them, by induction over the length of a path.              *)
(***************************************************************************)
EXTENDS RemoteAccessProofs, FiniteSetTheorems, WellFoundedInduction

\* A set of numbers has a least one: among the intervals that end in the set one
\* includes no other, because inclusion of finite sets is well founded.
LEMMA LeastNat ==
  ASSUME NEW T \in SUBSET Nat, T # {}
  PROVE  \E m \in T : \A n \in T : m <= n
<1>1. PICK k \in T : TRUE
  OBVIOUS
<1>. DEFINE U == 1..k
            I == {1..n : n \in {j \in T : j <= k}}
            Less == StrictSubsetOrdering(U)
<1>2. I \subseteq SUBSET U /\ I # {}
  BY <1>1
<1>3. IsWellFoundedOn(Less, SUBSET U)
  <2>1. IsFiniteSet(U)
    BY <1>1, FS_Interval
  <2>. HIDE DEF U
  <2>. QED  BY <2>1, FS_StrictSubsetOrderingWellFounded, FS_FiniteSubsetsOfFinite
<1>4. PICK A \in I : \A B \in I : <<B, A>> \notin Less
  <2>. HIDE DEF I, Less, U
  <2>. QED  BY <1>2, <1>3, WFMin, ZenonT(30)
<1>5. PICK m \in T : m <= k /\ A = 1..m
  BY <1>4
<1>6. ASSUME NEW n \in T, n < m PROVE FALSE
  <2>1. 1..n \in I /\ 1..n \subseteq 1..m /\ 1..n # 1..m
    BY <1>5, <1>6
  <2>2. <<1..n, A>> \in Less
    BY <1>2, <1>5, <2>1 DEF StrictSubsetOrdering
  <2>. QED  BY <1>4, <2>1, <2>2
<1>. QED  BY <1>6

\* Induction, for a set of numbers.
LEMMA NumbersFromZero ==
  ASSUME NEW S, 0 \in S, \A n \in Nat : n \in S => n + 1 \in S
  PROVE  Nat \subseteq S
<1>. SUFFICES ASSUME Nat \ S # {} PROVE FALSE
  OBVIOUS
<1>1. PICK m \in Nat \ S : \A n \in Nat \ S : m <= n
  BY LeastNat
<1>2. m # 0 /\ m - 1 \in Nat
  BY <1>1
<1>3. m - 1 \in S
  BY <1>1, <1>2
<1>. QED  BY <1>1, <1>2, <1>3

LEMMA GreatestIn ==
  ASSUME NEW a \in Nat, NEW b \in Nat, NEW S \in SUBSET (a..b), S # {}
  PROVE  Max(S) \in S /\ \A n \in S : n <= Max(S)
<1>. DEFINE T == {b - n : n \in S}
<1>1. T \in SUBSET Nat /\ T # {}
  <2>1. \A n \in S : b - n \in Nat
    OBVIOUS
  <2>. QED  BY <2>1
<1>2. PICK t \in T : \A u \in T : t <= u
  <2>. HIDE DEF T
  <2>. QED  BY <1>1, LeastNat
<1>3. PICK m \in S : t = b - m
  BY <1>2
<1>4. \A n \in S : m >= n
  BY <1>2, <1>3
<1>. QED  BY <1>4 DEF Max

-----------------------------------------------------------------------------
(* Paths. *)
IsPath(p) == Len(p) \in Nat /\ p = [n \in 1..Len(p) |-> p[n]]

LEMMA PathsArePaths ==
  ASSUME NEW S, NEW p \in Seq(S)
  PROVE  IsPath(p)
BY LenProperties DEF IsPath

LEMMA SamePath ==
  ASSUME NEW p, NEW q, IsPath(p), IsPath(q), Len(p) = Len(q), \A n \in 1..Len(p) : p[n] = q[n]
  PROVE  p = q
BY DEF IsPath

LEMMA PathIsSeq ==
  ASSUME NEW p, IsPath(p)
  PROVE  p \in Seq({p[n] : n \in 1..Len(p)})
<1>. DEFINE S == {p[n] : n \in 1..Len(p)}
<1>1. p \in [1..Len(p) -> S] /\ Len(p) \in Nat
  BY DEF IsPath
<1>. HIDE DEF S
<1>2. p \in Seq(S)
  BY <1>1, SeqDef
<1>. QED  BY <1>2 DEF S

LEMMA PrefixIs ==
  ASSUME NEW p, IsPath(p), NEW n \in 0..Len(p)
  PROVE  /\ IsPath(Prefix(p, n)) /\ Len(Prefix(p, n)) = n
         /\ \A i \in 1..n : Prefix(p, n)[i] = p[i]
<1>. DEFINE S == {p[i] : i \in 1..Len(p)}
            r == SubSeq(p, 1, n)
<1>1. Len(p) \in Nat /\ \A i \in 1..n : p[i] \in S
  BY DEF IsPath
<1>. HIDE DEF S
<1>2. /\ r \in Seq(S) /\ Len(r) = n
      /\ \A i \in 1..n : r[i] = p[i]
  <2>1. /\ SubSeq(p, 1, n) \in Seq(S)
        /\ Len(SubSeq(p, 1, n)) = IF 1 <= n THEN n - 1 + 1 ELSE 0
        /\ \A i \in 1..(n - 1 + 1) : SubSeq(p, 1, n)[i] = p[1 + i - 1]
    BY <1>1, SubSeqProperties
  <2>. HIDE DEF r
  <2>2. r = SubSeq(p, 1, n)
    BY DEF r
  <2>. QED  BY <1>1, <2>1, <2>2
<1>. HIDE DEF r
<1>3. IsPath(r)
  BY <1>2, PathsArePaths
<1>. QED  BY <1>2, <1>3 DEF Prefix, r

LEMMA AppendIs ==
  ASSUME NEW p, IsPath(p), NEW x
  PROVE  /\ IsPath(Append(p, x)) /\ Len(Append(p, x)) = Len(p) + 1
         /\ \A i \in 1..Len(p) : Append(p, x)[i] = p[i]
         /\ Append(p, x)[Len(p) + 1] = x
<1>. DEFINE S == {p[i] : i \in 1..Len(p)} \union {x}
            a == Append(p, x)
<1>1. p \in [1..Len(p) -> S] /\ Len(p) \in Nat /\ x \in S
  BY DEF IsPath
<1>. HIDE DEF S
<1>2. p \in Seq(S)
  BY <1>1, SeqDef
<1>3. /\ a \in Seq(S) /\ Len(a) = Len(p) + 1
      /\ \A i \in 1..Len(p) : a[i] = p[i]
      /\ a[Len(p) + 1] = x
  BY <1>1, <1>2, AppendProperties
<1>. HIDE DEF a
<1>4. IsPath(a)
  BY <1>3, PathsArePaths
<1>. QED  BY <1>3, <1>4 DEF a

LEMMA PrefixOfPrefix ==
  ASSUME NEW p, IsPath(p), NEW n \in 0..Len(p), NEW m \in 0..n
  PROVE  Prefix(Prefix(p, n), m) = Prefix(p, m)
<1>. Len(p) \in Nat /\ m \in 0..Len(p)
  BY DEF IsPath
<1>1. /\ IsPath(Prefix(p, n)) /\ Len(Prefix(p, n)) = n
      /\ \A i \in 1..n : Prefix(p, n)[i] = p[i]
  BY PrefixIs
<1>2. /\ IsPath(Prefix(p, m)) /\ Len(Prefix(p, m)) = m
      /\ \A i \in 1..m : Prefix(p, m)[i] = p[i]
  BY PrefixIs
<1>. DEFINE r == Prefix(p, n)
<1>. HIDE DEF r
<1>3. /\ IsPath(Prefix(r, m)) /\ Len(Prefix(r, m)) = m
      /\ \A i \in 1..m : Prefix(r, m)[i] = r[i]
  BY <1>1, PrefixIs DEF r
<1>4. \A i \in 1..m : Prefix(r, m)[i] = Prefix(p, m)[i]
  BY <1>1, <1>2, <1>3 DEF r
<1>5. Prefix(r, m) = Prefix(p, m)
  BY <1>2, <1>3, <1>4, SamePath
<1>. QED  BY <1>5 DEF r

LEMMA WholePrefix ==
  ASSUME NEW p, IsPath(p)
  PROVE  Prefix(p, Len(p)) = p
<1>. Len(p) \in 0..Len(p)
  BY DEF IsPath
<1>. QED  BY PrefixIs, SamePath

LEMMA PrefixOfAppend ==
  ASSUME NEW p, IsPath(p), NEW x
  PROVE  Prefix(Append(p, x), Len(p)) = p
<1>1. /\ IsPath(Append(p, x)) /\ Len(Append(p, x)) = Len(p) + 1
      /\ \A i \in 1..Len(p) : Append(p, x)[i] = p[i]
  BY AppendIs
<1>. Len(p) \in 0..(Len(p) + 1)
  BY DEF IsPath
<1>. DEFINE r == Append(p, x)
<1>. HIDE DEF r
<1>2. /\ IsPath(Prefix(r, Len(p))) /\ Len(Prefix(r, Len(p))) = Len(p)
      /\ \A i \in 1..Len(p) : Prefix(r, Len(p))[i] = r[i]
  BY <1>1, PrefixIs DEF r
<1>3. Prefix(r, Len(p)) = p
  BY <1>1, <1>2, SamePath DEF r
<1>. QED  BY <1>3 DEF r

LEMMA EmptyPath ==
  /\ IsPath(<<>>) /\ Len(<<>>) = 0
  /\ \A p : IsPath(p) /\ Len(p) = 0 => p = <<>>
  /\ \A p : IsPath(p) => Prefix(p, 0) = <<>>
<1>1. IsPath(<<>>) /\ Len(<<>>) = 0
  BY EmptySeq, PathsArePaths
<1>2. ASSUME NEW p, IsPath(p), Len(p) = 0 PROVE p = <<>>
  BY <1>1, <1>2, SamePath
<1>3. ASSUME NEW p, IsPath(p) PROVE Prefix(p, 0) = <<>>
  <2>. 0 \in 0..Len(p)
    BY <1>3 DEF IsPath
  <2>. QED  BY <1>2, <1>3, PrefixIs
<1>. QED  BY <1>1, <1>2, <1>3

\* The parent of a path and its last name.
LEMMA ParentIs ==
  ASSUME NEW p, IsPath(p)
  PROVE  /\ IsPath(Parent(p))
         /\ p # <<>> => /\ Len(p) \in Nat \ {0} /\ Parent(p) = Prefix(p, Len(p) - 1)
                        /\ Len(Parent(p)) = Len(p) - 1 /\ p = Append(Parent(p), Base(p))
<1>1. CASE p = <<>>
  BY <1>1, EmptyPath DEF Parent
<1>2. CASE p # <<>>
  <2>1. Len(p) \in Nat \ {0} /\ Len(p) - 1 \in 0..Len(p)
    BY <1>2, EmptyPath DEF IsPath
  <2>2. Parent(p) = Prefix(p, Len(p) - 1)
    BY <1>2 DEF Parent, Prefix
  <2>. DEFINE r == Parent(p)
  <2>. HIDE DEF r
  <2>3. /\ IsPath(r) /\ Len(r) = Len(p) - 1
        /\ \A i \in 1..(Len(p) - 1) : r[i] = p[i]
    BY <2>1, <2>2, PrefixIs DEF r
  <2>4. /\ IsPath(Append(r, Base(p))) /\ Len(Append(r, Base(p))) = Len(p)
        /\ \A i \in 1..(Len(p) - 1) : Append(r, Base(p))[i] = p[i]
        /\ Append(r, Base(p))[Len(p)] = p[Len(p)]
    BY <2>1, <2>3, AppendIs DEF Base
  <2>5. \A i \in 1..Len(p) : i \in 1..(Len(p) - 1) \/ i = Len(p)
    BY <2>1
  <2>6. p = Append(r, Base(p))
    BY <2>4, <2>5, SamePath
  <2>. QED  BY <2>1, <2>2, <2>3, <2>6 DEF r
<1>. QED  BY <1>1, <1>2

-----------------------------------------------------------------------------
(* The document at a path. *)

LEMMA AtRoot ==
  ASSUME NEW d
  PROVE  At(d, <<>>) = {Root}
<1>. DEFINE W == Ways(d, <<>>)
            v == [n \in 0..0 |-> Root]
<1>1. Len(<<>>) = 0
  BY EmptyPath
<1>2. \A w \in W : w[0] = Root
  BY DEF Ways
<1>3. v \in W
  BY <1>1 DEF Ways
<1>4. v[0] = Root
  OBVIOUS
<1>. HIDE DEF W, v
<1>5. {w[0] : w \in W} = {Root}
  BY <1>2, <1>3, <1>4
<1>. QED  BY <1>1, <1>5 DEF At, W

\* What is at a path is live and has the last name, in what is at the path above.
LEMMA AtStep ==
  ASSUME NEW d, NEW p, IsPath(p), NEW n \in Nat, Len(p) = n + 1, NEW i
  PROVE  i \in At(d, p) <=> i \in NamedIn(d, d[i].up, p[n + 1]) /\ d[i].up \in At(d, Prefix(p, n))
<1>. DEFINE r == Prefix(p, n)
            A(q) == {j \in Live(d) : \E m \in 1..Len(q) : d[j].name = q[m]}
<1>1. IsPath(r) /\ Len(r) = n /\ \A m \in 1..n : r[m] = p[m]
  BY PrefixIs
<1>. HIDE DEF r
<1>2. ASSUME i \in At(d, p)
      PROVE  i \in NamedIn(d, d[i].up, p[n + 1]) /\ d[i].up \in At(d, r)
  <2>1. PICK w \in Ways(d, p) : i = w[n + 1]
    BY <1>2 DEF At
  <2>2. w[0] = Root /\ \A m \in 1..(n + 1) : w[m] \in NamedIn(d, w[m - 1], p[m])
    BY <2>1 DEF Ways
  <2>3. i \in NamedIn(d, w[n], p[n + 1])
    BY <2>1, <2>2
  <2>4. d[i].up = w[n]
    BY <2>3 DEF NamedIn, Children
  <2>. DEFINE v == [m \in 0..n |-> w[m]]
  <2>5. v[0] = Root /\ \A m \in 1..n : v[m] \in NamedIn(d, v[m - 1], r[m])
    BY <1>1, <2>2
  <2>6. \A m \in 0..n : v[m] \in {Root} \union A(r)
    <3>1. ASSUME NEW m \in 1..n PROVE v[m] \in A(r)
      BY <1>1, <2>5 DEF NamedIn, Children
    <3>2. \A m \in 0..n : m = 0 \/ m \in 1..n
      OBVIOUS
    <3>. HIDE DEF A, v
    <3>. QED  BY <2>5, <3>1, <3>2
  <2>7. v \in [0..n -> {Root} \union A(r)]
    BY <2>6
  <2>. HIDE DEF v
  <2>8. v \in Ways(d, r)
    BY <1>1, <2>5, <2>7 DEF Ways
  <2>9. v[n] = w[n]
    BY DEF v
  <2>. QED  BY <1>1, <2>3, <2>4, <2>8, <2>9 DEF At
<1>3. ASSUME i \in NamedIn(d, d[i].up, p[n + 1]), d[i].up \in At(d, r)
      PROVE  i \in At(d, p)
  <2>1. PICK v \in Ways(d, r) : d[i].up = v[n]
    BY <1>1, <1>3 DEF At
  <2>2. v[0] = Root /\ \A m \in 1..n : v[m] \in NamedIn(d, v[m - 1], p[m])
    BY <1>1, <2>1 DEF Ways
  <2>. DEFINE w == [m \in 0..(n + 1) |-> IF m = n + 1 THEN i ELSE v[m]]
  <2>3. w[0] = Root /\ w[n + 1] = i /\ \A m \in 1..(n + 1) : w[m] \in NamedIn(d, w[m - 1], p[m])
    <3>1. w[n + 1] \in NamedIn(d, w[n], p[n + 1]) /\ w[0] = Root
      BY <1>3, <2>1, <2>2
    <3>2. ASSUME NEW m \in 1..n PROVE w[m] \in NamedIn(d, w[m - 1], p[m])
      BY <2>2
    <3>. QED  BY <3>1, <3>2
  <2>4. \A m \in 0..(n + 1) : w[m] \in {Root} \union A(p)
    <3>1. ASSUME NEW m \in 1..(n + 1) PROVE w[m] \in A(p)
      BY <2>3 DEF NamedIn, Children
    <3>2. \A m \in 0..(n + 1) : m = 0 \/ m \in 1..(n + 1)
      OBVIOUS
    <3>. HIDE DEF A, w
    <3>. QED  BY <2>3, <3>1, <3>2
  <2>5. w \in [0..(n + 1) -> {Root} \union A(p)]
    BY <2>4
  <2>. HIDE DEF w
  <2>6. w \in Ways(d, p)
    BY <2>3, <2>5 DEF Ways
  <2>. QED  BY <2>3, <2>6 DEF At
<1>. QED  BY <1>2, <1>3 DEF r

\* The same, for the name after a path.
LEMMA AtNext ==
  ASSUME NEW d, NEW p, IsPath(p), NEW x, NEW i
  PROVE  i \in At(d, Append(p, x)) <=> i \in NamedIn(d, d[i].up, x) /\ d[i].up \in At(d, p)
<1>1. /\ IsPath(Append(p, x)) /\ Len(Append(p, x)) = Len(p) + 1 /\ Append(p, x)[Len(p) + 1] = x
      /\ Prefix(Append(p, x), Len(p)) = p /\ Len(p) \in Nat
  BY AppendIs, PrefixOfAppend DEF IsPath
<1>. DEFINE r == Append(p, x)
<1>. HIDE DEF r
<1>2. i \in At(d, r) <=> i \in NamedIn(d, d[i].up, r[Len(p) + 1]) /\ d[i].up \in At(d, Prefix(r, Len(p)))
  BY <1>1, AtStep DEF r
<1>. QED  BY <1>1, <1>2 DEF r

\* A path leads to one document at most.
LEMMA OneAtPath ==
  ASSUME NEW d, IsTree(d), NEW p, IsPath(p), NEW i \in At(d, p), NEW j \in At(d, p)
  PROVE  i = j
<1>. DEFINE S == {n \in Nat : \A q : IsPath(q) /\ Len(q) = n =>
                                \A a, b \in At(d, q) : a = b}
<1>1. 0 \in S
  BY AtRoot, EmptyPath
<1>2. ASSUME NEW n \in Nat, n \in S PROVE n + 1 \in S
  <2>. SUFFICES ASSUME NEW q, IsPath(q), Len(q) = n + 1, NEW a \in At(d, q), NEW b \in At(d, q)
                PROVE  a = b
    OBVIOUS
  <2>1. /\ a \in NamedIn(d, d[a].up, q[n + 1]) /\ d[a].up \in At(d, Prefix(q, n))
        /\ b \in NamedIn(d, d[b].up, q[n + 1]) /\ d[b].up \in At(d, Prefix(q, n))
    BY AtStep
  <2>2. IsPath(Prefix(q, n)) /\ Len(Prefix(q, n)) = n
    BY PrefixIs
  <2>3. d[a].up = d[b].up
    BY <1>2, <2>1, <2>2
  <2>. QED  BY <2>1, <2>3, TreeIsEach DEF EachInPlace, NamedIn, Children
<1>. HIDE DEF S
<1>3. Len(p) \in S
  BY <1>1, <1>2, NumbersFromZero DEF IsPath
<1>. QED  BY <1>3 DEF S

\* What is at a path is the root or live.
LEMMA AtIsThere ==
  ASSUME NEW d, NEW p, IsPath(p), NEW i \in At(d, p)
  PROVE  IF p = <<>> THEN i = Root ELSE i \in Live(d)
<1>1. CASE p = <<>>
  BY <1>1, AtRoot
<1>2. CASE p # <<>>
  BY <1>2, AtIsLive, EmptyPath DEF IsPath
<1>. QED  BY <1>1, <1>2

\* A document is at one path at most.
LEMMA OnePath ==
  ASSUME NEW d, NEW p, IsPath(p), NEW q, IsPath(q), NEW i \in At(d, p), i \in At(d, q)
  PROVE  p = q
<1>. DEFINE S == {n \in Nat : \A r, s : IsPath(r) /\ IsPath(s) /\ Len(r) = n =>
                                \A a : a \in At(d, r) /\ a \in At(d, s) => r = s}
<1>0. Root \notin Live(d)
  BY DEF Live, Root
<1>1. 0 \in S
  BY <1>0, AtIsThere, EmptyPath
<1>2. ASSUME NEW n \in Nat, n \in S PROVE n + 1 \in S
  <2>. SUFFICES ASSUME NEW r, NEW s, IsPath(r), IsPath(s), Len(r) = n + 1,
                       NEW a \in At(d, r), a \in At(d, s)
                PROVE  r = s
    OBVIOUS
  <2>1. r # <<>>
    BY EmptyPath
  <2>2. a \in Live(d) /\ s # <<>>
    BY <1>0, <2>1, AtIsThere
  <2>3. PICK m \in Nat : Len(s) = m + 1
    <3>. Len(s) \in Nat /\ Len(s) # 0
      BY <2>2, EmptyPath DEF IsPath
    <3>. QED  OBVIOUS
  <2>4. /\ a \in NamedIn(d, d[a].up, r[n + 1]) /\ d[a].up \in At(d, Prefix(r, n))
        /\ a \in NamedIn(d, d[a].up, s[m + 1]) /\ d[a].up \in At(d, Prefix(s, m))
    BY <2>3, AtStep
  <2>5. /\ IsPath(Prefix(r, n)) /\ Len(Prefix(r, n)) = n /\ \A k \in 1..n : Prefix(r, n)[k] = r[k]
        /\ IsPath(Prefix(s, m)) /\ Len(Prefix(s, m)) = m /\ \A k \in 1..m : Prefix(s, m)[k] = s[k]
    BY <2>3, PrefixIs
  <2>6. Prefix(r, n) = Prefix(s, m)
    BY <1>2, <2>4, <2>5
  <2>7. n = m /\ r[n + 1] = s[m + 1]
    BY <2>4, <2>5, <2>6 DEF NamedIn
  <2>8. \A k \in 1..(n + 1) : r[k] = s[k]
    BY <2>5, <2>6, <2>7
  <2>. QED  BY <2>3, <2>7, <2>8, SamePath
<1>. HIDE DEF S
<1>3. Len(p) \in S
  BY <1>1, <1>2, NumbersFromZero DEF IsPath
<1>. QED  BY <1>3 DEF S

\* On the way down to what is at a path there is something at every path above.
LEMMA AtAbove ==
  ASSUME NEW d, NEW p, IsPath(p), At(d, p) # {}, NEW n \in 0..Len(p)
  PROVE  At(d, Prefix(p, n)) # {}
<1>. DEFINE S == {m \in Nat : m <= Len(p) => At(d, Prefix(p, Len(p) - m)) # {}}
<1>0. Len(p) \in Nat
  BY DEF IsPath
<1>1. 0 \in S
  BY <1>0, WholePrefix
<1>2. ASSUME NEW m \in Nat, m \in S PROVE m + 1 \in S
  <2>. SUFFICES ASSUME m + 1 <= Len(p) PROVE At(d, Prefix(p, Len(p) - (m + 1))) # {}
    OBVIOUS
  <2>. DEFINE k == Len(p) - (m + 1)
              r == Prefix(p, k + 1)
  <2>1. k \in Nat /\ k + 1 \in 0..Len(p) /\ k + 1 = Len(p) - m
    BY <1>0
  <2>. HIDE DEF k
  <2>2. IsPath(r) /\ Len(r) = k + 1 /\ Prefix(r, k) = Prefix(p, k)
    BY <2>1, PrefixIs, PrefixOfPrefix
  <2>3. At(d, r) # {}
    BY <1>2, <2>1
  <2>. HIDE DEF r
  <2>4. PICK a : a \in At(d, r)
    BY <2>3
  <2>5. d[a].up \in At(d, Prefix(r, k))
    BY <2>1, <2>2, <2>4, AtStep
  <2>. QED  BY <2>2, <2>5 DEF k
<1>. HIDE DEF S
<1>3. Len(p) - n \in S /\ Len(p) - n <= Len(p) /\ Len(p) - (Len(p) - n) = n
  BY <1>0, <1>1, <1>2, NumbersFromZero
<1>. QED  BY <1>3 DEF S
-----------------------------------------------------------------------------
(* What an operation leaves in its place. *)

LEMMA BelowPrefix ==
  ASSUME NEW p, IsPath(p), NEW n \in 0..Len(p), NEW top, IsPath(top), Below(Prefix(p, n), top)
  PROVE  Below(p, top)
<1>1. Len(Prefix(p, n)) = n /\ Len(top) \in Nat /\ Len(p) \in Nat
  BY PrefixIs DEF IsPath
<1>2. Len(top) \in 0..n /\ Prefix(Prefix(p, n), Len(top)) = top
  BY <1>1 DEF Below
<1>3. Prefix(p, Len(top)) = top
  BY <1>2, PrefixOfPrefix
<1>. QED  BY <1>1, <1>2, <1>3 DEF Below

LEMMA BelowItself ==
  ASSUME NEW p, IsPath(p)
  PROVE  Below(p, p)
BY WholePrefix DEF Below, IsPath

LEMMA BelowNext ==
  ASSUME NEW p, IsPath(p), NEW top, IsPath(top), Below(p, top), NEW x
  PROVE  Below(Append(p, x), top)
<1>1. /\ IsPath(Append(p, x)) /\ Len(p) \in 0..Len(Append(p, x)) /\ Prefix(Append(p, x), Len(p)) = p
  BY AppendIs, PrefixOfAppend DEF IsPath
<1>. DEFINE r == Append(p, x)
<1>. HIDE DEF r
<1>2. Below(r, top)
  BY <1>1, BelowPrefix DEF r
<1>. QED  BY <1>2 DEF r

LEMMA ParentAbove ==
  ASSUME NEW p, IsPath(p), p # <<>>
  PROVE  ~Below(Parent(p), p)
BY ParentIs DEF Below, IsPath

\* The documents at a path and below it.
Under(d, top) == {i \in Live(d) : \E p : IsPath(p) /\ Below(p, top) /\ i \in At(d, p)}

\* The document at a path and the ones above it are none of a set.
Avoids(d, path, X) == \A n \in 0..Len(path) : At(d, Prefix(path, n)) \intersect X = {}

LEMMA NotUnder ==
  ASSUME NEW d, NEW path, IsPath(path), NEW top, IsPath(top), ~Below(path, top)
  PROVE  Avoids(d, path, Under(d, top))
<1>. SUFFICES ASSUME NEW n \in 0..Len(path), NEW i \in At(d, Prefix(path, n)), i \in Under(d, top)
              PROVE  FALSE
  BY DEF Avoids
<1>1. PICK p : IsPath(p) /\ Below(p, top) /\ i \in At(d, p)
  BY DEF Under
<1>2. p = Prefix(path, n)
  BY <1>1, PrefixIs, OnePath
<1>. QED  BY <1>1, <1>2, BelowPrefix

\* What avoids the documents that are changed stays where it is.
LEMMA Untouched ==
  ASSUME NEW d, NEW a, Len(d) \in Nat, Len(a) \in Nat, Len(d) <= Len(a), NEW X,
         \A i \in Live(d) \ X : a[i] = d[i],
         NEW path, IsPath(path), Avoids(d, path, X), NEW i \in At(d, path)
  PROVE  i \in At(a, path) /\ (path # <<>> => a[i] = d[i])
<1>. DEFINE S == {n \in Nat : n <= Len(path) =>
                    \A j \in At(d, Prefix(path, n)) :
                      j \in At(a, Prefix(path, n)) /\ (n # 0 => a[j] = d[j])}
<1>0. Len(path) \in Nat
  BY DEF IsPath
<1>1. 0 \in S
  BY AtRoot, EmptyPath
<1>2. ASSUME NEW n \in Nat, n \in S PROVE n + 1 \in S
  <2>. SUFFICES ASSUME n + 1 <= Len(path), NEW j \in At(d, Prefix(path, n + 1))
                PROVE  j \in At(a, Prefix(path, n + 1)) /\ a[j] = d[j]
    OBVIOUS
  <2>. n + 1 \in 0..Len(path)
    BY <1>0
  <2>. DEFINE r == Prefix(path, n + 1)
  <2>1. IsPath(r) /\ Len(r) = n + 1 /\ Prefix(r, n) = Prefix(path, n)
    BY <1>0, PrefixIs, PrefixOfPrefix
  <2>2. j \in At(d, r) /\ j \notin X
    BY <1>0 DEF Avoids
  <2>. HIDE DEF r
  <2>3. j \in NamedIn(d, d[j].up, r[n + 1]) /\ d[j].up \in At(d, Prefix(path, n))
    BY <2>1, <2>2, AtStep
  <2>4. j \in Live(d) /\ d[j].name = r[n + 1]
    BY <2>3 DEF NamedIn, Children
  <2>5. a[j] = d[j]
    BY <2>2, <2>4
  <2>6. j \in NamedIn(a, a[j].up, r[n + 1])
    BY <2>4, <2>5 DEF NamedIn, Children, Live
  <2>7. a[j].up \in At(a, Prefix(r, n))
    BY <1>0, <1>2, <2>1, <2>3, <2>5
  <2>8. j \in At(a, r)
    BY <2>1, <2>6, <2>7, AtStep
  <2>. QED  BY <2>5, <2>8 DEF r
<1>. HIDE DEF S
<1>3. Len(path) \in S
  BY <1>0, <1>1, <1>2, NumbersFromZero
<1>4. Prefix(path, Len(path)) = path /\ (path # <<>> => Len(path) # 0)
  BY WholePrefix, EmptyPath
<1>. QED  BY <1>0, <1>3, <1>4 DEF S

\* What is in a directory tree is at the path of its top or below.
LEMMA WithinIsUnder ==
  ASSUME NEW d, NEW top, IsPath(top), NEW src \in At(d, top), src \in Live(d),
         NEW i \in Live(d), Within(d, i, src)
  PROVE  i \in Under(d, top)
<1>. DEFINE U == Under(d, top)
<1>1. U \in SUBSET Live(d) /\ src \in U
  BY BelowItself DEF Under
<1>2. ASSUME NEW j \in Live(d), d[j].up \in U PROVE j \in U
  <2>1. PICK p : IsPath(p) /\ Below(p, top) /\ d[j].up \in At(d, p)
    BY <1>2 DEF Under
  <2>2. j \in At(d, Append(p, d[j].name))
    BY <2>1, AtNext DEF NamedIn, Children
  <2>3. IsPath(Append(p, d[j].name)) /\ Below(Append(p, d[j].name), top)
    BY <2>1, AppendIs, BelowNext
  <2>. QED  BY <2>2, <2>3 DEF Under
<1>. HIDE DEF U
<1>3. i \in U
  BY <1>1, <1>2 DEF Within
<1>. QED  BY <1>3 DEF U

\* And what is below the path of its top is in the tree.
LEMMA UnderIsWithin ==
  ASSUME NEW d, IsTree(d), NEW top, IsPath(top), NEW src \in At(d, top),
         NEW p, IsPath(p), Below(p, top), NEW i \in At(d, p)
  PROVE  Within(d, i, src)
<1>. SUFFICES ASSUME NEW tree \in SUBSET Live(d), src \in tree,
                     \A j \in Live(d) : d[j].up \in tree => j \in tree
              PROVE  i \in tree
  BY DEF Within
<1>. DEFINE m == Len(top)
            S == {n \in Nat : m + n <= Len(p) => At(d, Prefix(p, m + n)) \subseteq tree}
<1>0. m \in Nat /\ Len(p) \in Nat /\ m <= Len(p) /\ Prefix(p, m) = top
  BY DEF Below, IsPath
<1>1. 0 \in S
  BY <1>0, OneAtPath
<1>2. ASSUME NEW n \in Nat, n \in S PROVE n + 1 \in S
  <2>. SUFFICES ASSUME m + (n + 1) <= Len(p), NEW j \in At(d, Prefix(p, m + (n + 1)))
                PROVE  j \in tree
    OBVIOUS
  <2>. DEFINE k == m + n
              r == Prefix(p, k + 1)
  <2>1. k \in Nat /\ k + 1 \in 0..Len(p) /\ m + (n + 1) = k + 1
    BY <1>0
  <2>2. At(d, Prefix(p, k)) \subseteq tree
    BY <1>0, <1>2
  <2>. HIDE DEF k
  <2>3. IsPath(r) /\ Len(r) = k + 1 /\ Prefix(r, k) = Prefix(p, k) /\ j \in At(d, r)
    BY <2>1, PrefixIs, PrefixOfPrefix
  <2>. HIDE DEF r
  <2>4. j \in NamedIn(d, d[j].up, r[k + 1]) /\ d[j].up \in At(d, Prefix(p, k))
    BY <2>1, <2>3, AtStep
  <2>. QED  BY <2>2, <2>4 DEF NamedIn, Children
<1>. HIDE DEF S
<1>3. Len(p) - m \in S /\ m + (Len(p) - m) = Len(p)
  BY <1>0, <1>1, <1>2, NumbersFromZero
<1>. QED  BY <1>0, <1>3, WholePrefix DEF S
-----------------------------------------------------------------------------
(* What the server's operations do to the paths. *)

\* Nothing that was there is changed by what only adds.
LEMMA AddedElsewhere ==
  ASSUME NEW d, NEW a, Len(d) \in Nat, Len(a) \in Nat, Len(d) <= Len(a),
         \A i \in 1..Len(d) : a[i] = d[i], NEW p, IsPath(p)
  PROVE  At(d, p) \subseteq At(a, p) /\ \A i \in At(d, p) : p # <<>> => a[i] = d[i]
<1>1. (\A i \in Live(d) \ {} : a[i] = d[i]) /\ Avoids(d, p, {})
  BY LiveIn DEF Avoids
<1>. QED  BY <1>1, Untouched

\* What else than the document at top and what is below it is changed stays where it is.
LEMMA ChangedBelow ==
  ASSUME NEW d, NEW a, Len(d) \in Nat, Len(a) \in Nat, Len(d) <= Len(a), NEW top, IsPath(top),
         \A i \in Live(d) : a[i] = d[i] \/ i \in Under(d, top),
         NEW p, IsPath(p), ~Below(p, top)
  PROVE  At(d, p) \subseteq At(a, p) /\ \A i \in At(d, p) : p # <<>> => a[i] = d[i]
<1>1. (\A i \in Live(d) \ Under(d, top) : a[i] = d[i]) /\ Avoids(d, p, Under(d, top))
  BY NotUnder
<1>. QED  BY <1>1, Untouched

\* a has more than d what was made: a new document, or new content of the one there.
LeavesMade(d, a, up, name, dir, size, dup) ==
  /\ Len(a) \in {Len(d), Len(d) + 1}
  /\ Len(a) = Len(d) + 1 => /\ \A i \in 1..Len(d) : a[i] = d[i]
                            /\ Len(a) \in Live(a) /\ a[Len(a)].up = up
                            /\ a[Len(a)].dir = dir /\ a[Len(a)].size = size
                            /\ dup # 2 => a[Len(a)].name = name
  /\ Len(a) = Len(d) => /\ dup = 3 /\ NamedIn(d, up, name) # {}
                        /\ LET r == OneOf(NamedIn(d, up, name)) IN
                           r \in Live(a) /\ a[r].up = up /\ a[r].name = name /\ a[r].size = size

\* What a post that makes a document leaves: the document, under its name.
LEMMA CreatedThere ==
  ASSUME NEW d, AreDocs(d), IsTree(d), NEW up, NEW name, NEW dir \in BOOLEAN, NEW size, NEW dup,
         Created(d, up, name, dir, size, dup) # Refused
  PROVE  LeavesMade(d, Created(d, up, name, dir, size, dup), up, name, dir, size, dup)
<1>. DEFINE a == Created(d, up, name, dir, size, dup)
            same == NamedIn(d, up, name)
<1>. SUFFICES LeavesMade(d, a, up, name, dir, size, dup)
  OBVIOUS
<1>. Directory(d, up)
  BY DEF Created
<1>0. up \in 0..Len(d) /\ up # Gone /\ Len(d) \in Nat
  BY DirectoriesAreIn DEF AreDocs
<1>1. ASSUME NEW n, a = Append(d, Doc(up, n, dir, size))
      PROVE  /\ Len(a) = Len(d) + 1 /\ \A i \in 1..Len(d) : a[i] = d[i]
             /\ Len(a) \in Live(a) /\ a[Len(a)].up = up /\ a[Len(a)].dir = dir /\ a[Len(a)].size = size
             /\ a[Len(a)].name = n
  <2>. DEFINE e == Doc(up, n, dir, size)
  <2>1. DOMAIN e = DocFields /\ e.up = up /\ e.name = n /\ e.dir = dir /\ e.size = size
    BY DEF Doc, DocFields
  <2>. HIDE DEF e, a
  <2>2. /\ Len(a) = Len(d) + 1 /\ \A i \in 1..Len(d) : a[i] = d[i]
        /\ a[Len(d) + 1] = e
    BY <1>1, <2>1, DocsAppended DEF e
  <2>. QED  BY <1>0, <2>1, <2>2 DEF Live
<1>2. CASE same = {}
  <2>. a = Append(d, Doc(up, name, dir, size))
    BY <1>0, <1>2 DEF Created
  <2>. HIDE DEF a
  <2>. QED  BY <1>0, <1>1 DEF a, LeavesMade
<1>3. CASE same # {} /\ dup = 2
  <2>. FreeNames(d, up) # {} /\ a = Append(d, Doc(up, FreeName(d, up), dir, size))
    BY <1>0, <1>3 DEF Created
  <2>. HIDE DEF a
  <2>. QED  BY <1>0, <1>1, <1>3 DEF a, LeavesMade
<1>4. CASE same # {} /\ dup # 2
  <2>. DEFINE r == OneOf(same)
  <2>0. dup = 3 /\ ~dir /\ a = [d EXCEPT ![r].size = size]
    <3>1. dup = 3 /\ ~dir /\ \A i \in same : ~d[i].dir
      BY <1>4 DEF Created
    <3>. QED  BY <1>4, <3>1 DEF Created
  <2>1. r \in same
    BY <1>4 DEF OneOf
  <2>2. r \in Live(d) /\ d[r].up = up /\ d[r].name = name /\ r \in 1..Len(d)
    BY <2>1, LiveIn DEF NamedIn, Children
  <2>. HIDE DEF r, a
  <2>3. /\ a = [i \in 1..Len(d) |-> a[i]]
        /\ \A i \in 1..Len(d) : DOMAIN a[i] = DocFields /\ a[i].dir = d[i].dir
        /\ a[r].up = up /\ a[r].name = name /\ a[r].size = size
    BY <2>0, <2>2 DEF AreDocs, DocFields
  <2>4. Len(a) = Len(d)
    BY <2>3, DocsChanged DEF AreDocs
  <2>5. r \in Live(a)
    BY <1>0, <2>2, <2>3, <2>4 DEF Live
  <2>. QED  BY <1>0, <1>4, <2>0, <2>3, <2>4, <2>5 DEF a, r, LeavesMade
<1>. QED  BY <1>2, <1>3, <1>4

\* Removed is what is at a path, with all below it.
LEMMA DeletedThere ==
  ASSUME NEW d, AreDocs(d), IsTree(d), NEW top, IsPath(top), NEW src \in At(d, top),
         Deleted(d, src) # Refused
  PROVE  LET a == Deleted(d, src) IN
         /\ top # <<>> /\ Len(a) = Len(d) /\ At(a, top) = {}
         /\ \A i \in Live(d) : a[i] = d[i] \/ i \in Under(d, top)
<1>. DEFINE a == Deleted(d, src)
            gone(i) == i \in Live(d) /\ Within(d, i, src)
<1>1. src \in Live(d) /\ a = [i \in DOMAIN d |-> IF gone(i) THEN [d[i] EXCEPT !.up = Gone] ELSE d[i]]
  BY DEF Deleted
<1>2. AreDocs(a) /\ IsTree(a) /\ Len(a) = Len(d)
  BY DeletedKeeps
<1>3. DOMAIN d = 1..Len(d) /\ Len(d) \in Nat
  BY DEF AreDocs
<1>4. gone(src)
  BY <1>1 DEF Within
<1>5. \A i \in Live(d) : a[i] = d[i] \/ i \in Under(d, top)
  BY <1>1, <1>3, LiveIn, WithinIsUnder
<1>6. /\ \A i \in 1..Len(d) : DOMAIN d[i] = DocFields
      /\ \A i \in 1..Len(d) : a[i] = IF gone(i) THEN [d[i] EXCEPT !.up = Gone] ELSE d[i]
  BY <1>1, <1>3 DEF AreDocs
<1>. HIDE DEF a, gone
<1>7. /\ \A i \in 1..Len(d) : gone(i) => a[i].up = Gone
      /\ \A i \in 1..Len(d) : ~gone(i) => a[i] = d[i]
  BY <1>6 DEF DocFields
<1>8. top # <<>>
  <2>. Root \notin Live(d)
    BY DEF Live, Root
  <2>. QED  BY <1>1, AtRoot
<1>9. ASSUME NEW j \in At(a, top) PROVE FALSE
  <2>. DEFINE up == Parent(top)
  <2>1. IsPath(up) /\ top = Append(up, Base(top)) /\ ~Below(up, top)
    BY <1>8, ParentIs, ParentAbove
  <2>. HIDE DEF up
  <2>2. src \in NamedIn(d, d[src].up, Base(top)) /\ d[src].up \in At(d, up)
    BY <2>1, AtNext
  <2>3. d[src].up \in At(a, up)
    BY <1>2, <1>3, <1>5, <2>1, <2>2, ChangedBelow
  <2>4. j \in NamedIn(a, a[j].up, Base(top)) /\ a[j].up \in At(a, up)
    BY <1>9, <2>1, AtNext
  <2>5. a[j].up = d[src].up
    BY <1>2, <2>1, <2>3, <2>4, OneAtPath
  <2>6. j \in Live(a) /\ j \in 1..Len(d) /\ a[j].name = Base(top)
    BY <1>2, <2>4, LiveIn DEF NamedIn, Children
  <2>7. ~gone(j) /\ a[j] = d[j]
    BY <1>7, <2>6 DEF Live
  <2>8. j \in NamedIn(d, d[src].up, Base(top))
    BY <1>3, <2>5, <2>6, <2>7 DEF NamedIn, Children, Live
  <2>9. j = src
    BY <2>2, <2>8, TreeIsEach DEF EachInPlace, NamedIn, Children
  <2>. QED  BY <1>4, <2>7, <2>9
<1>. QED  BY <1>2, <1>5, <1>8, <1>9 DEF a

\* Renamed is what is at a path; the path it had then leads nowhere.
LEMMA RenamedThere ==
  ASSUME NEW d, AreDocs(d), IsTree(d), NEW top, IsPath(top), NEW src \in At(d, top), NEW name,
         Renamed(d, src, name) # Refused
  PROVE  LET a == Renamed(d, src, name) IN
         /\ top # <<>> /\ Len(a) = Len(d)
         /\ \A i \in Live(d) : a[i] = d[i] \/ i \in Under(d, top)
         /\ src \in At(a, Append(Parent(top), name))
         /\ name # Base(top) => At(a, top) = {}
<1>. DEFINE a == Renamed(d, src, name)
            up == Parent(top)
<1>1. src \in Live(d) /\ a = [d EXCEPT ![src].name = name]
  BY DEF Renamed
<1>2. AreDocs(a) /\ IsTree(a) /\ Len(a) = Len(d)
  BY RenamedKeeps
<1>3. DOMAIN d = 1..Len(d) /\ Len(d) \in Nat /\ src \in 1..Len(d) /\ DOMAIN d[src] = DocFields
  BY <1>1, LiveIn DEF AreDocs
<1>. HIDE DEF a
<1>4. /\ \A i \in 1..Len(d) \ {src} : a[i] = d[i]
      /\ a[src].name = name /\ a[src].up = d[src].up
  BY <1>1, <1>3 DEF DocFields
<1>5. src \in Under(d, top)
  BY <1>1, BelowItself DEF Under
<1>6. \A i \in Live(d) : a[i] = d[i] \/ i \in Under(d, top)
  BY <1>4, <1>5, LiveIn
<1>7. top # <<>>
  <2>. Root \notin Live(d)
    BY DEF Live, Root
  <2>. QED  BY <1>1, AtRoot
<1>8. IsPath(up) /\ top = Append(up, Base(top)) /\ ~Below(up, top)
  BY <1>7, ParentIs, ParentAbove
<1>. HIDE DEF up
<1>9. src \in NamedIn(d, d[src].up, Base(top)) /\ d[src].up \in At(d, up)
  BY <1>8, AtNext
<1>10. a[src].up \in At(a, up)
  BY <1>2, <1>3, <1>4, <1>6, <1>8, <1>9, ChangedBelow
<1>11. src \in NamedIn(a, a[src].up, name)
  BY <1>1, <1>2, <1>3, <1>4 DEF NamedIn, Children, Live
<1>12. src \in At(a, Append(up, name))
  BY <1>8, <1>10, <1>11, AtNext
<1>13. ASSUME name # Base(top), NEW j \in At(a, top) PROVE FALSE
  <2>1. j \in NamedIn(a, a[j].up, Base(top)) /\ a[j].up \in At(a, up)
    BY <1>8, <1>13, AtNext
  <2>2. a[j].up = d[src].up
    BY <1>2, <1>4, <1>8, <1>10, <2>1, OneAtPath
  <2>3. j \in Live(a) /\ j \in 1..Len(d) /\ a[j].name = Base(top)
    BY <1>2, <2>1, LiveIn DEF NamedIn, Children
  <2>4. j # src /\ a[j] = d[j]
    BY <1>4, <1>13, <2>3
  <2>5. j \in NamedIn(d, d[src].up, Base(top))
    BY <1>3, <2>2, <2>3, <2>4, <1>2 DEF NamedIn, Children, Live
  <2>6. j = src
    BY <1>9, <2>5, TreeIsEach DEF EachInPlace, NamedIn, Children
  <2>. QED  BY <2>4, <2>6
<1>. QED  BY <1>2, <1>6, <1>7, <1>12, <1>13 DEF a, up

\* Whatever is moved is in the directory it was to go to.
LEMMA MovedIsIn ==
  ASSUME NEW d, AreDocs(d), IsTree(d), NEW id, NEW up, NEW dup, Moved(d, id, up, dup) # Refused
  PROVE  id \in Children(Moved(d, id, up, dup), up)
<1>. DEFINE a == Moved(d, id, up, dup)
            same == NamedIn(d, up, d[id].name) \ {id}
            r == OneOf(same)
<1>1. id \in Live(d) /\ Directory(d, up) /\ Len(a) = Len(d)
  <2>1. id \in Live(d) /\ Directory(d, up)
    BY DEF Moved
  <2>2. Len(a) = Len(d)
    BY MovedKeeps
  <2>. QED  BY <2>1, <2>2
<1>2. up # Gone /\ id \in 1..Len(d) /\ DOMAIN d = 1..Len(d) /\ DOMAIN d[id] = DocFields
  BY <1>1, DirectoriesAreIn, LiveIn DEF AreDocs
<1>3. \/ a = [d EXCEPT ![id].up = up]
      \/ a = [d EXCEPT ![id].up = up, ![id].name = FreeName(d, up)]
      \/ same # {} /\ a = [d EXCEPT ![id].up = up, ![r].up = Gone]
  <2>1. CASE same = {}
    BY <1>1, <2>1 DEF Moved
  <2>2. CASE same # {} /\ dup = 2
    BY <1>1, <2>2 DEF Moved
  <2>3. CASE same # {} /\ dup # 2
    BY <1>1, <2>3 DEF Moved
  <2>. QED  BY <2>1, <2>2, <2>3
<1>4. same # {} => r # id
  <2>. SUFFICES ASSUME same # {} PROVE r # id
    OBVIOUS
  <2>. r \in same
    BY DEF OneOf
  <2>. QED  OBVIOUS
<1>. HIDE DEF a, same, r
<1>5. a[id].up = up
  BY <1>2, <1>3, <1>4 DEF DocFields
<1>. QED  BY <1>1, <1>2, <1>5 DEF Children, Live, a

\* Moved, where nothing has its name, is what is at a path, to another directory.
LEMMA MovedThere ==
  ASSUME NEW d, AreDocs(d), IsTree(d), NEW top, IsPath(top), NEW src \in At(d, top),
         NEW into, IsPath(into), NEW up \in At(d, into), into # Parent(top),
         Moved(d, src, up, 1) # Refused
  PROVE  LET a == Moved(d, src, up, 1) IN
         /\ top # <<>> /\ Len(a) = Len(d)
         /\ \A i \in Live(d) : a[i] = d[i] \/ i \in Under(d, top)
         /\ src \in At(a, Append(into, Base(top))) /\ At(a, top) = {}
<1>. DEFINE a == Moved(d, src, up, 1)
            from == Parent(top)
<1>0. Root \notin Live(d)
  BY DEF Live, Root
<1>1. src \in Live(d) /\ ~(up # Root /\ Within(d, up, src))
  BY DEF Moved
<1>2. AreDocs(a) /\ IsTree(a) /\ Len(a) = Len(d) /\ src \in Children(a, up)
  BY MovedKeeps, MovedIsIn
<1>3. /\ \A i \in 1..Len(d) \ {src} : a[i] = d[i]
      /\ a[src].name = d[src].name
  <2>1. ASSUME NEW dup, dup = 1
        PROVE  LET b == Moved(d, src, up, dup) IN
               (\A i \in 1..Len(d) \ {src} : b[i] = d[i]) /\ b[src].name = d[src].name
    <3>. dup # 3 /\ Moved(d, src, up, dup) # Refused
      BY <2>1
    <3>. HIDE <2>1
    <3>1. LET b == Moved(d, src, up, dup) IN
          /\ dup # 3 => \A i \in 1..Len(d) \ {src} : b[i] = d[i]
          /\ dup = 1 => b[src].name = d[src].name
      BY MovedKeeps
    <3>. QED  BY <2>1, <3>1
  <2>. QED  BY <2>1
<1>4. Len(d) \in Nat /\ src \in 1..Len(d)
  BY <1>1, LiveIn DEF AreDocs
<1>. HIDE DEF a
<1>5. src \in Live(a) /\ a[src].up = up
  BY <1>2 DEF Children
<1>6. \A i \in Live(d) : a[i] = d[i] \/ i \in Under(d, top)
  <2>. src \in Under(d, top)
    BY <1>1, BelowItself DEF Under
  <2>. QED  BY <1>3, LiveIn
<1>7. top # <<>>
  BY <1>0, <1>1, AtRoot
<1>8. IsPath(from) /\ top = Append(from, Base(top)) /\ ~Below(from, top)
  BY <1>7, ParentIs, ParentAbove
<1>9. ~Below(into, top)
  <2>. SUFFICES ASSUME Below(into, top) PROVE FALSE
    OBVIOUS
  <2>1. Within(d, up, src)
    BY UnderIsWithin
  <2>2. into = <<>>
    BY <1>1, <2>1, <1>0, AtIsThere
  <2>3. Len(top) = 0
    BY <2>2, EmptyPath DEF Below, IsPath
  <2>. QED  BY <1>7, <2>3, EmptyPath
<1>. HIDE DEF from
<1>10. src \in NamedIn(d, d[src].up, Base(top)) /\ d[src].up \in At(d, from)
  BY <1>8, AtNext
<1>11. up \in At(a, into) /\ d[src].up \in At(a, from)
  <2>1. Len(a) \in Nat /\ Len(d) <= Len(a)
    BY <1>2, <1>4
  <2>2. At(d, into) \subseteq At(a, into)
    BY <1>4, <1>6, <1>9, <2>1, ChangedBelow
  <2>3. At(d, from) \subseteq At(a, from)
    BY <1>4, <1>6, <1>8, <2>1, ChangedBelow
  <2>. QED  BY <1>10, <2>2, <2>3
<1>12. src \in At(a, Append(into, Base(top)))
  <2>. src \in NamedIn(a, a[src].up, Base(top))
    BY <1>3, <1>5, <1>10 DEF NamedIn, Children
  <2>. QED  BY <1>5, <1>11, AtNext
<1>13. up # d[src].up
  BY <1>8, <1>10, OnePath DEF from
<1>14. ASSUME NEW j \in At(a, top) PROVE FALSE
  <2>1. j \in NamedIn(a, a[j].up, Base(top)) /\ a[j].up \in At(a, from)
    BY <1>8, <1>14, AtNext
  <2>2. a[j].up = d[src].up
    BY <1>2, <1>8, <1>11, <2>1, OneAtPath
  <2>3. j \in Live(a) /\ j \in 1..Len(d) /\ a[j].name = Base(top)
    BY <1>2, <2>1, LiveIn DEF NamedIn, Children
  <2>4. j # src /\ a[j] = d[j]
    BY <1>3, <1>5, <1>13, <2>2, <2>3
  <2>5. j \in NamedIn(d, d[src].up, Base(top))
    BY <1>2, <1>4, <2>2, <2>3, <2>4 DEF NamedIn, Children, Live
  <2>6. j = src
    BY <1>10, <2>5, TreeIsEach DEF EachInPlace, NamedIn, Children
  <2>. QED  BY <2>4, <2>6
<1>. QED  BY <1>2, <1>6, <1>7, <1>12, <1>14 DEF a
-----------------------------------------------------------------------------
(* The cache: what is in it and what a lookup makes of it. *)

\* Every cached path is one of the server's, with the entry it has there.
Exact(d, k) == \A path \in DOMAIN k : IsPath(path) /\ path # <<>> /\ TrueOf(d, path, k[path])

LEMMA LessIsExact ==
  ASSUME NEW d, NEW k, Exact(d, k), NEW j, DOMAIN j \subseteq DOMAIN k, \A p \in DOMAIN j : j[p] = k[p]
  PROVE  Exact(d, j)
BY DEF Exact

LEMMA ForgetIs ==
  ASSUME NEW k, NEW path
  PROVE  LET j == Forget(k, path) IN
         /\ DOMAIN j \subseteq DOMAIN k /\ \A p \in DOMAIN j : j[p] = k[p]
         /\ path # <<>> => DOMAIN j = {p \in DOMAIN k : ~Below(p, path)}
BY DEF Forget

LEMMA ForgetIsExact ==
  ASSUME NEW d, NEW k, Exact(d, k), NEW path
  PROVE  Exact(d, Forget(k, path))
<1>. DEFINE j == Forget(k, path)
<1>1. DOMAIN j \subseteq DOMAIN k /\ \A p \in DOMAIN j : j[p] = k[p]
  BY ForgetIs
<1>. HIDE DEF j
<1>2. Exact(d, j)
  BY <1>1, LessIsExact
<1>. QED  BY <1>2 DEF j

\* What is forgotten first makes no difference.
LEMMA ForgetAlso ==
  ASSUME NEW d, NEW k, NEW path, Exact(d, Forget(k, path)), NEW other
  PROVE  Exact(d, Forget(Forget(k, other), path))
<1>. DEFINE j == Forget(k, path)
            i == Forget(k, other)
            h == Forget(i, path)
<1>1. /\ DOMAIN i \subseteq DOMAIN k /\ \A p \in DOMAIN i : i[p] = k[p]
      /\ \A p \in DOMAIN j : j[p] = k[p]
      /\ path # <<>> => DOMAIN j = {p \in DOMAIN k : ~Below(p, path)}
      /\ path = <<>> => j = k
  BY ForgetIs DEF Forget
<1>2. /\ DOMAIN h \subseteq DOMAIN i /\ \A p \in DOMAIN h : h[p] = i[p]
      /\ path # <<>> => DOMAIN h = {p \in DOMAIN i : ~Below(p, path)}
  <2>. HIDE DEF i
  <2>. QED  BY ForgetIs
<1>3. Exact(d, j)
  OBVIOUS
<1>. HIDE DEF i, j, h
<1>4. DOMAIN h \subseteq DOMAIN j /\ \A p \in DOMAIN h : h[p] = j[p]
  BY <1>1, <1>2
<1>5. Exact(d, h)
  BY <1>3, <1>4, LessIsExact
<1>. QED  BY <1>5 DEF h, i

\* A listing of the directory at a path is cached.
LEMMA CachedIsExact ==
  ASSUME NEW d, NEW k, Exact(d, k), NEW dir, IsPath(dir), NEW id \in At(d, dir)
  PROVE  LET j == Cached(k, dir, Listing(d, id)) IN Exact(d, j) /\ DOMAIN k \subseteq DOMAIN j
<1>. DEFINE listing == Listing(d, id)
            new == {Append(dir, e.name) : e \in listing}
            pick(p) == CHOOSE e \in listing : Append(dir, e.name) = p
            j == Cached(k, dir, listing)
<1>1. \A p \in new : pick(p) \in listing /\ Append(dir, pick(p).name) = p
  <2>. SUFFICES ASSUME NEW p \in new PROVE \E e \in listing : Append(dir, e.name) = p
    OBVIOUS
  <2>. HIDE DEF listing
  <2>. QED  OBVIOUS
<1>2. /\ DOMAIN j = DOMAIN k \union new
      /\ \A p \in DOMAIN j : j[p] = IF p \in new THEN Entry(pick(p).id, pick(p).dir, pick(p).size) ELSE k[p]
  <2>. HIDE DEF listing
  <2>. QED  BY DEF Cached
<1>3. \A e \in listing : \E i \in Children(d, id) :
         e.name = d[i].name /\ e.id = i /\ e.dir = d[i].dir /\ e.size = d[i].size
  BY DEF Listing
<1>. HIDE DEF listing, new, pick, j
<1>4. ASSUME NEW p \in new
      PROVE  IsPath(p) /\ p # <<>> /\ TrueOf(d, p, j[p])
  <2>1. PICK i \in Children(d, id) : /\ pick(p).name = d[i].name /\ pick(p).id = i
                                     /\ pick(p).dir = d[i].dir /\ pick(p).size = d[i].size
    BY <1>1, <1>3
  <2>2. p = Append(dir, d[i].name)
    BY <1>1, <2>1
  <2>3. i \in NamedIn(d, d[i].up, d[i].name) /\ d[i].up = id
    BY <2>1 DEF Children, NamedIn
  <2>4. i \in At(d, p)
    BY <2>2, <2>3, AtNext
  <2>5. j[p] = Entry(i, d[i].dir, d[i].size)
    BY <1>2, <2>1
  <2>6. IsPath(p) /\ Len(p) = Len(dir) + 1
    BY <2>2, AppendIs
  <2>7. p # <<>>
    BY <2>6, EmptyPath DEF IsPath
  <2>. QED  BY <2>4, <2>5, <2>6, <2>7 DEF TrueOf
<1>5. ASSUME NEW p \in DOMAIN j, p \notin new
      PROVE  IsPath(p) /\ p # <<>> /\ TrueOf(d, p, j[p])
  BY <1>2, <1>5 DEF Exact
<1>. QED  BY <1>2, <1>4, <1>5 DEF Exact, j, listing

LEMMA InCacheIsThere ==
  ASSUME NEW d, NEW k, Exact(d, k), NEW p, p = <<>> \/ p \in DOMAIN k
  PROVE  InCache(k, p).id \in At(d, p) /\ (p = <<>> => InCache(k, p).dir)
<1>1. CASE p = <<>>
  BY <1>1, AtRoot DEF InCache, Entry
<1>2. CASE p # <<>>
  <2>1. InCache(k, p) = k[p]
    BY <1>2 DEF InCache
  <2>2. PICK i \in At(d, p) : k[p] = Entry(i, d[i].dir, d[i].size)
    BY <1>2 DEF Exact, TrueOf
  <2>. QED  BY <1>2, <2>1, <2>2 DEF Entry
<1>. QED  BY <1>1, <1>2

LEMMA ReachIs ==
  ASSUME NEW k, NEW goal, IsPath(goal), NEW n \in 0..Len(goal)
  PROVE  LET r == Reach(k, goal, n) IN
         r \in n..Len(goal) /\ (r # n => Prefix(goal, r) \in DOMAIN k)
<1>. DEFINE S == {m \in n..Len(goal) : \A i \in (n + 1)..m : Prefix(goal, i) \in DOMAIN k}
<1>1. Len(goal) \in Nat /\ n \in Nat
  BY DEF IsPath
<1>2. n \in S /\ S \in SUBSET (n..Len(goal))
  BY <1>1
<1>3. Reach(k, goal, n) = Max(S)
  BY DEF Reach
<1>. HIDE DEF S
<1>4. Max(S) \in S
  BY <1>1, <1>2, GreatestIn
<1>5. \A m \in S : m \in n..Len(goal) /\ (m # n => Prefix(goal, m) \in DOMAIN k)
  BY <1>1 DEF S
<1>. QED  BY <1>3, <1>4, <1>5
-----------------------------------------------------------------------------
(* Lookups. *)

\* r is q but for what a lookup or a return changes.
Kept(q, r) ==
  /\ DOMAIN r = CallFields
  /\ r.req = q.req /\ r.ans = q.ans /\ r.was = q.was /\ r.source = q.source /\ r.src = q.src
  /\ r.dst = q.dst /\ r.verb = q.verb /\ r.name = q.name /\ r.new = q.new /\ r.left = q.left
  /\ r.gone = q.gone /\ r.took = q.took /\ r.hurt = q.hurt /\ r.alone = q.alone

LEMMA KeptAll ==
  /\ \A q : DOMAIN q = CallFields => Kept(q, q)
  /\ \A q, r, s : Kept(q, r) /\ Kept(r, s) => Kept(q, s)
BY DEF Kept

\* A lookup in progress stands at a document on the way to its goal, and one that is
\* over at what is there.
Walking(d, k, q) ==
  /\ q.out \in {"ask", "got", "found", "none"} /\ IsPath(q.goal)
  /\ q.out \in {"ask", "got"} =>
       /\ q.at.n \in 0..Len(q.goal) /\ q.at.id \in At(d, Prefix(q.goal, q.at.n))
       /\ ~q.whole => q.at.n # Len(q.goal)
  /\ q.out = "got" => q.got = Listing(d, q.at.id)
  /\ q.out = "found" =>
       /\ q.at.id \in At(d, q.goal)
       /\ ~q.whole => q.goal \in DOMAIN k \/ q.info.dir

\* Where a lookup stands when the cache has no more of the way.
LEMMA SettledWalks ==
  ASSUME NEW d, NEW k, Exact(d, k), NEW q, DOMAIN q = CallFields, IsPath(q.goal),
         NEW n \in 0..Len(q.goal), n # 0 => Prefix(q.goal, n) \in DOMAIN k
  PROVE  LET r == Settled(k, q, n, InCache(k, Prefix(q.goal, n)).id) IN
         /\ Kept(q, r) /\ r.pc = q.pc /\ r.goal = q.goal /\ r.whole = q.whole
         /\ r.out \in {"ask", "found", "none"} /\ Walking(d, k, r)
         /\ n = Len(q.goal) /\ ~q.whole => r.out = "found"
<1>. DEFINE at == Prefix(q.goal, n)
            id == InCache(k, at).id
            e == InCache(k, q.goal)
            r == Settled(k, q, n, id)
<1>1. Len(q.goal) \in Nat /\ (n = 0 => at = <<>>) /\ (n = Len(q.goal) => at = q.goal)
  BY EmptyPath, WholePrefix DEF IsPath
<1>. HIDE DEF at
<1>2. id \in At(d, at) /\ (at = <<>> => InCache(k, at).dir)
  <2>. at = <<>> \/ at \in DOMAIN k
    BY <1>1 DEF at
  <2>. QED  BY InCacheIsThere
<1>. HIDE DEF id, e
<1>3. /\ Kept(q, r) /\ r.pc = q.pc /\ r.goal = q.goal /\ r.whole = q.whole
      /\ r.at = [n |-> n, id |-> id] /\ (n = Len(q.goal) => r.info = e)
      /\ r.out = CASE n < Len(q.goal) -> "ask"
                   [] n = Len(q.goal) /\ ~q.whole -> "found"
                   [] n = Len(q.goal) /\ q.whole /\ e.id # Gone /\ ~e.dir -> "none"
                   [] OTHER -> "ask"
  BY CallNames DEF Settled, Kept, e
<1>. HIDE DEF r
<1>4. r.out \in {"ask", "found", "none"} /\ (~q.whole /\ r.out = "ask" => n # Len(q.goal))
  BY <1>1, <1>3
<1>5. r.out = "found" => n = Len(q.goal) /\ ~q.whole
  BY <1>1, <1>3
<1>6. r.at.n = n /\ r.at.id = id
  BY <1>3
<1>7. r.out = "found" => q.goal \in DOMAIN k \/ r.info.dir
  <2>1. r.out = "found" => r.info = InCache(k, at) /\ at = q.goal
    BY <1>1, <1>3, <1>5 DEF e
  <2>2. at = <<>> \/ at \in DOMAIN k
    BY <1>1 DEF at
  <2>. QED  BY <1>2, <2>1, <2>2
<1>8. Walking(d, k, r)
  <2>1. r.out = "found" => r.at.id \in At(d, r.goal)
    BY <1>1, <1>2, <1>3, <1>5, <1>6
  <2>2. r.out = "ask" => r.at.n \in 0..Len(r.goal) /\ r.at.id \in At(d, Prefix(r.goal, r.at.n))
    BY <1>2, <1>3, <1>6 DEF at
  <2>. QED  BY <1>3, <1>4, <1>6, <1>7, <2>1, <2>2 DEF Walking
<1>9. n = Len(q.goal) /\ ~q.whole => r.out = "found"
  BY <1>1, <1>3
<1>. QED  BY <1>3, <1>4, <1>8, <1>9 DEF r, id, at

\* What of a call a new lookup leaves alone, whatever the cache.
Looking(q, r, pc, goal, whole) ==
  /\ Kept(q, r) /\ r.pc = pc /\ r.goal = goal /\ r.whole = whole
  /\ r.out \in {"ask", "found", "none"}

LEMMA LookUpKeeps ==
  ASSUME NEW k, NEW q, DOMAIN q = CallFields, NEW pc, NEW goal, NEW whole
  PROVE  Looking(q, LookUp(k, q, pc, goal, whole), pc, goal, whole)
<1>. DEFINE p == [q EXCEPT !.pc = pc, !.goal = goal, !.whole = whole]
            n == IF goal \in DOMAIN k THEN Len(goal) ELSE Reach(k, goal, 0)
            id == InCache(k, Prefix(goal, n)).id
            r == Settled(k, p, n, id)
<1>1. Kept(q, p) /\ p.pc = pc /\ p.goal = goal /\ p.whole = whole
  BY CallNames DEF Kept
<1>2. LookUp(k, q, pc, goal, whole) = r
  BY DEF LookUp
<1>. HIDE DEF p, n, id
<1>3. Kept(p, r) /\ r.pc = p.pc /\ r.goal = p.goal /\ r.whole = p.whole /\ r.out \in {"ask", "found", "none"}
  BY <1>1, CallNames DEF Settled, Kept
<1>. HIDE DEF r
<1>. QED  BY <1>1, <1>2, <1>3, KeptAll DEF Looking

LEMMA LookUpWalks ==
  ASSUME NEW d, NEW k, Exact(d, k), NEW q, DOMAIN q = CallFields, NEW pc, NEW goal, IsPath(goal), NEW whole
  PROVE  LET r == LookUp(k, q, pc, goal, whole) IN
         /\ Walking(d, k, r)
         /\ goal \in DOMAIN k /\ ~whole => r.out = "found"
<1>. DEFINE p == [q EXCEPT !.pc = pc, !.goal = goal, !.whole = whole]
            n == IF goal \in DOMAIN k THEN Len(goal) ELSE Reach(k, goal, 0)
            id == InCache(k, Prefix(goal, n)).id
            r == Settled(k, p, n, id)
<1>1. DOMAIN p = CallFields /\ p.goal = goal /\ p.whole = whole
  BY CallNames
<1>2. LookUp(k, q, pc, goal, whole) = r
  BY DEF LookUp
<1>. HIDE DEF p
<1>3. n \in 0..Len(goal) /\ (n # 0 => Prefix(goal, n) \in DOMAIN k)
  <2>1. CASE goal \in DOMAIN k
    BY <2>1, WholePrefix DEF IsPath
  <2>2. CASE goal \notin DOMAIN k
    <3>. 0 \in 0..Len(goal)
      BY DEF IsPath
    <3>1. LET m == Reach(k, goal, 0) IN m \in 0..Len(goal) /\ (m # 0 => Prefix(goal, m) \in DOMAIN k)
      BY ReachIs
    <3>. QED  BY <2>2, <3>1
  <2>. QED  BY <2>1, <2>2
<1>4. goal \in DOMAIN k => n = Len(goal)
  OBVIOUS
<1>. HIDE DEF n
<1>5. /\ Walking(d, k, r)
      /\ n = Len(goal) /\ ~whole => r.out = "found"
  <2>1. LET s == Settled(k, p, n, InCache(k, Prefix(p.goal, n)).id) IN
        /\ Walking(d, k, s)
        /\ n = Len(p.goal) /\ ~p.whole => s.out = "found"
    BY <1>1, <1>3, SettledWalks
  <2>. QED  BY <1>1, <2>1
<1>. HIDE DEF r
<1>. QED  BY <1>2, <1>4, <1>5

\* The walk goes on where its listing is in the cache.
LEMMA DescendWalks ==
  ASSUME NEW d, NEW k, Exact(d, k), NEW q, DOMAIN q = CallFields, IsPath(q.goal),
         q.at.n \in 0..Len(q.goal), q.at.n # Len(q.goal)
  PROVE  LET r == Descend(k, q) IN Walking(d, k, r)
<1>. DEFINE next == Prefix(q.goal, q.at.n + 1)
            n == Reach(k, q.goal, q.at.n + 1)
            r == Settled(k, q, n, InCache(k, Prefix(q.goal, n)).id)
<1>1. CASE next \notin DOMAIN k \/ (~k[next].dir /\ q.at.n + 1 < Len(q.goal))
  <2>. DEFINE s == [q EXCEPT !.out = "none", !.got = {}, !.info = NoEntry]
  <2>1. Descend(k, q) = s
    BY <1>1 DEF Descend
  <2>2. s.out = "none" /\ s.goal = q.goal
    BY CallNames
  <2>. HIDE DEF s
  <2>. QED  BY <2>1, <2>2 DEF Walking
<1>2. CASE ~(next \notin DOMAIN k \/ (~k[next].dir /\ q.at.n + 1 < Len(q.goal)))
  <2>1. Descend(k, q) = r
    BY <1>2 DEF Descend
  <2>2. q.at.n + 1 \in 0..Len(q.goal) /\ Len(q.goal) \in Nat
    BY DEF IsPath
  <2>3. n \in (q.at.n + 1)..Len(q.goal) /\ (n # q.at.n + 1 => Prefix(q.goal, n) \in DOMAIN k)
    BY <2>2, ReachIs
  <2>4. n \in 0..Len(q.goal) /\ Prefix(q.goal, n) \in DOMAIN k
    BY <1>2, <2>2, <2>3
  <2>. HIDE DEF n
  <2>5. Walking(d, k, r)
    BY <2>4, SettledWalks
  <2>. QED  BY <2>1, <2>5
<1>. QED  BY <1>1, <1>2

LEMMA DescendKeeps ==
  ASSUME NEW k, NEW q, DOMAIN q = CallFields
  PROVE  LET r == Descend(k, q) IN
         Kept(q, r) /\ r.pc = q.pc /\ r.goal = q.goal /\ r.whole = q.whole /\ r.out \in {"ask", "found", "none"}
<1>. DEFINE next == Prefix(q.goal, q.at.n + 1)
            n == Reach(k, q.goal, q.at.n + 1)
            id == InCache(k, Prefix(q.goal, n)).id
<1>1. CASE next \notin DOMAIN k \/ (~k[next].dir /\ q.at.n + 1 < Len(q.goal))
  BY <1>1, CallNames DEF Descend, Kept
<1>2. CASE ~(next \notin DOMAIN k \/ (~k[next].dir /\ q.at.n + 1 < Len(q.goal)))
  <2>1. Descend(k, q) = Settled(k, q, n, id)
    BY <1>2 DEF Descend
  <2>. HIDE DEF n, id
  <2>. QED  BY <2>1, CallNames DEF Settled, Kept
<1>. QED  BY <1>1, <1>2

\* A walk goes on as well with more in the cache.
LEMMA WalksWithMore ==
  ASSUME NEW d, NEW k, NEW q, Walking(d, k, q), NEW j, DOMAIN k \subseteq DOMAIN j
  PROVE  Walking(d, j, q)
BY DEF Walking
-----------------------------------------------------------------------------
(* What is true of a call that has the provider to itself and, if it is the   *)
(* daemon's, a cache that was true.                                           *)

Acting == {"rename", "move", "delete"}
Posts(q) == q.pc = "posted" /\ q.out = "post"
Acted(q) == q.pc = "posted" /\ q.out = "found" /\ q.verb \in Acting
Looks(q) == q.pc \notin {"posted", "back", "done"}

\* Where a command of hddctl is before its post.
Early == {"listed", "seen", "parent", "dir_parent", "resolve", "copying", "source", "dest", "source_id",
          "dest_id", "list"}

\* The cache says of the server what is so, but for the path that was just acted on
\* and has to be forgotten.
CacheIsTrue(d, k, q) == Exact(d, IF Acted(q) THEN Forget(k, q.req.path) ELSE k)

\* Paths are resolved for the step that follows, and what is posted is about the
\* documents at the paths of the request.
Targets(d, q) ==
  /\ q.pc = "back" => q.out \in {"found", "none"}
  /\ q.pc \in {"listed", "seen"} => q.req.op \in {"fs.list", "fs.stat", "ls", "stat"}
  /\ q.pc \in {"resolve", "source_id"} => q.goal = q.req.path
  /\ q.pc \in {"parent", "dir_parent"} => q.goal = Parent(q.req.path) /\ q.req.path # <<>>
  /\ q.pc = "dest_id" => q.goal = Destination(q)
  /\ q.pc \in {"source_id", "dest_id", "list"} \/ (Posts(q) /\ q.verb = "move") =>
       (Moves(q) => Destination(q) # Parent(q.req.path))
  /\ q.pc \in {"dest_id", "list"} \/ (Posts(q) /\ q.verb \in Acting) => q.src \in At(d, q.req.path)
  /\ q.pc = "list" \/ (Posts(q) /\ q.verb = "move") => q.dst \in At(d, Destination(q))
  /\ Posts(q) /\ q.verb = "rename" => q.req.to # <<>> /\ q.name = Base(q.req.to)
  /\ q.pc \in {"resolve", "posted"} /\ q.req.op = "rename" =>
       q.req.path # q.req.to /\ SameParent(q.req.path, q.req.to)
  /\ q.pc = "posted" /\ q.verb \in {"osdownload", "fetch"} => q.req.op \in {"fs.open", "download"}
  /\ q.pc = "posted" /\ q.verb = "getsuggestname" => q.req.op = "upload"
  /\ Posts(q) /\ q.verb \in {"dir/create"} \union UploadVerbs /\ q.req.op # "upload"
       /\ (q.req.op = "upload-dir" => q.verb = "dir/create") =>
       q.dst \in At(d, Parent(q.req.path)) /\ q.req.path # <<>> /\ q.name = Base(q.req.path)

\* A directory upload has its directory, and the files it has sent are there.
DirUpload(d, q) ==
  q.req.op = "upload-dir" =>
    /\ q.pc = "posted" /\ q.verb = "dir/create" /\ q.out = "found" => q.new \in At(d, q.req.path)
    /\ q.pc = "child" \/ (q.pc = "posted" /\ q.verb # "dir/create") =>
         /\ q.dst \in At(d, q.req.path) /\ q.left \in 1..Len(q.req.to)
         /\ q.name = q.req.to[q.left]
         /\ \A n \in (q.left + 1)..Len(q.req.to) : At(d, Append(q.req.path, q.req.to[n])) # {}
         /\ q.pc = "child" \/ q.out = "found" => At(d, Append(q.req.path, q.req.to[q.left])) # {}

Finals == Acting \union {"copy", "dir/create", "dupload", "osendupload"}
Effected(d, q) == Done(d, q) \/ Special(q)

\* Once the last post has succeeded, what was asked for is done.
After(d, q) ==
  /\ q.pc \in {"verify", "moved", "left", "staged"} => Effected(d, q)
  /\ q.pc = "posted" /\ q.out = "found" /\ q.verb \in Finals /\ q.req.op # "upload-dir" => Effected(d, q)
  /\ q.pc = "back" /\ q.out = "found" => Effected(d, q)
  /\ q.pc = "removed" /\ q.gone => Effected(d, q)
  /\ q.pc \in {"old_gone", "new_there"} /\ q.was.dir => Effected(d, q)
  /\ q.pc = "new_there" /\ q.gone => Effected(d, q)
  /\ q.pc = "old_gone" => Effected(d, q) \/ q.out = "found"

\* The old path of a file stays cached until it was renamed, so that the check
\* afterwards does not take a rename that failed for one that succeeded.
BeforeRename == {"into", "new", "resolve", "source", "dest", "source_id", "dest_id", "list"}
Renames == BeforeRename \union {"posted", "moved", "left", "back"}
Held(d, k, q) ==
  /\ q.pc = "old" => q.goal = q.req.path /\ ~q.whole
  /\ Restricted /\ q.req.op = "fs.rename" /\ ~q.was.dir =>
       /\ q.pc \in BeforeRename \/ Posts(q) => q.req.path \in DOMAIN k
       /\ q.pc \in Renames => q.req.path \in DOMAIN k \/ Effected(d, q)

Grounded(c, d, k, q) ==
  /\ OfDaemon(c) \/ q.pc \in Early => CacheIsTrue(d, k, q) /\ (Looks(q) => Walking(d, k, q))
  /\ Targets(d, q) /\ DirUpload(d, q) /\ After(d, q)
  /\ OfDaemon(c) => Held(d, k, q)

Exclusive(c) == Active(c) /\ call[c].alone /\ (OfDaemon(c) => ~doubt)

Ground ==
  /\ \A c, d \in Callers : Active(c) /\ call[c].alone /\ Active(d) => c = d
  /\ ~doubt => \A c \in Callers : Active(c) => call[c].alone
  /\ \A c \in Callers : Exclusive(c) => Grounded(c, docs, Cache(c), call[c])
  /\ ~doubt /\ (\A d \in Callers : OfDaemon(d) => ~Active(d)) =>
       \A c \in Callers : OfDaemon(c) => Exact(docs, Cache(c))

LEMMA EffectedKept ==
  ASSUME NEW d, NEW q, NEW r, r.req = q.req, r.src = q.src, r.dst = q.dst, r.name = q.name, r.new = q.new
  PROVE  Effected(d, r) <=> Effected(d, q)
BY DEF Effected, Done, Special

\* A call that goes on, and what is true of it if it is exclusive.
Carries(c) ==
  \E k, r : /\ known' = [known EXCEPT ![Process[c]] = k] /\ call' = [call EXCEPT ![c] = r]
            /\ docs' = docs /\ r.alone = call[c].alone
            /\ Exclusive(c) /\ Grounded(c, docs, Cache(c), call[c]) => Grounded(c, docs, k, r)

LEMMA CarriedOn ==
  ASSUME NEW c, NEW k, NEW r, Go(c, k, r), r.alone = call[c].alone,
         Exclusive(c) /\ Grounded(c, docs, Cache(c), call[c]) => Grounded(c, docs, k, r)
  PROVE  Carries(c)
BY DEF Carries, Go

LEMMA InHand ==
  ASSUME AccessInv, NEW c \in Callers, Active(c)
  PROVE  LET q == call[c] IN
         /\ DOMAIN q = CallFields /\ InStep(q) /\ Requested(c, q.req)
         /\ OfDaemon(c) /\ Restricted => Heeds(mode, q)
         /\ IsPath(q.req.path) /\ IsPath(q.req.to)
         /\ IsPath(Parent(q.req.path)) /\ IsPath(Parent(q.req.to)) /\ IsPath(Destination(q))
<1>. DEFINE q == call[c]
<1>1. /\ DOMAIN q = CallFields /\ InStep(q) /\ Requested(c, q.req)
      /\ OfDaemon(c) /\ Restricted => Heeds(mode, q)
  BY AtHand DEF Active, Sound, Restricted
<1>2. q.req.path \in Seq(Names) /\ q.req.to \in Seq(Names)
  BY <1>1 DEF Requested, Paths
<1>. HIDE DEF q
<1>3. IsPath(q.req.path) /\ IsPath(q.req.to)
  BY <1>2, PathsArePaths
<1>4. IsPath(Parent(q.req.path)) /\ IsPath(Parent(q.req.to))
  BY <1>3, ParentIs
<1>5. IsPath(Destination(q))
  BY <1>3, <1>4 DEF Destination
<1>. QED  BY <1>1, <1>3, <1>4, <1>5 DEF q

\* The provider returns.
LEMMA BackIsGrounded ==
  ASSUME NEW c, NEW d, NEW k, NEW q, DOMAIN q = CallFields, NEW good,
         OfDaemon(c) => Exact(d, k), good => Effected(d, q),
         OfDaemon(c) /\ Restricted /\ q.req.op = "fs.rename" /\ ~q.was.dir =>
           q.req.path \in DOMAIN k \/ Effected(d, q)
  PROVE  LET r == Returned(q, good) IN Kept(q, r) /\ Grounded(c, d, k, r)
<1>. DEFINE r == Returned(q, good)
<1>1. /\ Kept(q, r) /\ r.pc = "back" /\ r.out \in {"found", "none"}
      /\ r.out = "found" => good
  BY CallNames DEF Returned, Kept
<1>. HIDE DEF r
<1>2. Effected(d, r) <=> Effected(d, q)
  BY <1>1, EffectedKept DEF Kept
<1>3. OfDaemon(c) \/ r.pc \in Early => CacheIsTrue(d, k, r) /\ (Looks(r) => Walking(d, k, r))
  BY <1>1 DEF CacheIsTrue, Acted, Looks, Early
<1>4. Targets(d, r)
  BY <1>1 DEF Targets, Posts
<1>5. DirUpload(d, r)
  BY <1>1 DEF DirUpload
<1>6. After(d, r)
  BY <1>1, <1>2 DEF After
<1>7. OfDaemon(c) => Held(d, k, r)
  BY <1>1, <1>2 DEF Held, Kept, Posts, BeforeRename
<1>. QED  BY <1>1, <1>3, <1>4, <1>5, <1>6, <1>7 DEF Grounded, r

\* A caller is answered.
LEMMA DoneIsGrounded ==
  ASSUME NEW c, NEW d, NEW k, NEW q, DOMAIN q = CallFields, NEW good, OfDaemon(c) => Exact(d, k)
  PROVE  LET r == Answered(q, good) IN r.alone = q.alone /\ Grounded(c, d, k, r)
<1>. DEFINE r == Answered(q, good)
<1>1. r.pc = "done" /\ r.alone = q.alone
  BY CallNames DEF Answered
<1>. HIDE DEF r
<1>2. OfDaemon(c) \/ r.pc \in Early => CacheIsTrue(d, k, r) /\ (Looks(r) => Walking(d, k, r))
  BY <1>1 DEF CacheIsTrue, Acted, Looks, Early
<1>3. Targets(d, r) /\ DirUpload(d, r) /\ After(d, r) /\ Held(d, k, r)
  BY <1>1 DEF Targets, Posts, DirUpload, After, Held, Renames, BeforeRename
<1>. QED  BY <1>1, <1>2, <1>3 DEF Grounded, r

\* A lookup begins.
LEMMA LookIsGrounded ==
  ASSUME NEW c, NEW d, NEW k, NEW q, DOMAIN q = CallFields, NEW pc, NEW goal, IsPath(goal), NEW whole,
         LET r == LookUp(k, q, pc, goal, whole) IN
           /\ pc \notin {"posted", "back", "done"}
           /\ OfDaemon(c) \/ pc \in Early => Exact(d, k)
           /\ Targets(d, r) /\ DirUpload(d, r) /\ After(d, r)
           /\ OfDaemon(c) => Held(d, k, r)
  PROVE  Grounded(c, d, k, LookUp(k, q, pc, goal, whole))
<1>. DEFINE r == LookUp(k, q, pc, goal, whole)
<1>1. Kept(q, r) /\ r.pc = pc /\ r.goal = goal
  BY LookUpKeeps DEF Looking
<1>2. OfDaemon(c) \/ pc \in Early => Walking(d, k, r)
  BY LookUpWalks
<1>3. Targets(d, r) /\ DirUpload(d, r) /\ After(d, r) /\ (OfDaemon(c) => Held(d, k, r))
  OBVIOUS
<1>. HIDE DEF r
<1>4. ~Acted(r) /\ Looks(r)
  BY <1>1 DEF Acted, Looks
<1>. QED  BY <1>1, <1>2, <1>3, <1>4 DEF Grounded, CacheIsTrue, r
-----------------------------------------------------------------------------
(* The provider's steps. *)

LEMMA PostingIsGrounded ==
  ASSUME NEW c, NEW d, NEW k, NEW q, DOMAIN q = CallFields, NEW verb,
         OfDaemon(c) => Exact(d, k),
         LET r == Posting(q, verb) IN Targets(d, r) /\ DirUpload(d, r) /\ (OfDaemon(c) => Held(d, k, r))
  PROVE  Grounded(c, d, k, Posting(q, verb))
<1>. DEFINE r == Posting(q, verb)
<1>1. r.pc = "posted" /\ r.out = "post"
  BY CallNames DEF Posting
<1>2. Targets(d, r) /\ DirUpload(d, r) /\ (OfDaemon(c) => Held(d, k, r))
  OBVIOUS
<1>. HIDE DEF r
<1>3. After(d, r)
  BY <1>1 DEF After
<1>4. OfDaemon(c) \/ r.pc \in Early => CacheIsTrue(d, k, r) /\ (Looks(r) => Walking(d, k, r))
  BY <1>1 DEF CacheIsTrue, Acted, Looks, Early
<1>. QED  BY <1>2, <1>3, <1>4 DEF Grounded, r

LEMMA PostingKeeps ==
  ASSUME NEW q, DOMAIN q = CallFields, NEW verb
  PROVE  LET r == Posting(q, verb) IN
         /\ DOMAIN r = CallFields /\ r.pc = "posted" /\ r.out = "post" /\ r.verb = verb
         /\ r.req = q.req /\ r.was = q.was /\ r.src = q.src /\ r.dst = q.dst /\ r.name = q.name
         /\ r.new = q.new /\ r.left = q.left /\ r.alone = q.alone
BY CallNames DEF Posting

\* What a grounded call is known to have at a lookup and otherwise.
LEMMA OwnCall ==
  ASSUME NEW c, NEW d, NEW k, NEW q, Grounded(c, d, k, q)
  PROVE  /\ Targets(d, q) /\ DirUpload(d, q) /\ After(d, q) /\ (OfDaemon(c) => Held(d, k, q))
         /\ OfDaemon(c) /\ ~Acted(q) => Exact(d, k)
         /\ OfDaemon(c) /\ Acted(q) => Exact(d, Forget(k, q.req.path))
         /\ Looks(q) /\ (OfDaemon(c) \/ q.pc \in Early) => Exact(d, k) /\ Walking(d, k, q)
BY DEF Grounded, CacheIsTrue, Looks, Acted

\* The provider returns from a step of the call.
LEMMA ReturnCarries ==
  ASSUME AccessInv, NEW c \in Callers, Active(c), NEW k, NEW q, DOMAIN q = CallFields,
         q.alone = call[c].alone, NEW good, Go(c, k, Returned(q, good)),
         Exclusive(c) /\ Grounded(c, docs, Cache(c), call[c]) =>
           /\ OfDaemon(c) => Exact(docs, k)
           /\ good => Effected(docs, q)
           /\ OfDaemon(c) /\ Restricted /\ q.req.op = "fs.rename" /\ ~q.was.dir =>
                q.req.path \in DOMAIN k \/ Effected(docs, q)
  PROVE  Carries(c)
<1>. DEFINE r == Returned(q, good)
<1>1. r.alone = call[c].alone
  BY CallNames DEF Returned
<1>2. Exclusive(c) /\ Grounded(c, docs, Cache(c), call[c]) => Grounded(c, docs, k, r)
  BY BackIsGrounded
<1>. HIDE DEF r
<1>. QED  BY <1>1, <1>2, CarriedOn DEF r

LEMMA GivesUpCarries ==
  ASSUME AccessInv, NEW c \in Callers, NEW pc, GivesUp(c, pc),
         pc \in Renames \union {"parent", "verify", "dir_parent", "child"}
  PROVE  Carries(c)
<1>. DEFINE q == call[c]
<1>1. q.pc = pc /\ q.out = "none" /\ Go(c, Cache(c), Returned(q, FALSE)) /\ Active(c)
  BY DEF GivesUp, On, Good, Active, Renames, BeforeRename
<1>2. DOMAIN q = CallFields /\ InStep(q)
  BY <1>1, InHand
<1>3. Exclusive(c) /\ Grounded(c, docs, Cache(c), q) =>
        /\ OfDaemon(c) => Exact(docs, Cache(c))
        /\ OfDaemon(c) /\ Restricted /\ q.req.op = "fs.rename" /\ ~q.was.dir =>
             q.req.path \in DOMAIN Cache(c) \/ Effected(docs, q)
  <2>. SUFFICES ASSUME Grounded(c, docs, Cache(c), q), OfDaemon(c)
                PROVE  /\ Exact(docs, Cache(c))
                       /\ Restricted /\ q.req.op = "fs.rename" /\ ~q.was.dir =>
                            q.req.path \in DOMAIN Cache(c) \/ Effected(docs, q)
    OBVIOUS
  <2>. HIDE DEF q
  <2>1. Exact(docs, Cache(c)) /\ Held(docs, Cache(c), q)
    BY <1>1, OwnCall DEF Acted
  <2>2. q.req.op = "fs.rename" => q.pc \in Renames
    BY <1>1, <1>2 DEF InStep, Making, Uploading
  <2>. QED  BY <2>1, <2>2 DEF Held
<1>. QED  BY <1>1, <1>2, <1>3, ReturnCarries

LEMMA ParentResolvedCarries ==
  ASSUME AccessInv, NEW c \in Callers, ParentResolved(c)
  PROVE  Carries(c)
<1>1. CASE GivesUp(c, "parent")
  BY <1>1, GivesUpCarries
<1>2. CASE ~GivesUp(c, "parent")
  <2>. DEFINE q == call[c]
              p == [q EXCEPT !.dst = q.at.id, !.name = Base(q.req.path)]
              r == Posting(p, FirstPost(q))
  <2>1. q.pc = "parent" /\ q.out = "found" /\ Go(c, Cache(c), r) /\ Active(c)
    BY <1>2 DEF ParentResolved, On, Good, Active
  <2>2. DOMAIN q = CallFields /\ InStep(q)
    BY <2>1, InHand
  <2>3. /\ DOMAIN p = CallFields /\ p.req = q.req /\ p.dst = q.at.id /\ p.name = Base(q.req.path)
        /\ p.alone = q.alone
    BY <2>2, CallNames
  <2>. HIDE DEF p
  <2>4. /\ r.pc = "posted" /\ r.out = "post" /\ r.verb = FirstPost(q)
        /\ r.req = q.req /\ r.dst = q.at.id /\ r.name = Base(q.req.path) /\ r.alone = q.alone
    BY <2>3, PostingKeeps
  <2>5. ASSUME Grounded(c, docs, Cache(c), q) PROVE Grounded(c, docs, Cache(c), r)
    <3>. HIDE DEF q, r
    <3>1. Exact(docs, Cache(c)) /\ Walking(docs, Cache(c), q) /\ Targets(docs, q)
      BY <2>1, <2>5, OwnCall DEF Looks, Early
    <3>2. q.at.id \in At(docs, Parent(q.req.path)) /\ q.req.path # <<>>
      BY <2>1, <3>1 DEF Walking, Targets
    <3>3. q.req.op \in (Making \union Uploading) \ {"upload-dir"}
      BY <2>1, <2>2 DEF InStep
    <3>4. /\ FirstPost(q) \in {"dir/create", "getsuggestname", "predupload"}
          /\ FirstPost(q) = "getsuggestname" => q.req.op = "upload"
      BY DEF FirstPost
    <3>5. Targets(docs, r)
      BY <2>4, <3>2, <3>3, <3>4 DEF Targets, Posts, Acting, Making, Uploading
    <3>6. DirUpload(docs, r) /\ Held(docs, Cache(c), r)
      BY <2>4, <3>3 DEF DirUpload, Held, Making, Uploading
    <3>. QED  BY <2>3, <3>1, <3>5, <3>6, PostingIsGrounded DEF r
  <2>. QED  BY <2>1, <2>4, <2>5, CarriedOn
<1>. QED  BY <1>1, <1>2

LEMMA NameSuggestedCarries ==
  ASSUME AccessInv, NEW c \in Callers, NameSuggested(c)
  PROVE  Carries(c)
<1>. DEFINE q == call[c]
            r == Posting(q, "predupload")
<1>1. /\ q.pc = "posted" /\ q.out = "found" /\ q.verb = "getsuggestname"
      /\ Go(c, Cache(c), r) /\ Active(c)
  BY DEF NameSuggested, On, Good, Active
<1>2. DOMAIN q = CallFields
  BY <1>1, InHand
<1>3. r.pc = "posted" /\ r.out = "post" /\ r.verb = "predupload" /\ r.req = q.req /\ r.alone = q.alone
  BY <1>2, PostingKeeps
<1>4. ASSUME Grounded(c, docs, Cache(c), q) PROVE Grounded(c, docs, Cache(c), r)
  <2>. HIDE DEF q, r
  <2>1. (OfDaemon(c) => Exact(docs, Cache(c))) /\ Targets(docs, q)
    BY <1>1, <1>4, OwnCall DEF Acted, Acting
  <2>2. q.req.op = "upload"
    BY <1>1, <2>1 DEF Targets
  <2>3. Targets(docs, r) /\ DirUpload(docs, r) /\ Held(docs, Cache(c), r)
    BY <1>3, <2>2 DEF Targets, Posts, Acting, DirUpload, Held
  <2>. QED  BY <1>2, <2>1, <2>3, PostingIsGrounded DEF r
<1>. QED  BY <1>1, <1>3, <1>4, CarriedOn

LEMMA DirectoryMadeCarries ==
  ASSUME AccessInv, NEW c \in Callers, DirectoryMade(c)
  PROVE  Carries(c)
<1>. DEFINE q == call[c]
            k == Forget(Cache(c), Parent(q.req.path))
<1>1. /\ q.pc = "posted" /\ q.out = "found" /\ q.verb = "dir/create" /\ q.req.op # "upload-dir"
      /\ Go(c, k, Returned(q, TRUE)) /\ Active(c)
  BY DEF DirectoryMade, On, Good, Active
<1>2. DOMAIN q = CallFields
  BY <1>1, InHand
<1>3. ASSUME Grounded(c, docs, Cache(c), q)
      PROVE  (OfDaemon(c) => Exact(docs, k)) /\ Effected(docs, q)
  <2>. HIDE DEF q
  <2>1. (OfDaemon(c) => Exact(docs, Cache(c))) /\ After(docs, q)
    BY <1>1, <1>3, OwnCall DEF Acted, Acting
  <2>. QED  BY <1>1, <2>1, ForgetIsExact DEF After, Finals
<1>. HIDE DEF k
<1>. QED  BY <1>1, <1>2, <1>3, ReturnCarries

\* A lookup follows in the call.
LEMMA LookCarries ==
  ASSUME AccessInv, NEW c \in Callers, Active(c), NEW k, NEW q, DOMAIN q = CallFields,
         q.alone = call[c].alone, NEW pc, NEW goal, IsPath(goal), NEW whole,
         NEW r, r = LookUp(k, q, pc, goal, whole), Go(c, k, r), pc \notin {"posted", "back", "done"},
         Exclusive(c) /\ Grounded(c, docs, Cache(c), call[c]) =>
           /\ OfDaemon(c) \/ pc \in Early => Exact(docs, k)
           /\ Targets(docs, r) /\ DirUpload(docs, r) /\ After(docs, r)
           /\ OfDaemon(c) => Held(docs, k, r)
  PROVE  Carries(c)
<1>1. r.alone = call[c].alone
  BY LookUpKeeps DEF Looking, Kept
<1>2. Exclusive(c) /\ Grounded(c, docs, Cache(c), call[c]) => Grounded(c, docs, k, r)
  BY LookIsGrounded
<1>. QED  BY <1>1, <1>2, CarriedOn

LEMMA UploadedCarries ==
  ASSUME AccessInv, NEW c \in Callers, Uploaded(c)
  PROVE  Carries(c)
<1>. DEFINE q == call[c]
            k == Forget(Cache(c), Parent(q.req.path))
            r == LookUp(k, q, "verify", Parent(q.req.path), TRUE)
<1>1. /\ q.pc = "posted" /\ q.out = "found" /\ q.verb \in {"dupload", "osendupload"} /\ q.req.op # "upload-dir"
      /\ IF q.req.op = "upload" THEN Go(c, k, r) ELSE Go(c, k, Returned(q, TRUE))
      /\ Active(c)
  BY DEF Uploaded, On, Good, Active
<1>2. DOMAIN q = CallFields /\ Requested(c, q.req) /\ IsPath(Parent(q.req.path))
  BY <1>1, InHand
<1>3. ASSUME Grounded(c, docs, Cache(c), q)
      PROVE  (OfDaemon(c) => Exact(docs, k)) /\ Effected(docs, q)
  <2>. HIDE DEF q
  <2>1. (OfDaemon(c) => Exact(docs, Cache(c))) /\ After(docs, q)
    BY <1>1, <1>3, OwnCall DEF Acted, Acting
  <2>. QED  BY <1>1, <2>1, ForgetIsExact DEF After, Finals
<1>. HIDE DEF k
<1>4. CASE q.req.op # "upload"
  BY <1>1, <1>2, <1>3, <1>4, ReturnCarries
<1>5. CASE q.req.op = "upload"
  <2>1. ~OfDaemon(c)
    BY <1>2, <1>5 DEF Requested, FSRequests
  <2>2. Looking(q, r, "verify", Parent(q.req.path), TRUE)
    BY <1>2, LookUpKeeps
  <2>3. ASSUME Grounded(c, docs, Cache(c), q)
        PROVE  Targets(docs, r) /\ DirUpload(docs, r) /\ After(docs, r)
    <3>1. Effected(docs, r)
      BY <1>3, <2>2, <2>3, EffectedKept DEF Kept, Looking
    <3>. HIDE DEF q, r
    <3>. QED  BY <1>5, <2>2, <3>1 DEF Targets, Posts, DirUpload, After, Kept, Looking
  <2>4. r = LookUp(k, q, "verify", Parent(q.req.path), TRUE) /\ Go(c, k, r)
    BY <1>1, <1>5
  <2>. HIDE DEF r
  <2>5. Exclusive(c) /\ Grounded(c, docs, Cache(c), call[c]) =>
           /\ OfDaemon(c) \/ "verify" \in Early => Exact(docs, k)
           /\ Targets(docs, r) /\ DirUpload(docs, r) /\ After(docs, r)
           /\ OfDaemon(c) => Held(docs, k, r)
    BY <2>1, <2>3 DEF Early
  <2>6. "verify" \notin {"posted", "back", "done"}
    OBVIOUS
  <2>. QED  BY <1>1, <1>2, <2>4, <2>5, <2>6, LookCarries
<1>. QED  BY <1>4, <1>5

LEMMA UploadVerifiedCarries ==
  ASSUME AccessInv, NEW c \in Callers, UploadVerified(c)
  PROVE  Carries(c)
<1>1. CASE GivesUp(c, "verify")
  BY <1>1, GivesUpCarries
<1>2. CASE ~GivesUp(c, "verify")
  <2>. DEFINE q == call[c]
  <2>1. q.pc = "verify" /\ Go(c, Cache(c), Returned(q, Verified(q, q.name))) /\ Active(c)
    BY <1>2 DEF UploadVerified, On, Good, Active
  <2>2. DOMAIN q = CallFields
    BY <2>1, InHand
  <2>3. ASSUME Grounded(c, docs, Cache(c), q)
        PROVE  (OfDaemon(c) => Exact(docs, Cache(c))) /\ Effected(docs, q)
    BY <2>1, <2>3, OwnCall DEF Acted, After
  <2>. QED  BY <2>1, <2>2, <2>3, ReturnCarries
<1>. QED  BY <1>1, <1>2

LEMMA DirectoryParentSeenCarries ==
  ASSUME AccessInv, NEW c \in Callers, DirectoryParentSeen(c)
  PROVE  Carries(c)
<1>1. CASE GivesUp(c, "dir_parent")
  BY <1>1, GivesUpCarries
<1>2. CASE ~GivesUp(c, "dir_parent")
  <2>. DEFINE q == call[c]
              p == [q EXCEPT !.dst = q.at.id, !.name = Base(q.req.path)]
              r == Posting(p, "dir/create")
  <2>1. /\ q.pc = "dir_parent" /\ q.out = "found" /\ Active(c)
        /\ Go(c, Cache(c), r) \/ Go(c, Cache(c), Returned(q, FALSE))
    BY <1>2 DEF DirectoryParentSeen, On, Good, Active
  <2>2. DOMAIN q = CallFields /\ InStep(q) /\ Requested(c, q.req)
    BY <2>1, InHand
  <2>3. q.req.op = "upload-dir" /\ ~OfDaemon(c)
    BY <2>1, <2>2 DEF InStep, Requested, FSRequests
  <2>4. CASE Go(c, Cache(c), Returned(q, FALSE))
    BY <2>1, <2>2, <2>3, <2>4, ReturnCarries
  <2>5. CASE Go(c, Cache(c), r)
    <3>1. /\ DOMAIN p = CallFields /\ p.req = q.req /\ p.dst = q.at.id /\ p.name = Base(q.req.path)
          /\ p.alone = q.alone
      BY <2>2, CallNames
    <3>. HIDE DEF p
    <3>2. /\ r.pc = "posted" /\ r.out = "post" /\ r.verb = "dir/create"
          /\ r.req = q.req /\ r.dst = q.at.id /\ r.name = Base(q.req.path) /\ r.alone = q.alone
      BY <3>1, PostingKeeps
    <3>3. ASSUME Grounded(c, docs, Cache(c), q) PROVE Grounded(c, docs, Cache(c), r)
      <4>. HIDE DEF q, r
      <4>1. Walking(docs, Cache(c), q) /\ Targets(docs, q)
        BY <2>1, <3>3, OwnCall DEF Looks, Early
      <4>2. q.at.id \in At(docs, Parent(q.req.path)) /\ q.req.path # <<>>
        BY <2>1, <4>1 DEF Walking, Targets
      <4>3. Targets(docs, r) /\ DirUpload(docs, r)
        BY <2>3, <3>2, <4>2 DEF Targets, Posts, Acting, DirUpload
      <4>. QED  BY <2>3, <3>1, <4>3, PostingIsGrounded DEF r
    <3>. QED  BY <2>5, <3>2, <3>3, CarriedOn
  <2>. QED  BY <2>1, <2>4, <2>5
<1>. QED  BY <1>1, <1>2

\* The next file of a directory, with the ones after it there.
LEMMA NextChildCarries ==
  ASSUME AccessInv, NEW c \in Callers, Active(c), call[c].req.op = "upload-dir", NEW k,
         NEW q, DOMAIN q = CallFields, q.req = call[c].req, q.alone = call[c].alone,
         Go(c, k, NextChild(k, q)),
         Exclusive(c) /\ Grounded(c, docs, Cache(c), call[c]) =>
           /\ q.dst \in At(docs, q.req.path) /\ q.left \in 0..Len(q.req.to)
           /\ \A n \in (q.left + 1)..Len(q.req.to) : At(docs, Append(q.req.path, q.req.to[n])) # {}
  PROVE  Carries(c)
<1>. DEFINE p == [q EXCEPT !.name = q.req.to[q.left]]
            r == Posting(p, "predupload")
<1>1. Requested(c, q.req) /\ IsPath(q.req.to)
  BY InHand
<1>2. ~OfDaemon(c)
  BY <1>1 DEF Requested, FSRequests
<1>3. CASE q.left = 0
  <2>1. Go(c, k, Returned(q, TRUE))
    BY <1>3 DEF NextChild
  <2>2. Len(q.req.to) \in Nat /\ DOMAIN q.req.to = 1..Len(q.req.to)
    BY <1>1 DEF IsPath
  <2>3. ASSUME Exclusive(c) /\ Grounded(c, docs, Cache(c), call[c]) PROVE Effected(docs, q)
    <3>1. \A n \in 1..Len(q.req.to) : At(docs, Append(q.req.path, q.req.to[n])) # {}
      BY <1>3, <2>2, <2>3
    <3>2. \A n \in Range(q.req.to) : At(docs, Append(q.req.path, n)) # {}
      BY <2>2, <3>1 DEF Range
    <3>. QED  BY <3>2 DEF Effected, Done
  <2>. QED  BY <1>2, <2>1, <2>3, ReturnCarries
<1>4. CASE q.left # 0
  <2>1. Go(c, k, r)
    BY <1>4 DEF NextChild
  <2>2. /\ DOMAIN p = CallFields /\ p.req = q.req /\ p.dst = q.dst /\ p.name = q.req.to[q.left]
        /\ p.left = q.left /\ p.alone = q.alone
    BY CallNames
  <2>. HIDE DEF p
  <2>3. /\ r.pc = "posted" /\ r.out = "post" /\ r.verb = "predupload"
        /\ r.req = q.req /\ r.dst = q.dst /\ r.name = q.req.to[q.left] /\ r.left = q.left
        /\ r.alone = call[c].alone
    BY <2>2, PostingKeeps
  <2>4. ASSUME Exclusive(c) /\ Grounded(c, docs, Cache(c), call[c]) PROVE Grounded(c, docs, k, r)
    <3>. HIDE DEF r
    <3>1. /\ q.dst \in At(docs, q.req.path) /\ q.left \in 1..Len(q.req.to)
          /\ \A n \in (q.left + 1)..Len(q.req.to) : At(docs, Append(q.req.path, q.req.to[n])) # {}
      BY <1>1, <1>4, <2>4 DEF IsPath
    <3>2. Targets(docs, r)
      BY <2>3 DEF Targets, Posts, Acting
    <3>3. DirUpload(docs, r)
      BY <2>3, <3>1 DEF DirUpload
    <3>. QED  BY <1>2, <2>2, <3>2, <3>3, PostingIsGrounded DEF r
  <2>. HIDE DEF r
  <2>. QED  BY <2>1, <2>3, <2>4, CarriedOn
<1>. QED  BY <1>3, <1>4

LEMMA RootMadeCarries ==
  ASSUME AccessInv, NEW c \in Callers, RootMade(c)
  PROVE  Carries(c)
<1>. DEFINE q == call[c]
            p == [q EXCEPT !.dst = q.new, !.left = Len(q.req.to)]
<1>1. PICK k : /\ q.pc = "posted" /\ q.out = "found" /\ q.verb = "dir/create" /\ q.req.op = "upload-dir"
               /\ Go(c, k, NextChild(k, p)) /\ Active(c)
  BY DEF RootMade, On, Good, Active
<1>2. DOMAIN q = CallFields /\ IsPath(q.req.to)
  BY <1>1, InHand
<1>3. DOMAIN p = CallFields /\ p.req = q.req /\ p.dst = q.new /\ p.left = Len(q.req.to) /\ p.alone = q.alone
  BY <1>2, CallNames
<1>. HIDE DEF p
<1>4. ASSUME Grounded(c, docs, Cache(c), q)
      PROVE  /\ p.dst \in At(docs, p.req.path) /\ p.left \in 0..Len(p.req.to)
             /\ \A n \in (p.left + 1)..Len(p.req.to) : At(docs, Append(p.req.path, p.req.to[n])) # {}
  <2>. HIDE DEF q
  <2>1. q.new \in At(docs, q.req.path)
    BY <1>1, <1>4, OwnCall DEF DirUpload
  <2>2. Len(q.req.to) \in Nat
    BY <1>2 DEF IsPath
  <2>. QED  BY <1>3, <2>1, <2>2
<1>. QED  BY <1>1, <1>3, <1>4, NextChildCarries

LEMMA ChildSentCarries ==
  ASSUME AccessInv, NEW c \in Callers, ChildSent(c)
  PROVE  Carries(c)
<1>. DEFINE q == call[c]
<1>1. PICK k : /\ q.pc = "posted" /\ q.out = "found" /\ q.verb \in {"dupload", "osendupload"}
               /\ q.req.op = "upload-dir" /\ Active(c)
               /\ Go(c, k, LookUp(k, q, "child", q.req.path, TRUE))
  BY DEF ChildSent, On, Good, Active
<1>. DEFINE r == LookUp(k, q, "child", q.req.path, TRUE)
<1>2. DOMAIN q = CallFields /\ Requested(c, q.req) /\ IsPath(q.req.path)
  BY <1>1, InHand
<1>3. ~OfDaemon(c)
  BY <1>1, <1>2 DEF Requested, FSRequests
<1>4. Looking(q, r, "child", q.req.path, TRUE)
  BY <1>2, LookUpKeeps
<1>5. ASSUME Grounded(c, docs, Cache(c), q)
      PROVE  Targets(docs, r) /\ DirUpload(docs, r) /\ After(docs, r)
  <2>. HIDE DEF q, r
  <2>1. DirUpload(docs, q)
    BY <1>5, OwnCall
  <2>2. DirUpload(docs, r)
    BY <1>1, <1>4, <2>1 DEF DirUpload, Kept, Looking
  <2>. QED  BY <1>4, <2>2 DEF Targets, Posts, After, Looking
<1>6. r = LookUp(k, q, "child", q.req.path, TRUE) /\ Go(c, k, r)
  BY <1>1
<1>7. "child" \notin Early
  BY DEF Early
<1>. HIDE DEF r
<1>8. Exclusive(c) /\ Grounded(c, docs, Cache(c), call[c]) =>
           /\ OfDaemon(c) \/ "child" \in Early => Exact(docs, k)
           /\ Targets(docs, r) /\ DirUpload(docs, r) /\ After(docs, r)
           /\ OfDaemon(c) => Held(docs, k, r)
  BY <1>3, <1>5, <1>7
<1>9. "child" \notin {"posted", "back", "done"}
  OBVIOUS
<1>. QED  BY <1>1, <1>2, <1>6, <1>8, <1>9, LookCarries

LEMMA ChildVerifiedCarries ==
  ASSUME AccessInv, NEW c \in Callers, ChildVerified(c)
  PROVE  Carries(c)
<1>1. CASE GivesUp(c, "child")
  BY <1>1, GivesUpCarries
<1>2. CASE ~GivesUp(c, "child")
  <2>. DEFINE q == call[c]
              p == [q EXCEPT !.left = @ - 1]
  <2>1. PICK k : /\ q.pc = "child" /\ Active(c)
                 /\ Go(c, k, NextChild(k, p)) \/ Go(c, Cache(c), Returned(p, FALSE))
    BY <1>2 DEF ChildVerified, On, Good, Active
  <2>2. DOMAIN q = CallFields /\ InStep(q) /\ Requested(c, q.req) /\ IsPath(q.req.to)
    BY <2>1, InHand
  <2>3. q.req.op = "upload-dir" /\ ~OfDaemon(c)
    BY <2>1, <2>2 DEF InStep, Requested, FSRequests
  <2>4. DOMAIN p = CallFields /\ p.req = q.req /\ p.dst = q.dst /\ p.left = q.left - 1 /\ p.alone = q.alone
    BY <2>2, CallNames
  <2>. HIDE DEF p
  <2>5. CASE Go(c, Cache(c), Returned(p, FALSE))
    BY <2>1, <2>3, <2>4, <2>5, ReturnCarries
  <2>6. CASE Go(c, k, NextChild(k, p))
    <3>1. ASSUME Grounded(c, docs, Cache(c), q)
          PROVE  /\ p.dst \in At(docs, p.req.path) /\ p.left \in 0..Len(p.req.to)
                 /\ \A n \in (p.left + 1)..Len(p.req.to) : At(docs, Append(p.req.path, p.req.to[n])) # {}
      <4>. HIDE DEF q
      <4>1. DirUpload(docs, q)
        BY <3>1, OwnCall
      <4>2. /\ q.dst \in At(docs, q.req.path) /\ q.left \in 1..Len(q.req.to)
            /\ \A n \in (q.left + 1)..Len(q.req.to) : At(docs, Append(q.req.path, q.req.to[n])) # {}
            /\ At(docs, Append(q.req.path, q.req.to[q.left])) # {}
        BY <2>1, <2>3, <4>1 DEF DirUpload
      <4>3. Len(q.req.to) \in Nat
        BY <2>2 DEF IsPath
      <4>4. \A n \in q.left..Len(q.req.to) : n = q.left \/ n \in (q.left + 1)..Len(q.req.to)
        BY <4>2, <4>3
      <4>5. \A n \in q.left..Len(q.req.to) : At(docs, Append(q.req.path, q.req.to[n])) # {}
        BY <4>2, <4>4
      <4>6. p.left + 1 = q.left /\ p.left \in 0..Len(q.req.to)
        BY <2>4, <4>2, <4>3
      <4>. QED  BY <2>4, <4>2, <4>5, <4>6
    <3>. QED  BY <2>1, <2>3, <2>4, <2>6, <3>1, NextChildCarries
  <2>. QED  BY <2>1, <2>5, <2>6
<1>. QED  BY <1>1, <1>2

\* What a step resolved or looked up for hddctl or the daemon before the post.
LEMMA AtLookup ==
  ASSUME NEW c, NEW d, NEW k, NEW q, Grounded(c, d, k, q), q.pc \in Early, q.out = "found"
  PROVE  /\ Exact(d, k) /\ q.at.id \in At(d, q.goal) /\ Targets(d, q)
         /\ OfDaemon(c) => Held(d, k, q)
BY OwnCall DEF Looks, Early, Walking

LEMMA ResolvedCarries ==
  ASSUME AccessInv, NEW c \in Callers, Resolved(c)
  PROVE  Carries(c)
<1>1. CASE GivesUp(c, "resolve")
  BY <1>1, GivesUpCarries DEF Renames, BeforeRename
<1>2. CASE ~GivesUp(c, "resolve")
  <2>. DEFINE q == call[c]
              p == [q EXCEPT !.src = q.at.id]
              n == [p EXCEPT !.name = Base(p.req.to)]
              k == Cache(c)
  <2>1. /\ q.pc = "resolve" /\ q.out = "found" /\ Active(c)
        /\ \/ DocumentPost(p) # "rename" /\ Go(c, k, Posting(p, DocumentPost(p)))
           \/ DocumentPost(p) = "rename" /\ p.req.to # <<>> /\ Go(c, k, Posting(n, "rename"))
           \/ Go(c, k, Returned(p, FALSE))
    BY <1>2 DEF Resolved, On, Good, Active
  <2>2. DOMAIN q = CallFields /\ InStep(q)
    BY <2>1, InHand
  <2>3. /\ DOMAIN p = CallFields /\ p.req = q.req /\ p.src = q.at.id /\ p.alone = q.alone /\ p.was = q.was
    BY <2>2, CallNames
  <2>4. /\ DOMAIN n = CallFields /\ n.req = q.req /\ n.src = q.at.id /\ n.alone = q.alone /\ n.was = q.was
        /\ n.name = Base(q.req.to)
    BY <2>2, CallNames
  <2>. HIDE DEF p, n, k
  <2>5. q.req.op \in Resolving
    BY <2>1, <2>2 DEF InStep
  <2>6. ASSUME Grounded(c, docs, Cache(c), q)
        PROVE  /\ Exact(docs, k) /\ q.at.id \in At(docs, q.req.path) /\ Targets(docs, q)
               /\ OfDaemon(c) /\ Restricted /\ q.req.op = "fs.rename" /\ ~q.was.dir => q.req.path \in DOMAIN k
    <3>1. /\ Exact(docs, k) /\ q.at.id \in At(docs, q.goal) /\ Targets(docs, q)
          /\ OfDaemon(c) => Held(docs, k, q)
      BY <2>1, <2>6, AtLookup DEF Early, k
    <3>. QED  BY <2>1, <3>1 DEF Targets, Held, BeforeRename
  <2>7. ASSUME NEW v, NEW s, DOMAIN s = CallFields, s.req = q.req, s.src = q.at.id, s.alone = q.alone, s.was = q.was,
               v = DocumentPost(q), v = "rename" => q.req.to # <<>> /\ s.name = Base(q.req.to),
               Go(c, k, Posting(s, v))
        PROVE  Carries(c)
    <3>. DEFINE r == Posting(s, v)
    <3>1. /\ r.pc = "posted" /\ r.out = "post" /\ r.verb = v
          /\ r.req = q.req /\ r.src = q.at.id /\ r.name = s.name /\ r.was = q.was /\ r.alone = q.alone
      BY <2>7, PostingKeeps
    <3>2. /\ v \in {"rename", "delete", "osdownload"} /\ (v = "osdownload" => q.req.op \in {"fs.open", "download"})
          /\ q.req.op # "upload-dir"
      BY <2>5, <2>7 DEF DocumentPost, Resolving
    <3>3. ASSUME Grounded(c, docs, Cache(c), q) PROVE Grounded(c, docs, k, r)
      <4>1. Targets(docs, r)
        <5>. HIDE DEF r, q
        <5>. QED  BY <2>1, <2>6, <2>7, <3>1, <3>2, <3>3 DEF Targets, Posts, Acting, UploadVerbs
      <4>2. DirUpload(docs, r)
        <5>. HIDE DEF r, q
        <5>. QED  BY <3>1, <3>2 DEF DirUpload
      <4>3. OfDaemon(c) => Held(docs, k, r)
        <5>. HIDE DEF r, q
        <5>. QED  BY <2>6, <3>1, <3>3 DEF Held
      <4>. QED  BY <2>6, <2>7, <3>3, <4>1, <4>2, <4>3, PostingIsGrounded
    <3>. HIDE DEF r
    <3>. QED  BY <2>7, <3>1, <3>3, CarriedOn DEF r
  <2>8. CASE Go(c, k, Returned(p, FALSE))
    BY <2>1, <2>3, <2>6, <2>8, ReturnCarries
  <2>9. DocumentPost(p) = DocumentPost(q)
    BY <2>3 DEF DocumentPost
  <2>10. CASE DocumentPost(p) # "rename" /\ Go(c, k, Posting(p, DocumentPost(p)))
    BY <2>3, <2>7, <2>9, <2>10
  <2>11. CASE DocumentPost(p) = "rename" /\ p.req.to # <<>> /\ Go(c, k, Posting(n, "rename"))
    BY <2>3, <2>4, <2>7, <2>9, <2>11
  <2>. QED  BY <2>1, <2>8, <2>10, <2>11
<1>. QED  BY <1>1, <1>2

LEMMA RenamedOrRemovedCarries ==
  ASSUME AccessInv, NEW c \in Callers, RenamedOrRemoved(c)
  PROVE  Carries(c)
<1>. DEFINE q == call[c]
            j == Forget(Cache(c), q.req.path)
<1>1. PICK into : /\ q.pc = "posted" /\ q.out = "found" /\ q.verb \in {"rename", "delete"}
                  /\ Go(c, Forget(j, into), Returned(q, TRUE)) /\ Active(c)
  BY DEF RenamedOrRemoved, On, Good, Active
<1>2. DOMAIN q = CallFields /\ InStep(q)
  BY <1>1, InHand
<1>3. ASSUME Grounded(c, docs, Cache(c), q)
      PROVE  (OfDaemon(c) => Exact(docs, Forget(j, into))) /\ Effected(docs, q)
  <2>1. q.req.op # "upload-dir"
    BY <1>1, <1>2 DEF InStep
  <2>. HIDE DEF q
  <2>2. (OfDaemon(c) => Exact(docs, j)) /\ After(docs, q)
    BY <1>1, <1>3, OwnCall DEF Acted, Acting
  <2>. HIDE DEF j
  <2>3. OfDaemon(c) => Exact(docs, Forget(j, into))
    BY <2>2, ForgetIsExact
  <2>. QED  BY <1>1, <2>1, <2>2, <2>3 DEF After, Finals, Acting
<1>. HIDE DEF j
<1>. QED  BY <1>1, <1>2, <1>3, ReturnCarries

LEMMA DownloadedCarries ==
  ASSUME AccessInv, NEW c \in Callers, Downloaded(c)
  PROVE  Carries(c)
<1>. DEFINE q == call[c]
<1>1. /\ q.pc = "posted" /\ q.out = "found" /\ q.verb = "fetch"
      /\ Go(c, Cache(c), Returned(q, TRUE)) /\ Active(c)
  BY DEF Downloaded, On, Good, Active
<1>2. DOMAIN q = CallFields
  BY <1>1, InHand
<1>3. ASSUME Grounded(c, docs, Cache(c), q)
      PROVE  (OfDaemon(c) => Exact(docs, Cache(c))) /\ Effected(docs, q)
  <2>. HIDE DEF q
  <2>1. (OfDaemon(c) => Exact(docs, Cache(c))) /\ Targets(docs, q)
    BY <1>1, <1>3, OwnCall DEF Acted, Acting
  <2>2. q.req.op \in {"fs.open", "download"}
    BY <1>1, <2>1 DEF Targets
  <2>. QED  BY <2>1, <2>2 DEF Effected, Done
<1>. QED  BY <1>1, <1>2, <1>3, ReturnCarries

\* A transfer looks up the next of its paths.
LEMMA TransferLooks ==
  ASSUME AccessInv, NEW c \in Callers, Active(c), call[c].out = "found",
         call[c].pc \in {"source", "dest", "source_id", "dest_id"},
         NEW q, DOMAIN q = CallFields, q.req = call[c].req, q.alone = call[c].alone, q.was = call[c].was,
         NEW pc, pc \in {"dest", "source_id", "dest_id", "list"}, NEW goal, IsPath(goal), NEW whole,
         NEW r, r = LookUp(Cache(c), q, pc, goal, whole), Go(c, Cache(c), r),
         Grounded(c, docs, Cache(c), call[c]) => Targets(docs, r)
  PROVE  Carries(c)
<1>. DEFINE k == Cache(c)
<1>1. Kept(q, r) /\ r.pc = pc
  BY LookUpKeeps DEF Looking
<1>2. call[c].req.op # "upload-dir"
  BY InHand DEF InStep, TransferSteps, Transferring
<1>3. ASSUME Grounded(c, docs, k, call[c])
      PROVE  /\ Exact(docs, k) /\ Targets(docs, r) /\ DirUpload(docs, r) /\ After(docs, r)
             /\ OfDaemon(c) => Held(docs, k, r)
  <2>1. Exact(docs, k) /\ (OfDaemon(c) => Held(docs, k, call[c]))
    BY <1>3, AtLookup DEF Early
  <2>2. OfDaemon(c) => Held(docs, k, r)
    BY <1>1, <2>1 DEF Held, Kept, BeforeRename
  <2>3. DirUpload(docs, r) /\ After(docs, r)
    BY <1>1, <1>2 DEF DirUpload, After, Kept
  <2>. QED  BY <1>3, <2>1, <2>2, <2>3
<1>4. Exclusive(c) /\ Grounded(c, docs, k, call[c]) =>
        /\ OfDaemon(c) \/ pc \in Early => Exact(docs, k)
        /\ Targets(docs, r) /\ DirUpload(docs, r) /\ After(docs, r)
        /\ OfDaemon(c) => Held(docs, k, r)
  BY <1>3
<1>5. pc \notin {"posted", "back", "done"}
  OBVIOUS
<1>. QED  BY <1>4, <1>5, LookCarries

LEMMA SourceSeenCarries ==
  ASSUME AccessInv, NEW c \in Callers, SourceSeen(c)
  PROVE  Carries(c)
<1>1. CASE GivesUp(c, "source")
  BY <1>1, GivesUpCarries DEF Renames, BeforeRename
<1>2. CASE ~GivesUp(c, "source")
  <2>. DEFINE q == call[c]
              p == [q EXCEPT !.source = q.info]
              r == LookUp(Cache(c), p, "dest", Destination(p), FALSE)
  <2>1. q.pc = "source" /\ q.out = "found" /\ Go(c, Cache(c), r) /\ Active(c)
    BY <1>2 DEF SourceSeen, On, Good, Active
  <2>2. DOMAIN q = CallFields /\ IsPath(Destination(q))
    BY <2>1, InHand
  <2>3. DOMAIN p = CallFields /\ p.req = q.req /\ p.alone = q.alone /\ p.was = q.was
    BY <2>2, CallNames
  <2>. HIDE DEF p
  <2>4. IsPath(Destination(p))
    BY <2>2, <2>3 DEF Destination
  <2>5. Looking(p, r, "dest", Destination(p), FALSE)
    BY <2>3, LookUpKeeps
  <2>6. r = LookUp(Cache(c), p, "dest", Destination(p), FALSE) /\ Go(c, Cache(c), r)
    BY <2>1
  <2>. HIDE DEF r
  <2>7. Targets(docs, r)
    BY <2>5 DEF Looking, Targets, Posts
  <2>8. "dest" \in {"dest", "source_id", "dest_id", "list"} /\ q.pc \in {"source", "dest", "source_id", "dest_id"}
    BY <2>1
  <2>. QED  BY <2>1, <2>3, <2>4, <2>6, <2>7, <2>8, TransferLooks
<1>. QED  BY <1>1, <1>2

LEMMA DestinationSeenCarries ==
  ASSUME AccessInv, NEW c \in Callers, DestinationSeen(c)
  PROVE  Carries(c)
<1>1. CASE GivesUp(c, "dest")
  BY <1>1, GivesUpCarries DEF Renames, BeforeRename
<1>2. CASE ~GivesUp(c, "dest")
  <2>. DEFINE q == call[c]
              r == LookUp(Cache(c), q, "source_id", q.req.path, FALSE)
  <2>1. /\ q.pc = "dest" /\ q.out = "found" /\ Active(c)
        /\ \/ Go(c, Cache(c), r) /\ ~(Moves(q) /\ Parent(q.req.path) = Destination(q))
           \/ Go(c, Cache(c), Returned(q, FALSE))
    BY <1>2 DEF DestinationSeen, On, Good, Active
  <2>2. DOMAIN q = CallFields /\ IsPath(q.req.path)
    BY <2>1, InHand
  <2>3. CASE Go(c, Cache(c), Returned(q, FALSE))
    <3>1. ASSUME Grounded(c, docs, Cache(c), q)
          PROVE  /\ Exact(docs, Cache(c))
                 /\ OfDaemon(c) /\ Restricted /\ q.req.op = "fs.rename" /\ ~q.was.dir => q.req.path \in DOMAIN Cache(c)
      BY <2>1, <3>1, AtLookup DEF Early, Held, BeforeRename
    <3>. QED  BY <2>1, <2>2, <2>3, <3>1, ReturnCarries
  <2>4. CASE Go(c, Cache(c), r) /\ ~(Moves(q) /\ Parent(q.req.path) = Destination(q))
    <3>1. Looking(q, r, "source_id", q.req.path, FALSE)
      BY <2>2, LookUpKeeps
    <3>2. r = LookUp(Cache(c), q, "source_id", q.req.path, FALSE) /\ Go(c, Cache(c), r)
      BY <2>4
    <3>. HIDE DEF r
    <3>3. Targets(docs, r)
      BY <2>4, <3>1 DEF Looking, Kept, Targets, Posts, Destination, Moves
    <3>4. "source_id" \in {"dest", "source_id", "dest_id", "list"} /\ q.pc \in {"source", "dest", "source_id", "dest_id"}
      BY <2>1
    <3>. QED  BY <2>1, <2>2, <3>2, <3>3, <3>4, TransferLooks
  <2>. QED  BY <2>1, <2>3, <2>4
<1>. QED  BY <1>1, <1>2

LEMMA SourceResolvedCarries ==
  ASSUME AccessInv, NEW c \in Callers, SourceResolved(c)
  PROVE  Carries(c)
<1>1. CASE GivesUp(c, "source_id")
  BY <1>1, GivesUpCarries DEF Renames, BeforeRename
<1>2. CASE ~GivesUp(c, "source_id")
  <2>. DEFINE q == call[c]
              p == [q EXCEPT !.src = q.at.id]
              r == LookUp(Cache(c), p, "dest_id", Destination(p), FALSE)
  <2>1. q.pc = "source_id" /\ q.out = "found" /\ Go(c, Cache(c), r) /\ Active(c)
    BY <1>2 DEF SourceResolved, On, Good, Active
  <2>2. DOMAIN q = CallFields /\ IsPath(Destination(q))
    BY <2>1, InHand
  <2>3. DOMAIN p = CallFields /\ p.req = q.req /\ p.alone = q.alone /\ p.was = q.was /\ p.src = q.at.id
    BY <2>2, CallNames
  <2>. HIDE DEF p
  <2>4. IsPath(Destination(p))
    BY <2>2, <2>3 DEF Destination
  <2>5. Looking(p, r, "dest_id", Destination(p), FALSE)
    BY <2>3, LookUpKeeps
  <2>6. r = LookUp(Cache(c), p, "dest_id", Destination(p), FALSE) /\ Go(c, Cache(c), r)
    BY <2>1
  <2>. HIDE DEF r
  <2>7. ASSUME Grounded(c, docs, Cache(c), q) PROVE Targets(docs, r)
    <3>1. q.at.id \in At(docs, q.goal) /\ Targets(docs, q)
      BY <2>1, <2>7, AtLookup DEF Early
    <3>2. q.at.id \in At(docs, q.req.path) /\ (Moves(q) => Destination(q) # Parent(q.req.path))
      BY <2>1, <3>1 DEF Targets
    <3>. HIDE DEF q
    <3>. QED  BY <2>3, <2>5, <3>2 DEF Looking, Kept, Targets, Posts, Destination, Moves
  <2>8. "dest_id" \in {"dest", "source_id", "dest_id", "list"} /\ q.pc \in {"source", "dest", "source_id", "dest_id"}
    BY <2>1
  <2>. QED  BY <2>1, <2>3, <2>4, <2>6, <2>7, <2>8, TransferLooks
<1>. QED  BY <1>1, <1>2

LEMMA DestinationResolvedCarries ==
  ASSUME AccessInv, NEW c \in Callers, DestinationResolved(c)
  PROVE  Carries(c)
<1>1. CASE GivesUp(c, "dest_id")
  BY <1>1, GivesUpCarries DEF Renames, BeforeRename
<1>2. CASE ~GivesUp(c, "dest_id")
  <2>. DEFINE q == call[c]
              p == [q EXCEPT !.dst = q.at.id]
              r == LookUp(Cache(c), p, "list", Destination(p), TRUE)
  <2>1. q.pc = "dest_id" /\ q.out = "found" /\ Go(c, Cache(c), r) /\ Active(c)
    BY <1>2 DEF DestinationResolved, On, Good, Active
  <2>2. DOMAIN q = CallFields /\ IsPath(Destination(q))
    BY <2>1, InHand
  <2>3. /\ DOMAIN p = CallFields /\ p.req = q.req /\ p.alone = q.alone /\ p.was = q.was
        /\ p.dst = q.at.id /\ p.src = q.src
    BY <2>2, CallNames
  <2>. HIDE DEF p
  <2>4. IsPath(Destination(p))
    BY <2>2, <2>3 DEF Destination
  <2>5. Looking(p, r, "list", Destination(p), TRUE)
    BY <2>3, LookUpKeeps
  <2>6. r = LookUp(Cache(c), p, "list", Destination(p), TRUE) /\ Go(c, Cache(c), r)
    BY <2>1
  <2>. HIDE DEF r
  <2>7. ASSUME Grounded(c, docs, Cache(c), q) PROVE Targets(docs, r)
    <3>1. q.at.id \in At(docs, q.goal) /\ Targets(docs, q)
      BY <2>1, <2>7, AtLookup DEF Early
    <3>2. /\ q.at.id \in At(docs, Destination(q)) /\ (Moves(q) => Destination(q) # Parent(q.req.path))
          /\ q.src \in At(docs, q.req.path)
      BY <2>1, <3>1 DEF Targets
    <3>. HIDE DEF q
    <3>. QED  BY <2>3, <2>5, <3>2 DEF Looking, Kept, Targets, Posts, Destination, Moves
  <2>8. "list" \in {"dest", "source_id", "dest_id", "list"} /\ q.pc \in {"source", "dest", "source_id", "dest_id"}
    BY <2>1
  <2>. QED  BY <2>1, <2>3, <2>4, <2>6, <2>7, <2>8, TransferLooks
<1>. QED  BY <1>1, <1>2

LEMMA DestinationListedCarries ==
  ASSUME AccessInv, NEW c \in Callers, DestinationListed(c)
  PROVE  Carries(c)
<1>1. CASE GivesUp(c, "list")
  BY <1>1, GivesUpCarries DEF Renames, BeforeRename
<1>2. CASE ~GivesUp(c, "list")
  <2>. DEFINE q == call[c]
              v == IF Moves(q) THEN "move" ELSE "copy"
              r == Posting(q, v)
              k == Cache(c)
  <2>1. q.pc = "list" /\ q.out = "found" /\ Go(c, k, r) /\ Active(c)
    BY <1>2 DEF DestinationListed, On, Good, Active
  <2>2. DOMAIN q = CallFields /\ InStep(q)
    BY <2>1, InHand
  <2>3. /\ r.pc = "posted" /\ r.out = "post" /\ r.verb = v /\ r.req = q.req /\ r.was = q.was
        /\ r.src = q.src /\ r.dst = q.dst /\ r.alone = q.alone
    BY <2>2, PostingKeeps
  <2>4. v \in {"move", "copy"} /\ q.req.op \in Transferring
    BY <2>1, <2>2 DEF InStep, TransferSteps
  <2>5. ASSUME Grounded(c, docs, k, q) PROVE Grounded(c, docs, k, r)
    <3>1. Exact(docs, k) /\ Targets(docs, q) /\ (OfDaemon(c) => Held(docs, k, q))
      BY <2>1, <2>5, AtLookup DEF Early
    <3>2. /\ q.dst \in At(docs, Destination(q)) /\ (Moves(q) => Destination(q) # Parent(q.req.path))
          /\ q.src \in At(docs, q.req.path)
      BY <2>1, <3>1 DEF Targets
    <3>. HIDE DEF r, v, q
    <3>3. Targets(docs, r)
      BY <2>3, <2>4, <3>2 DEF Targets, Posts, Destination, Moves, Transferring, UploadVerbs
    <3>4. DirUpload(docs, r) /\ (OfDaemon(c) => Held(docs, k, r))
      BY <2>1, <2>3, <2>4, <3>1 DEF DirUpload, Held, Transferring, BeforeRename
    <3>. QED  BY <2>2, <3>1, <3>3, <3>4, PostingIsGrounded DEF r
  <2>. QED  BY <2>1, <2>3, <2>5, CarriedOn
<1>. QED  BY <1>1, <1>2

LEMMA TransferredCarries ==
  ASSUME AccessInv, NEW c \in Callers, Transferred(c)
  PROVE  Carries(c)
<1>. DEFINE q == call[c]
            there == Append(Destination(q), Base(q.req.path))
            k1 == Forget(Cache(c), Destination(q))
            k2 == IF q.req.dup \in {"overwrite", "merge"} /\ (\E e \in q.got : e.name = Base(there))
                  THEN Forget(k1, there) ELSE k1
            k3 == IF Moves(q) THEN Forget(Forget(k2, Parent(q.req.path)), q.req.path) ELSE k2
            r == LookUp(k3, q, "moved", Destination(q), TRUE)
<1>1. /\ q.pc = "posted" /\ q.out = "found" /\ q.verb \in {"move", "copy"} /\ Active(c)
      /\ r = LookUp(k3, q, "moved", Destination(q), TRUE) /\ Go(c, k3, r)
  BY DEF Transferred, On, Good, Active
<1>2. DOMAIN q = CallFields /\ InStep(q) /\ Requested(c, q.req) /\ IsPath(Destination(q))
  BY <1>1, InHand
<1>3. q.req.op # "upload-dir"
  BY <1>1, <1>2 DEF InStep
<1>4. OfDaemon(c) => q.req.op = "fs.rename" /\ q.req.dup = "fail" /\ q.verb = "move"
  <2>. HIDE DEF q
  <2>. QED  BY <1>1, <1>2 DEF InStep, Requested, FSRequests
<1>5. OfDaemon(c) => k3 = Forget(Forget(k1, Parent(q.req.path)), q.req.path)
  BY <1>4 DEF Moves
<1>6. Looking(q, r, "moved", Destination(q), TRUE)
  <2>. HIDE DEF k3
  <2>. QED  BY <1>2, LookUpKeeps
<1>7. ASSUME Grounded(c, docs, Cache(c), q)
      PROVE  /\ OfDaemon(c) => Exact(docs, k3)
             /\ Effected(docs, q)
  <2>1. Effected(docs, q)
    <3>. HIDE DEF q
    <3>. QED  BY <1>1, <1>3, <1>7, OwnCall DEF After, Finals, Acting
  <2>2. ASSUME OfDaemon(c) PROVE Exact(docs, k3)
    <3>1. Exact(docs, Forget(Cache(c), q.req.path))
      <4>. HIDE DEF q
      <4>. QED  BY <1>1, <1>4, <1>7, <2>2, OwnCall DEF Acted, Acting
    <3>2. Exact(docs, Forget(k1, q.req.path))
      BY <3>1, ForgetAlso
    <3>. HIDE DEF k1
    <3>3. Exact(docs, Forget(Forget(k1, Parent(q.req.path)), q.req.path))
      BY <3>2, ForgetAlso
    <3>. HIDE DEF k3
    <3>. QED  BY <1>5, <2>2, <3>3
  <2>. QED  BY <2>1, <2>2
<1>. HIDE DEF r, k3
<1>8. Effected(docs, r) <=> Effected(docs, q)
  BY <1>6, EffectedKept DEF Looking, Kept
<1>9. Exclusive(c) /\ Grounded(c, docs, Cache(c), call[c]) =>
           /\ OfDaemon(c) \/ "moved" \in Early => Exact(docs, k3)
           /\ Targets(docs, r) /\ DirUpload(docs, r) /\ After(docs, r)
           /\ OfDaemon(c) => Held(docs, k3, r)
  <2>. SUFFICES ASSUME Grounded(c, docs, Cache(c), q)
                PROVE  /\ OfDaemon(c) \/ "moved" \in Early => Exact(docs, k3)
                       /\ Targets(docs, r) /\ DirUpload(docs, r) /\ After(docs, r)
                       /\ OfDaemon(c) => Held(docs, k3, r)
    OBVIOUS
  <2>1. Effected(docs, r) /\ r.pc = "moved"
    BY <1>6, <1>7, <1>8 DEF Looking
  <2>2. OfDaemon(c) \/ "moved" \in Early => Exact(docs, k3)
    BY <1>7 DEF Early
  <2>3. Targets(docs, r)
    BY <2>1 DEF Targets, Posts
  <2>4. DirUpload(docs, r)
    BY <2>1 DEF DirUpload
  <2>5. After(docs, r)
    BY <2>1 DEF After
  <2>6. Held(docs, k3, r)
    BY <2>1 DEF Held, BeforeRename, Posts
  <2>. QED  BY <2>2, <2>3, <2>4, <2>5, <2>6
<1>10. "moved" \notin {"posted", "back", "done"}
  OBVIOUS
<1>. QED  BY <1>1, <1>2, <1>9, <1>10, LookCarries

LEMMA InDestinationCarries ==
  ASSUME AccessInv, NEW c \in Callers, InDestination(c)
  PROVE  Carries(c)
<1>1. CASE GivesUp(c, "moved")
  BY <1>1, GivesUpCarries DEF Renames
<1>2. CASE ~GivesUp(c, "moved")
  <2>. DEFINE q == call[c]
              k == Forget(Cache(c), Parent(q.req.path))
              r == LookUp(k, q, "left", Parent(q.req.path), TRUE)
  <2>1. PICK good : /\ q.pc = "moved" /\ q.out = "found" /\ Active(c)
                    /\ Go(c, Cache(c), Returned(q, good)) \/ Go(c, k, r)
    <3>1. q.pc = "moved" /\ q.out = "found" /\ Active(c)
      BY <1>2 DEF InDestination, On, Good, Active
    <3>2. \/ Go(c, Cache(c), Returned(q, FALSE))
          \/ \E good : Go(c, Cache(c), Returned(q, good))
          \/ Go(c, k, r)
      BY <1>2 DEF InDestination
    <3>. QED  BY <3>1, <3>2
  <2>2. DOMAIN q = CallFields /\ InStep(q) /\ IsPath(Parent(q.req.path))
    BY <2>1, InHand
  <2>3. ASSUME Grounded(c, docs, Cache(c), q)
        PROVE  (OfDaemon(c) => Exact(docs, Cache(c))) /\ Effected(docs, q)
    <3>. HIDE DEF q
    <3>. QED  BY <2>1, <2>3, OwnCall DEF Acted, After
  <2>4. CASE Go(c, Cache(c), Returned(q, good))
    BY <2>1, <2>2, <2>3, <2>4, ReturnCarries
  <2>5. CASE Go(c, k, r)
    <3>1. Looking(q, r, "left", Parent(q.req.path), TRUE)
      <4>. HIDE DEF k
      <4>. QED  BY <2>2, LookUpKeeps
    <3>2. r = LookUp(k, q, "left", Parent(q.req.path), TRUE) /\ Go(c, k, r)
      BY <2>5
    <3>3. ASSUME Grounded(c, docs, Cache(c), q) PROVE OfDaemon(c) => Exact(docs, k)
      BY <2>3, <3>3, ForgetIsExact
    <3>. HIDE DEF r, k
    <3>4. Effected(docs, r) <=> Effected(docs, q)
      BY <3>1, EffectedKept DEF Looking, Kept
    <3>5. ASSUME Grounded(c, docs, Cache(c), q)
          PROVE  /\ OfDaemon(c) \/ "left" \in Early => Exact(docs, k)
                 /\ Targets(docs, r) /\ DirUpload(docs, r) /\ After(docs, r)
                 /\ OfDaemon(c) => Held(docs, k, r)
      <4>1. Effected(docs, r) /\ r.pc = "left"
        BY <2>3, <3>1, <3>4, <3>5 DEF Looking
      <4>2. OfDaemon(c) \/ "left" \in Early => Exact(docs, k)
        BY <3>3, <3>5 DEF Early
      <4>3. Targets(docs, r)
        BY <4>1 DEF Targets, Posts
      <4>4. DirUpload(docs, r)
        BY <4>1 DEF DirUpload
      <4>5. After(docs, r)
        BY <4>1 DEF After
      <4>6. Held(docs, k, r)
        BY <4>1 DEF Held, BeforeRename, Posts
      <4>. QED  BY <4>2, <4>3, <4>4, <4>5, <4>6
    <3>6. Exclusive(c) /\ Grounded(c, docs, Cache(c), call[c]) =>
             /\ OfDaemon(c) \/ "left" \in Early => Exact(docs, k)
             /\ Targets(docs, r) /\ DirUpload(docs, r) /\ After(docs, r)
             /\ OfDaemon(c) => Held(docs, k, r)
      BY <3>5
    <3>7. "left" \notin {"posted", "back", "done"}
      OBVIOUS
    <3>. QED  BY <2>1, <2>2, <3>2, <3>6, <3>7, LookCarries
  <2>. QED  BY <2>1, <2>4, <2>5
<1>. QED  BY <1>1, <1>2

LEMMA OutOfSourceCarries ==
  ASSUME AccessInv, NEW c \in Callers, OutOfSource(c)
  PROVE  Carries(c)
<1>1. CASE GivesUp(c, "left")
  BY <1>1, GivesUpCarries DEF Renames
<1>2. CASE ~GivesUp(c, "left")
  <2>. DEFINE q == call[c]
  <2>1. PICK good : q.pc = "left" /\ Active(c) /\ Go(c, Cache(c), Returned(q, good))
    BY <1>2 DEF OutOfSource, On, Active
  <2>2. DOMAIN q = CallFields
    BY <2>1, InHand
  <2>3. ASSUME Grounded(c, docs, Cache(c), q)
        PROVE  (OfDaemon(c) => Exact(docs, Cache(c))) /\ Effected(docs, q)
    <3>. HIDE DEF q
    <3>. QED  BY <2>1, <2>3, OwnCall DEF Acted, After
  <2>. QED  BY <2>1, <2>2, <2>3, ReturnCarries
<1>. QED  BY <1>1, <1>2

LEMMA PostFailedCarries ==
  ASSUME AccessInv, NEW c \in Callers, PostFailed(c)
  PROVE  Carries(c)
BY GivesUpCarries DEF PostFailed, Renames

\* r is q but for how far its lookup has come and whether a request failed.
StillAt(q, r) ==
  /\ r.pc = q.pc /\ r.goal = q.goal /\ r.whole = q.whole
  /\ r.req = q.req /\ r.was = q.was /\ r.src = q.src /\ r.dst = q.dst /\ r.verb = q.verb
  /\ r.name = q.name /\ r.new = q.new /\ r.left = q.left /\ r.gone = q.gone /\ r.alone = q.alone

LEMMA WalkIsGrounded ==
  ASSUME NEW c, NEW d, NEW j, NEW q, Grounded(c, d, j, q), Looks(q), q.out \in {"ask", "got"},
         NEW k, DOMAIN j \subseteq DOMAIN k, NEW r, StillAt(q, r),
         OfDaemon(c) \/ q.pc \in Early => Exact(d, k) /\ Walking(d, k, r)
  PROVE  Grounded(c, d, k, r)
<1>1. Looks(r) /\ ~Acted(r)
  BY DEF Looks, Acted, StillAt
<1>2. Effected(d, r) <=> Effected(d, q)
  BY EffectedKept DEF StillAt
<1>3. Targets(d, q) /\ DirUpload(d, q) /\ After(d, q) /\ (OfDaemon(c) => Held(d, j, q))
  BY OwnCall
<1>4. Targets(d, r)
  BY <1>1, <1>3 DEF Targets, StillAt, Posts, Looks, Destination, Moves
<1>5. DirUpload(d, r)
  BY <1>1, <1>3 DEF DirUpload, StillAt, Looks
<1>6. After(d, r)
  BY <1>1, <1>2, <1>3 DEF After, StillAt, Looks
<1>7. OfDaemon(c) => Held(d, k, r)
  BY <1>1, <1>2, <1>3 DEF Held, StillAt, Posts, Looks
<1>8. OfDaemon(c) \/ r.pc \in Early => CacheIsTrue(d, k, r) /\ Walking(d, k, r)
  BY <1>1 DEF CacheIsTrue, StillAt
<1>. QED  BY <1>4, <1>5, <1>6, <1>7, <1>8 DEF Grounded

\* A call that waits for a listing is at a lookup.
LEMMA AsksLooks ==
  ASSUME AccessInv, NEW c \in Callers, Active(c), call[c].out \in {"ask", "got"},
         Targets(docs, call[c])
  PROVE  Looks(call[c])
<1>1. InStep(call[c])
  BY InHand
<1>2. call[c].pc # "posted" /\ call[c].pc # "back"
  BY <1>1 DEF InStep, Targets
<1>. QED  BY <1>2 DEF Looks, Active

LEMMA LearnCarries ==
  ASSUME AccessInv, NEW c \in Callers, Learn(c)
  PROVE  Carries(c)
<1>. DEFINE q == call[c]
            k == Cached(Cache(c), Prefix(q.goal, q.at.n), q.got)
            r == IF q.at.n = Len(q.goal) THEN [q EXCEPT !.out = "found"] ELSE Descend(k, q)
<1>1. Active(c) /\ q.out = "got" /\ Go(c, k, r)
  BY DEF Learn, Go
<1>2. DOMAIN q = CallFields
  BY <1>1, InHand
<1>3. StillAt(q, r)
  <2>1. CASE q.at.n = Len(q.goal)
    BY <1>2, <2>1, CallNames DEF StillAt
  <2>2. CASE q.at.n # Len(q.goal)
    <3>1. r = Descend(k, q)
      BY <2>2
    <3>. DEFINE s == Descend(k, q)
    <3>2. Kept(q, s) /\ s.pc = q.pc /\ s.goal = q.goal /\ s.whole = q.whole
      <4>. HIDE DEF k
      <4>. QED  BY <1>2, DescendKeeps
    <3>. HIDE DEF r, s
    <3>3. StillAt(q, s)
      BY <3>2 DEF Kept, StillAt
    <3>. QED  BY <3>1, <3>3 DEF s
  <2>. QED  BY <2>1, <2>2
<1>4. ASSUME Grounded(c, docs, Cache(c), q) PROVE Grounded(c, docs, k, r)
  <2>1. Targets(docs, q)
    BY <1>4, OwnCall
  <2>2. Looks(q)
    BY <1>1, <2>1, AsksLooks
  <2>3. ASSUME OfDaemon(c) \/ q.pc \in Early
        PROVE  Exact(docs, k) /\ Walking(docs, k, r) /\ DOMAIN Cache(c) \subseteq DOMAIN k
    <3>1. Exact(docs, Cache(c)) /\ Walking(docs, Cache(c), q)
      BY <1>4, <2>2, <2>3, OwnCall
    <3>2. /\ IsPath(q.goal) /\ q.at.n \in 0..Len(q.goal) /\ q.at.id \in At(docs, Prefix(q.goal, q.at.n))
          /\ (~q.whole => q.at.n # Len(q.goal)) /\ q.got = Listing(docs, q.at.id)
      BY <1>1, <3>1 DEF Walking
    <3>3. IsPath(Prefix(q.goal, q.at.n))
      BY <3>2, PrefixIs
    <3>4. Exact(docs, k) /\ DOMAIN Cache(c) \subseteq DOMAIN k
      <4>1. LET j == Cached(Cache(c), Prefix(q.goal, q.at.n), Listing(docs, q.at.id)) IN
            Exact(docs, j) /\ DOMAIN Cache(c) \subseteq DOMAIN j
        BY <3>1, <3>2, <3>3, CachedIsExact
      <4>. QED  BY <3>2, <4>1
    <3>. HIDE DEF k
    <3>5. Walking(docs, k, r)
      <4>1. CASE q.at.n = Len(q.goal)
        <5>1. /\ r.out = "found" /\ r.goal = q.goal /\ r.whole = q.whole /\ r.at = q.at
          BY <1>2, <4>1, CallNames
        <5>2. q.whole /\ q.at.id \in At(docs, q.goal)
          BY <3>2, <4>1, WholePrefix
        <5>. HIDE DEF r, q
        <5>. QED  BY <3>2, <5>1, <5>2 DEF Walking
      <4>2. CASE q.at.n # Len(q.goal)
        <5>1. Walking(docs, k, Descend(k, q))
          BY <1>2, <3>2, <3>4, <4>2, DescendWalks
        <5>. QED  BY <4>2, <5>1
      <4>. QED  BY <4>1, <4>2
    <3>. QED  BY <3>4, <3>5
  <2>4. DOMAIN Cache(c) \subseteq DOMAIN k
    BY DEF Cached
  <2>. HIDE DEF r, k
  <2>. QED  BY <1>1, <1>3, <1>4, <2>2, <2>3, <2>4, WalkIsGrounded
<1>5. r.alone = q.alone
  <2>. HIDE DEF r
  <2>. QED  BY <1>3 DEF StillAt
<1>. HIDE DEF r, k
<1>. QED  BY <1>1, <1>4, <1>5, CarriedOn

\* A call that changes nothing but itself.
LEMMA ItselfCarries ==
  ASSUME AccessInv, NEW c \in Callers, docs' = docs, known' = known,
         NEW r, call' = [call EXCEPT ![c] = r], r.alone = call[c].alone,
         Exclusive(c) /\ Grounded(c, docs, Cache(c), call[c]) => Grounded(c, docs, Cache(c), r)
  PROVE  Carries(c)
<1>1. known' = [known EXCEPT ![Process[c]] = Cache(c)]
  BY DEF AccessInv, DocsAreKnown, Cache
<1>. DEFINE k == Cache(c)
<1>2. known' = [known EXCEPT ![Process[c]] = k] /\ (Exclusive(c) /\ Grounded(c, docs, Cache(c), call[c]) => Grounded(c, docs, k, r))
  BY <1>1
<1>. HIDE DEF k
<1>. QED  BY <1>2 DEF Carries

LEMMA AskCarries ==
  ASSUME AccessInv, NEW c \in Callers, Ask(c)
  PROVE  Carries(c)
<1>. DEFINE q == call[c]
            l == Listing(docs, q.at.id)
            f == [q EXCEPT !.out = "none", !.got = {}, !.info = NoEntry, !.hurt = TRUE,
                           !.took = @ \/ docs # docs, !.lost = @ \/ docs # docs]
            g == [q EXCEPT !.out = "got", !.got = l]
            n == [q EXCEPT !.out = "none"]
<1>1. Active(c) /\ q.out = "ask" /\ docs' = docs /\ known' = known
  BY DEF Ask, Fails
<1>2. DOMAIN q = CallFields
  BY <1>1, InHand
<1>3. call = [d \in Callers |-> call[d]]
  BY DEF AccessInv, CallsAreSound
<1>4. \/ call' = [call EXCEPT ![c] = f]
      \/ call' = [call EXCEPT ![c] = g]
      \/ call' = [call EXCEPT ![c] = n]
  <2>1. CASE Fails(c, docs)
    BY <1>3, <2>1 DEF Fails
  <2>2. CASE ~Fails(c, docs)
    <3>. HIDE DEF l
    <3>1. \/ call' = [call EXCEPT ![c].out = "got", ![c].got = l]
          \/ call' = [call EXCEPT ![c].out = "none"]
      BY <2>2 DEF Ask, l
    <3>. QED  BY <1>3, <3>1
  <2>. QED  BY <2>1, <2>2
<1>5. /\ StillAt(q, f) /\ f.out = "none" /\ f.at = q.at
      /\ StillAt(q, g) /\ g.out = "got" /\ g.at = q.at /\ g.got = l
      /\ StillAt(q, n) /\ n.out = "none" /\ n.at = q.at
  <2>. HIDE DEF l
  <2>. QED  BY <1>2, CallNames DEF StillAt
<1>6. ASSUME NEW r, call' = [call EXCEPT ![c] = r], StillAt(q, r), r.at = q.at,
             r.out = "none" \/ (r.out = "got" /\ r.got = l)
      PROVE  Carries(c)
  <2>1. ASSUME Grounded(c, docs, Cache(c), q) PROVE Grounded(c, docs, Cache(c), r)
    <3>1. Targets(docs, q)
      BY <2>1, OwnCall
    <3>2. Looks(q)
      BY <1>1, <3>1, AsksLooks
    <3>3. ASSUME OfDaemon(c) \/ q.pc \in Early
          PROVE  Exact(docs, Cache(c)) /\ Walking(docs, Cache(c), r)
      <4>1. Exact(docs, Cache(c)) /\ Walking(docs, Cache(c), q)
        BY <2>1, <3>2, <3>3, OwnCall
      <4>. QED  BY <1>1, <1>6, <4>1 DEF Walking, StillAt
    <3>. QED  BY <1>1, <1>6, <2>1, <3>2, <3>3, WalkIsGrounded
  <2>2. r.alone = q.alone
    BY <1>6 DEF StillAt
  <2>. QED  BY <1>1, <1>6, <2>1, <2>2, ItselfCarries
<1>. HIDE DEF f, g, n
<1>. QED  BY <1>4, <1>5, <1>6
-----------------------------------------------------------------------------
(* The handlers' steps. *)

LEMMA AnswerCarries ==
  ASSUME AccessInv, NEW c \in Callers, Active(c), call[c].pc # "posted", NEW good, Answer(c, good)
  PROVE  Carries(c)
<1>. DEFINE q == call[c]
            r == Answered(q, good)
            k == Cache(c)
<1>1. DOMAIN q = CallFields /\ Go(c, k, r)
  BY InHand DEF Answer
<1>2. Exclusive(c) /\ Grounded(c, docs, k, q) => (OfDaemon(c) => Exact(docs, k))
  BY OwnCall DEF Acted
<1>3. r.alone = q.alone
  BY <1>1, CallNames DEF Answered
<1>4. Exclusive(c) /\ Grounded(c, docs, k, q) => Grounded(c, docs, k, r)
  BY <1>1, <1>2, DoneIsGrounded
<1>. HIDE DEF r
<1>. QED  BY <1>1, <1>3, <1>4, CarriedOn

LEMMA HandlerLookCarries ==
  ASSUME AccessInv, NEW c \in Callers, Active(c), call[c].pc # "posted", OfDaemon(c) \/ call[c].pc \in Early,
         NEW q, DOMAIN q = CallFields, q.alone = call[c].alone,
         NEW pc, NEW goal, IsPath(goal), NEW whole, NEW r, r = LookUp(Cache(c), q, pc, goal, whole),
         Go(c, Cache(c), r), pc \notin {"posted", "back", "done"},
         Grounded(c, docs, Cache(c), call[c]) =>
           Targets(docs, r) /\ DirUpload(docs, r) /\ After(docs, r) /\ (OfDaemon(c) => Held(docs, Cache(c), r))
  PROVE  Carries(c)
<1>. DEFINE k == Cache(c)
<1>1. Grounded(c, docs, k, call[c]) => Exact(docs, k)
  BY OwnCall DEF Acted, Looks, Early
<1>2. Exclusive(c) /\ Grounded(c, docs, k, call[c]) =>
        /\ OfDaemon(c) \/ pc \in Early => Exact(docs, k)
        /\ Targets(docs, r) /\ DirUpload(docs, r) /\ After(docs, r)
        /\ OfDaemon(c) => Held(docs, k, r)
  BY <1>1
<1>. HIDE DEF k
<1>3. r = LookUp(k, q, pc, goal, whole) /\ Go(c, k, r)
  BY DEF k
<1>. QED  BY <1>2, <1>3, LookCarries DEF k

LEMMA AnsweringCarries ==
  ASSUME AccessInv, NEW c \in Callers,
         \/ Looked(c) \/ WrittenBackOver(c) \/ PassedOn(c) \/ NewThere(c) \/ RemovalChecked(c)
         \/ StagedVerified(c)
  PROVE  Carries(c)
<1>1. \E good : Answer(c, good)
  BY DEF Looked, WrittenBackOver, PassedOn, NewThere, RemovalChecked, StagedVerified
<1>2. Active(c) /\ call[c].pc # "posted"
  BY DEF Looked, WrittenBackOver, PassedOn, NewThere, RemovalChecked, StagedVerified, On, Active
<1>. QED  BY <1>1, <1>2, AnswerCarries

LEMMA CopyDecidedCarries ==
  ASSUME AccessInv, NEW c \in Callers, CopyDecided(c)
  PROVE  Carries(c)
<1>. DEFINE dup == IF call[c].info.dir THEN "auto-rename" ELSE "fail"
            q == [call[c] EXCEPT !.req.dup = dup]
            k == Cache(c)
            r == LookUp(k, q, "source", q.req.path, FALSE)
<1>1. call[c].pc = "copying" /\ Active(c)
  BY DEF CopyDecided, On, Active
<1>2. \/ call[c].out = "found" /\ (Go(c, k, Returned(q, FALSE)) \/ (Go(c, k, r) /\ r = LookUp(k, q, "source", q.req.path, FALSE)))
      \/ Answer(c, FALSE)
  BY DEF CopyDecided, Good, Transfer
<1>3. DOMAIN call[c] = CallFields /\ InStep(call[c]) /\ Requested(c, call[c].req) /\ IsPath(call[c].req.path)
  BY <1>1, InHand
<1>4. call[c].req.op = "copy" /\ ~OfDaemon(c)
  <2>. DEFINE p == call[c]
  <2>1. p.req.op = "copy"
    BY <1>1, <1>3 DEF InStep
  <2>. HIDE DEF p
  <2>. QED  BY <1>3, <2>1 DEF Requested, FSRequests, p
<1>. HIDE DEF dup
<1>5. DOMAIN q = CallFields /\ q.alone = call[c].alone /\ q.req.path = call[c].req.path /\ q.req.op = call[c].req.op
  BY <1>3, CallNames DEF Requested
<1>. HIDE DEF q
<1>6. Looking(q, r, "source", q.req.path, FALSE)
  BY <1>5, LookUpKeeps
<1>7. CASE Answer(c, FALSE)
  BY <1>1, <1>7, AnswerCarries
<1>8. CASE call[c].out = "found" /\ Go(c, k, Returned(q, FALSE))
  BY <1>1, <1>4, <1>5, <1>8, ReturnCarries
<1>9. CASE Go(c, k, r) /\ r = LookUp(k, q, "source", q.req.path, FALSE)
  <2>. HIDE DEF r
  <2>1. r.pc = "source" /\ r.req.op = "copy"
    BY <1>4, <1>5, <1>6 DEF Looking, Kept
  <2>2. Targets(docs, r) /\ DirUpload(docs, r) /\ After(docs, r)
    BY <2>1 DEF Targets, Posts, DirUpload, After
  <2>3. Grounded(c, docs, k, call[c]) =>
          Targets(docs, r) /\ DirUpload(docs, r) /\ After(docs, r) /\ (OfDaemon(c) => Held(docs, k, r))
    BY <1>4, <2>2
  <2>4. "source" \notin {"posted", "back", "done"} /\ call[c].pc \in Early
    BY <1>1 DEF Early
  <2>. QED  BY <1>1, <1>3, <1>5, <1>9, <2>3, <2>4, HandlerLookCarries
<1>. QED  BY <1>2, <1>7, <1>8, <1>9

LEMMA RenamesDaemon ==
  ASSUME AccessInv, NEW c \in Callers, Active(c), call[c].pc \in {"old", "into", "new", "old_gone", "new_there"}
  PROVE  OfDaemon(c) /\ call[c].req.op = "fs.rename"
<1>. DEFINE q == call[c]
<1>1. InStep(q) /\ Requested(c, q.req)
  BY InHand
<1>2. q.req.op = "fs.rename"
  BY <1>1 DEF InStep
<1>. HIDE DEF q
<1>3. OfDaemon(c)
  BY <1>1, <1>2 DEF Requested, FSRequests
<1>. QED  BY <1>2, <1>3 DEF q

LEMMA OldSeenCarries ==
  ASSUME AccessInv, NEW c \in Callers, OldSeen(c)
  PROVE  Carries(c)
<1>. DEFINE q == [call[c] EXCEPT !.was = call[c].info]
            k == Cache(c)
            r1 == LookUp(k, q, "new", q.req.to, FALSE)
            r2 == LookUp(k, q, "into", Parent(q.req.to), FALSE)
<1>1. call[c].pc = "old" /\ Active(c)
  BY DEF OldSeen, On, Active
<1>2. /\ DOMAIN call[c] = CallFields /\ IsPath(call[c].req.to) /\ IsPath(Parent(call[c].req.to))
      /\ OfDaemon(c) /\ call[c].req.op = "fs.rename"
  BY <1>1, InHand, RenamesDaemon
<1>3. \/ \E good : Answer(c, good)
      \/ call[c].out = "found" /\ Go(c, k, r1)
      \/ call[c].out = "found" /\ Go(c, k, r2)
  BY DEF OldSeen, Good
<1>4. /\ DOMAIN q = CallFields /\ q.alone = call[c].alone /\ q.req = call[c].req
      /\ q.was = call[c].info
  BY <1>2, CallNames
<1>. HIDE DEF q
<1>5. ASSUME NEW pc, pc \in {"new", "into"}, NEW goal, IsPath(goal), NEW r,
             r = LookUp(k, q, pc, goal, FALSE), call[c].out = "found", Go(c, k, r)
      PROVE  Carries(c)
  <2>0. Looking(q, r, pc, goal, FALSE)
    BY <1>4, <1>5, LookUpKeeps
  <2>1. Kept(q, r) /\ r.pc = pc
    BY <2>0 DEF Looking
  <2>2. ASSUME Grounded(c, docs, k, call[c])
        PROVE  Targets(docs, r) /\ DirUpload(docs, r) /\ After(docs, r) /\ Held(docs, k, r)
    <3>1. Walking(docs, k, call[c]) /\ Held(docs, k, call[c])
      BY <1>1, <1>2, <2>2, OwnCall DEF Looks
    <3>2. call[c].info.dir \/ call[c].req.path \in DOMAIN k
      BY <1>1, <1>5, <3>1 DEF Walking, Held
    <3>3. r.was = call[c].info /\ r.req = call[c].req
      BY <1>4, <2>1 DEF Kept
    <3>4. Targets(docs, r) /\ DirUpload(docs, r) /\ After(docs, r)
      BY <1>2, <1>5, <2>1, <3>3 DEF Targets, Posts, DirUpload, After
    <3>5. Held(docs, k, r)
      BY <1>5, <2>1, <3>2, <3>3 DEF Held
    <3>. QED  BY <3>4, <3>5
  <2>3. pc \notin {"posted", "back", "done"}
    BY <1>5
  <2>4. Grounded(c, docs, k, call[c]) =>
          Targets(docs, r) /\ DirUpload(docs, r) /\ After(docs, r) /\ (OfDaemon(c) => Held(docs, k, r))
    BY <2>2
  <2>. QED  BY <1>1, <1>2, <1>4, <1>5, <2>3, <2>4, HandlerLookCarries
<1>6. CASE \E good : Answer(c, good)
  BY <1>1, <1>6, AnswerCarries
<1>7. CASE call[c].out = "found" /\ Go(c, k, r1)
  <2>1. r1 = LookUp(k, q, "new", q.req.to, FALSE) /\ IsPath(q.req.to) /\ "new" \in {"new", "into"}
    BY <1>2, <1>4
  <2>. HIDE DEF r1
  <2>. QED  BY <1>5, <1>7, <2>1
<1>8. CASE call[c].out = "found" /\ Go(c, k, r2)
  <2>1. r2 = LookUp(k, q, "into", Parent(q.req.to), FALSE) /\ IsPath(Parent(q.req.to)) /\ "into" \in {"new", "into"}
    BY <1>2, <1>4
  <2>. HIDE DEF r2
  <2>. QED  BY <1>5, <1>8, <2>1
<1>. QED  BY <1>3, <1>6, <1>7, <1>8

\* A rename that goes on to its next lookup.
LEMMA RenameLooks ==
  ASSUME AccessInv, NEW c \in Callers, Active(c), call[c].pc \in {"into", "new"},
         NEW pc, pc \in {"new", "resolve", "source"}, NEW goal, IsPath(goal),
         pc = "resolve" => goal = call[c].req.path,
         NEW r, r = LookUp(Cache(c), call[c], pc, goal, FALSE), Go(c, Cache(c), r)
  PROVE  Carries(c)
<1>. DEFINE q == call[c]
            k == Cache(c)
<1>1. DOMAIN q = CallFields /\ OfDaemon(c) /\ q.req.op = "fs.rename"
  BY InHand, RenamesDaemon
<1>. Looking(q, r, pc, goal, FALSE)
  BY <1>1, LookUpKeeps
<1>2. Kept(q, r) /\ r.pc = pc /\ r.goal = goal
  BY DEF Looking
<1>3. ASSUME Grounded(c, docs, k, q)
      PROVE  Targets(docs, r) /\ DirUpload(docs, r) /\ After(docs, r) /\ Held(docs, k, r)
  <2>1. Held(docs, k, q)
    BY <1>1, <1>3, OwnCall
  <2>2. Held(docs, k, r)
    BY <1>2, <2>1 DEF Held, Kept, BeforeRename
  <2>3. Targets(docs, r) /\ DirUpload(docs, r) /\ After(docs, r)
    BY <1>1, <1>2 DEF Targets, Posts, DirUpload, After, Kept
  <2>. QED  BY <2>2, <2>3
<1>4. Grounded(c, docs, k, q) =>
        Targets(docs, r) /\ DirUpload(docs, r) /\ After(docs, r) /\ (OfDaemon(c) => Held(docs, k, r))
  BY <1>3
<1>5. pc \notin {"posted", "back", "done"} /\ q.pc # "posted" /\ q.alone = q.alone
  OBVIOUS
<1>. QED  BY <1>1, <1>4, <1>5, HandlerLookCarries

LEMMA IntoSeenCarries ==
  ASSUME AccessInv, NEW c \in Callers, IntoSeen(c)
  PROVE  Carries(c)
<1>. DEFINE q == call[c]
            r == LookUp(Cache(c), q, "new", q.req.to, FALSE)
<1>1. q.pc = "into" /\ Active(c) /\ (Answer(c, FALSE) \/ Go(c, Cache(c), r))
  BY DEF IntoSeen, On, Active
<1>2. IsPath(q.req.to) /\ r = LookUp(Cache(c), q, "new", q.req.to, FALSE) /\ "new" \in {"new", "resolve", "source"}
  BY <1>1, InHand
<1>3. CASE Answer(c, FALSE)
  BY <1>1, <1>3, AnswerCarries
<1>4. CASE Go(c, Cache(c), r)
  <2>. HIDE DEF r
  <2>. QED  BY <1>1, <1>2, <1>4, RenameLooks
<1>. QED  BY <1>1, <1>3, <1>4

LEMMA NewSeenCarries ==
  ASSUME AccessInv, NEW c \in Callers, NewSeen(c)
  PROVE  Carries(c)
<1>. DEFINE q == call[c]
            k == Cache(c)
            r1 == LookUp(k, q, "resolve", q.req.path, FALSE)
            r2 == LookUp(k, q, "source", q.req.path, FALSE)
<1>1. q.pc = "new" /\ Active(c)
  BY DEF NewSeen, On, Active
<1>2. Answer(c, FALSE) \/ Go(c, k, r1) \/ Go(c, k, Returned(q, FALSE)) \/ Go(c, k, r2)
  BY DEF NewSeen, OnDocument, Transfer
<1>3. DOMAIN q = CallFields /\ IsPath(q.req.path) /\ OfDaemon(c) /\ q.req.op = "fs.rename"
  BY <1>1, InHand, RenamesDaemon
<1>4. CASE Answer(c, FALSE)
  BY <1>1, <1>4, AnswerCarries
<1>5. CASE Go(c, k, Returned(q, FALSE))
  <2>1. ASSUME Grounded(c, docs, k, q)
        PROVE  /\ Exact(docs, k)
               /\ Restricted /\ q.req.op = "fs.rename" /\ ~q.was.dir => q.req.path \in DOMAIN k
    <3>1. Exact(docs, k) /\ Held(docs, k, q)
      BY <1>1, <1>3, <2>1, OwnCall DEF Acted
    <3>. QED  BY <1>1, <3>1 DEF Held, BeforeRename
  <2>. QED  BY <1>1, <1>3, <1>5, <2>1, ReturnCarries
<1>6. CASE Go(c, k, r1)
  <2>1. r1 = LookUp(k, q, "resolve", q.req.path, FALSE) /\ "resolve" \in {"new", "resolve", "source"}
    OBVIOUS
  <2>. HIDE DEF r1
  <2>. QED  BY <1>1, <1>3, <1>6, <2>1, RenameLooks
<1>7. CASE Go(c, k, r2)
  <2>1. r2 = LookUp(k, q, "source", q.req.path, FALSE) /\ "source" \in {"new", "resolve", "source"}
    OBVIOUS
  <2>. HIDE DEF r2
  <2>. QED  BY <1>1, <1>3, <1>7, <2>1, RenameLooks
<1>. QED  BY <1>2, <1>4, <1>5, <1>6, <1>7

LEMMA RenameReturnedCarries ==
  ASSUME AccessInv, NEW c \in Callers, RenameReturned(c)
  PROVE  Carries(c)
<1>. DEFINE q == call[c]
            k == Cache(c)
            r == LookUp(k, q, "old_gone", q.req.path, FALSE)
<1>1. q.pc = "back" /\ Active(c) /\ OfDaemon(c) /\ q.req.op = "fs.rename" /\ Restricted
  BY DEF RenameReturned, On, Active
<1>2. \/ \E good : Answer(c, good)
      \/ Go(c, k, r) /\ (q.was.dir => q.out = "found")
  BY DEF RenameReturned, Good
<1>3. DOMAIN q = CallFields /\ IsPath(q.req.path)
  BY <1>1, InHand
<1>4. CASE \E good : Answer(c, good)
  BY <1>1, <1>4, AnswerCarries
<1>5. CASE Go(c, k, r) /\ (q.was.dir => q.out = "found")
  <2>1. Looking(q, r, "old_gone", q.req.path, FALSE)
    BY <1>3, LookUpKeeps
  <2>2. Kept(q, r) /\ r.pc = "old_gone" /\ (Effected(docs, r) <=> Effected(docs, q))
    <3>. HIDE DEF r
    <3>1. Kept(q, r) /\ r.pc = "old_gone"
      BY <2>1 DEF Looking
    <3>. QED  BY <3>1, EffectedKept DEF Kept
  <2>3. ASSUME Grounded(c, docs, k, q)
        PROVE  Targets(docs, r) /\ DirUpload(docs, r) /\ After(docs, r) /\ Held(docs, k, r)
    <3>1. Exact(docs, k) /\ After(docs, q) /\ Held(docs, k, q)
      BY <1>1, <2>3, OwnCall DEF Acted
    <3>2. q.out = "found" => Effected(docs, q)
      BY <1>1, <3>1 DEF After
    <3>3. ~q.was.dir => q.req.path \in DOMAIN k \/ Effected(docs, q)
      BY <1>1, <3>1 DEF Held, Renames
    <3>4. q.req.path \in DOMAIN k => r.out = "found"
      <4>1. LET s == LookUp(k, q, "old_gone", q.req.path, FALSE) IN
            /\ Walking(docs, k, s)
            /\ q.req.path \in DOMAIN k /\ ~FALSE => s.out = "found"
        BY <1>3, <3>1, LookUpWalks
      <4>. QED  BY <4>1
    <3>. HIDE DEF r, q
    <3>5. r.gone = q.gone /\ r.was = q.was /\ r.req = q.req
      BY <2>2 DEF Kept
    <3>6. After(docs, r)
      BY <1>5, <2>2, <3>2, <3>3, <3>4, <3>5 DEF After
    <3>7. Targets(docs, r) /\ DirUpload(docs, r) /\ Held(docs, k, r)
      BY <1>1, <2>2, <3>5 DEF Targets, Posts, DirUpload, Held, Renames, BeforeRename
    <3>. QED  BY <3>6, <3>7
  <2>4. /\ r = LookUp(k, q, "old_gone", q.req.path, FALSE) /\ "old_gone" \notin {"posted", "back", "done"}
        /\ q.pc # "posted" /\ q.alone = q.alone /\ Go(c, k, r)
    BY <1>1, <1>5
  <2>. HIDE DEF r
  <2>5. Grounded(c, docs, k, q) =>
          Targets(docs, r) /\ DirUpload(docs, r) /\ After(docs, r) /\ (OfDaemon(c) => Held(docs, k, r))
    BY <2>3
  <2>. QED  BY <1>1, <1>3, <1>5, <2>4, <2>5, HandlerLookCarries
<1>. QED  BY <1>2, <1>4, <1>5

LEMMA OldGoneCarries ==
  ASSUME AccessInv, NEW c \in Callers, OldGone(c)
  PROVE  Carries(c)
<1>. DEFINE q == [call[c] EXCEPT !.gone = ~Good(c)]
            k == Cache(c)
            r == LookUp(k, q, "new_there", q.req.to, FALSE)
<1>1. call[c].pc = "old_gone" /\ call[c].out \in {"found", "none"} /\ Active(c) /\ Go(c, k, r)
  BY DEF OldGone, On, Active
<1>2. /\ DOMAIN call[c] = CallFields /\ IsPath(call[c].req.to) /\ OfDaemon(c) /\ call[c].req.op = "fs.rename"
  BY <1>1, InHand, RenamesDaemon
<1>3. /\ DOMAIN q = CallFields /\ q.req = call[c].req /\ q.was = call[c].was /\ q.alone = call[c].alone
      /\ q.src = call[c].src /\ q.dst = call[c].dst /\ q.name = call[c].name /\ q.new = call[c].new
      /\ q.gone <=> call[c].out # "found"
  <2>1. q = [call[c] EXCEPT !.gone = ~Good(c)]
    OBVIOUS
  <2>. HIDE DEF q
  <2>2. ASSUME NEW g, q = [call[c] EXCEPT !.gone = g]
        PROVE  /\ DOMAIN q = CallFields /\ q.req = call[c].req /\ q.was = call[c].was /\ q.alone = call[c].alone
               /\ q.src = call[c].src /\ q.dst = call[c].dst /\ q.name = call[c].name /\ q.new = call[c].new
               /\ q.gone = g
    BY <1>2, <2>2, CallNames
  <2>. QED  BY <2>1, <2>2 DEF Good
<1>. HIDE DEF q
<1>4. Looking(q, r, "new_there", q.req.to, FALSE)
  BY <1>3, LookUpKeeps
<1>5. r = LookUp(k, q, "new_there", q.req.to, FALSE) /\ IsPath(q.req.to) /\ "new_there" \notin {"posted", "back", "done"}
  BY <1>2, <1>3
<1>. HIDE DEF r
<1>6. Kept(q, r) /\ r.pc = "new_there"
  BY <1>4 DEF Looking
<1>7. Effected(docs, r) <=> Effected(docs, call[c])
  BY <1>3, <1>6, EffectedKept DEF Kept
<1>8. ASSUME Grounded(c, docs, k, call[c])
      PROVE  Targets(docs, r) /\ DirUpload(docs, r) /\ After(docs, r) /\ Held(docs, k, r)
  <2>1. After(docs, call[c])
    BY <1>8, OwnCall
  <2>2. r.gone = q.gone /\ r.was = call[c].was /\ r.req = call[c].req
    BY <1>3, <1>6 DEF Kept
  <2>3. After(docs, r)
    BY <1>1, <1>3, <1>6, <1>7, <2>1, <2>2 DEF After
  <2>4. Targets(docs, r) /\ DirUpload(docs, r) /\ Held(docs, k, r)
    BY <1>2, <1>6, <2>2 DEF Targets, Posts, DirUpload, Held, Renames, BeforeRename
  <2>. QED  BY <2>3, <2>4
<1>9. Grounded(c, docs, k, call[c]) =>
        Targets(docs, r) /\ DirUpload(docs, r) /\ After(docs, r) /\ (OfDaemon(c) => Held(docs, k, r))
  BY <1>8
<1>10. call[c].pc # "posted"
  BY <1>1
<1>. QED  BY <1>1, <1>2, <1>3, <1>5, <1>9, <1>10, HandlerLookCarries

\* Of the handlers of removals and uploads.
LEMMA HandlersDaemon ==
  ASSUME AccessInv, NEW c \in Callers, Active(c),
         call[c].pc \in {"removing", "target"} \/ call[c].req.op \in {"fs.remove", "fs.uploadStaged"}
  PROVE  OfDaemon(c) /\ call[c].req.op \in {"fs.remove", "fs.uploadStaged"}
         /\ (call[c].pc = "removing" => call[c].req.op = "fs.remove")
<1>. DEFINE q == call[c]
<1>1. InStep(q) /\ Requested(c, q.req)
  BY InHand
<1>2. q.req.op \in {"fs.remove", "fs.uploadStaged"} /\ (q.pc = "removing" => q.req.op = "fs.remove")
  BY <1>1 DEF InStep
<1>. HIDE DEF q
<1>3. OfDaemon(c)
  BY <1>1, <1>2 DEF Requested, FSRequests
<1>. QED  BY <1>2, <1>3 DEF q

\* These look up a path of the request or its parent.
LEMMA HandlerStep ==
  ASSUME AccessInv, NEW c \in Callers, Active(c), call[c].pc # "posted",
         call[c].req.op \in {"fs.remove", "fs.uploadStaged"},
         NEW q, DOMAIN q = CallFields, q.req = call[c].req, q.alone = call[c].alone,
         NEW pc, pc \in {"resolve", "parent", "removed", "staged"}, NEW goal, IsPath(goal),
         pc = "resolve" => goal = q.req.path,
         pc = "parent" => goal = Parent(q.req.path) /\ q.req.path # <<>>,
         (pc = "removed" /\ q.gone) \/ pc = "staged" =>
           call[c].pc = "back" /\ call[c].out = "found"
           /\ q.src = call[c].src /\ q.dst = call[c].dst /\ q.name = call[c].name /\ q.new = call[c].new,
         NEW r, r = LookUp(Cache(c), q, pc, goal, FALSE), Go(c, Cache(c), r)
  PROVE  Carries(c)
<1>. DEFINE k == Cache(c)
<1>1. OfDaemon(c)
  BY HandlersDaemon
<1>2. Looking(q, r, pc, goal, FALSE)
  BY LookUpKeeps
<1>3. Kept(q, r) /\ r.pc = pc /\ r.goal = goal
  BY <1>2 DEF Looking
<1>4. ASSUME Grounded(c, docs, k, call[c])
      PROVE  Targets(docs, r) /\ DirUpload(docs, r) /\ After(docs, r) /\ Held(docs, k, r)
  <2>1. r.req = call[c].req /\ r.gone = q.gone
    BY <1>3 DEF Kept
  <2>2. (pc = "removed" /\ q.gone) \/ pc = "staged" => Effected(docs, r)
    <3>. SUFFICES ASSUME (pc = "removed" /\ q.gone) \/ pc = "staged" PROVE Effected(docs, r)
      OBVIOUS
    <3>1. Effected(docs, call[c])
      BY <1>4, OwnCall DEF After
    <3>. QED  BY <1>3, <3>1, EffectedKept DEF Kept
  <2>3. Targets(docs, r) /\ DirUpload(docs, r) /\ Held(docs, k, r)
    BY <1>3, <2>1 DEF Targets, Posts, DirUpload, Held
  <2>4. After(docs, r)
    BY <1>3, <2>1, <2>2 DEF After
  <2>. QED  BY <2>3, <2>4
<1>5. Grounded(c, docs, k, call[c]) =>
        Targets(docs, r) /\ DirUpload(docs, r) /\ After(docs, r) /\ (OfDaemon(c) => Held(docs, k, r))
  BY <1>4
<1>6. pc \notin {"posted", "back", "done"}
  OBVIOUS
<1>. QED  BY <1>1, <1>5, <1>6, HandlerLookCarries

LEMMA RemovalSeenCarries ==
  ASSUME AccessInv, NEW c \in Callers, RemovalSeen(c)
  PROVE  Carries(c)
<1>. DEFINE q == [call[c] EXCEPT !.was = call[c].info]
            r == LookUp(Cache(c), q, "resolve", q.req.path, FALSE)
<1>1. call[c].pc = "removing" /\ Active(c) /\ (Go(c, Cache(c), r) \/ Answer(c, FALSE))
  BY DEF RemovalSeen, On, Active, OnDocument
<1>2. DOMAIN call[c] = CallFields /\ IsPath(call[c].req.path) /\ call[c].req.op = "fs.remove"
  BY <1>1, InHand, HandlersDaemon
<1>3. DOMAIN q = CallFields /\ q.req = call[c].req /\ q.alone = call[c].alone
  BY <1>2, CallNames
<1>. HIDE DEF q
<1>4. r = LookUp(Cache(c), q, "resolve", q.req.path, FALSE) /\ IsPath(q.req.path)
  BY <1>2, <1>3
<1>5. "resolve" \in {"resolve", "parent", "removed", "staged"} /\ call[c].pc # "posted"
      /\ "resolve" # "parent" /\ "resolve" # "removed" /\ "resolve" # "staged"
  BY <1>1
<1>6. CASE Answer(c, FALSE)
  BY <1>1, <1>5, <1>6, AnswerCarries
<1>7. CASE Go(c, Cache(c), r)
  <2>. HIDE DEF r
  <2>. QED  BY <1>1, <1>2, <1>3, <1>4, <1>5, <1>7, HandlerStep
<1>. QED  BY <1>1, <1>6, <1>7

LEMMA RemoveReturnedCarries ==
  ASSUME AccessInv, NEW c \in Callers, RemoveReturned(c)
  PROVE  Carries(c)
<1>. DEFINE q == [call[c] EXCEPT !.gone = Good(c)]
            r == LookUp(Cache(c), q, "removed", call[c].req.path, FALSE)
<1>1. /\ call[c].pc = "back" /\ Active(c) /\ Go(c, Cache(c), r)
      /\ call[c].req.op = "fs.remove"
  BY DEF RemoveReturned, On, Active
<1>2. DOMAIN call[c] = CallFields /\ IsPath(call[c].req.path)
  BY <1>1, InHand
<1>3. /\ DOMAIN q = CallFields /\ q.req = call[c].req /\ q.alone = call[c].alone
      /\ q.src = call[c].src /\ q.dst = call[c].dst /\ q.name = call[c].name /\ q.new = call[c].new
      /\ q.gone => call[c].out = "found"
  <2>1. q = [call[c] EXCEPT !.gone = Good(c)]
    OBVIOUS
  <2>. HIDE DEF q
  <2>2. ASSUME NEW g, q = [call[c] EXCEPT !.gone = g]
        PROVE  /\ DOMAIN q = CallFields /\ q.req = call[c].req /\ q.alone = call[c].alone
               /\ q.src = call[c].src /\ q.dst = call[c].dst /\ q.name = call[c].name /\ q.new = call[c].new
               /\ q.gone = g
    BY <1>2, <2>2, CallNames
  <2>. QED  BY <2>1, <2>2 DEF Good
<1>. HIDE DEF q
<1>4. r = LookUp(Cache(c), q, "removed", call[c].req.path, FALSE)
  OBVIOUS
<1>5. "removed" \in {"resolve", "parent", "removed", "staged"} /\ call[c].pc # "posted"
      /\ "removed" # "parent" /\ "removed" # "resolve" /\ "removed" # "staged"
  BY <1>1
<1>. HIDE DEF r
<1>. QED  BY <1>1, <1>2, <1>3, <1>4, <1>5, HandlerStep

LEMMA TargetSeenCarries ==
  ASSUME AccessInv, NEW c \in Callers, TargetSeen(c)
  PROVE  Carries(c)
<1>. DEFINE q == call[c]
            r == LookUp(Cache(c), q, "parent", Parent(q.req.path), FALSE)
<1>1. /\ q.pc = "target" /\ Active(c)
      /\ \/ q.req.path # <<>> /\ Go(c, Cache(c), r)
         \/ Go(c, Cache(c), Returned(q, FALSE))
         \/ Answer(c, FALSE)
  BY DEF TargetSeen, On, Active, IntoParent
<1>2. DOMAIN q = CallFields /\ IsPath(Parent(q.req.path)) /\ InStep(q)
  BY <1>1, InHand
<1>3. q.req.op = "fs.uploadStaged" /\ q.pc # "posted"
  BY <1>1, <1>2 DEF InStep
<1>4. CASE Answer(c, FALSE)
  BY <1>1, <1>3, <1>4, AnswerCarries
<1>5. CASE Go(c, Cache(c), Returned(q, FALSE))
  <2>1. Grounded(c, docs, Cache(c), q) => (OfDaemon(c) => Exact(docs, Cache(c)))
    BY <1>3, OwnCall DEF Acted
  <2>2. q.req.op # "fs.rename" /\ q.alone = q.alone
    BY <1>3
  <2>. QED  BY <1>1, <1>2, <1>5, <2>1, <2>2, ReturnCarries
<1>6. CASE q.req.path # <<>> /\ Go(c, Cache(c), r)
  <2>1. r = LookUp(Cache(c), q, "parent", Parent(q.req.path), FALSE)
    OBVIOUS
  <2>2. "parent" \in {"resolve", "parent", "removed", "staged"} /\ q.alone = q.alone /\ q.req = q.req
        /\ "parent" # "resolve" /\ "parent" # "removed" /\ "parent" # "staged"
    OBVIOUS
  <2>. HIDE DEF r
  <2>. QED  BY <1>1, <1>2, <1>3, <1>6, <2>1, <2>2, HandlerStep
<1>. QED  BY <1>1, <1>4, <1>5, <1>6

LEMMA StagedReturnedCarries ==
  ASSUME AccessInv, NEW c \in Callers, StagedReturned(c)
  PROVE  Carries(c)
<1>. DEFINE q == call[c]
            r == LookUp(Cache(c), q, "staged", q.req.path, FALSE)
<1>1. /\ q.pc = "back" /\ Active(c) /\ q.req.op = "fs.uploadStaged" /\ q.pc # "posted"
      /\ (q.out = "found" /\ Go(c, Cache(c), r)) \/ Answer(c, FALSE)
  BY DEF StagedReturned, On, Active, Good
<1>2. DOMAIN q = CallFields /\ IsPath(q.req.path)
  BY <1>1, InHand
<1>3. CASE Answer(c, FALSE)
  BY <1>1, <1>3, AnswerCarries
<1>4. CASE q.out = "found" /\ Go(c, Cache(c), r)
  <2>1. r = LookUp(Cache(c), q, "staged", q.req.path, FALSE)
    OBVIOUS
  <2>2. "staged" \in {"resolve", "parent", "removed", "staged"} /\ q.alone = q.alone /\ q.req = q.req
        /\ "staged" # "resolve" /\ "staged" # "parent"
    OBVIOUS
  <2>3. ("staged" = "removed" /\ q.gone) \/ "staged" = "staged" =>
          q.pc = "back" /\ q.out = "found"
          /\ q.src = q.src /\ q.dst = q.dst /\ q.name = q.name /\ q.new = q.new
    BY <1>1, <1>4
  <2>. HIDE DEF r
  <2>. QED  BY <1>1, <1>2, <1>4, <2>1, <2>2, <2>3, HandlerStep
<1>. QED  BY <1>1, <1>3, <1>4

LEMMA HandlerCarries ==
  ASSUME AccessInv, NEW c \in Callers, Handler(c)
  PROVE  Carries(c)
BY AnsweringCarries, CopyDecidedCarries, OldSeenCarries, IntoSeenCarries, NewSeenCarries,
   RenameReturnedCarries, OldGoneCarries, RemovalSeenCarries, RemoveReturnedCarries, TargetSeenCarries,
   StagedReturnedCarries DEF Handler
-----------------------------------------------------------------------------
(* The posts. *)

LEMMA ExactWithMore ==
  ASSUME NEW d, NEW k, Exact(d, k), NEW a, Len(d) \in Nat, Len(a) \in Nat, Len(d) <= Len(a),
         \A i \in 1..Len(d) : a[i] = d[i]
  PROVE  Exact(a, k)
<1>. SUFFICES ASSUME NEW p \in DOMAIN k PROVE IsPath(p) /\ p # <<>> /\ TrueOf(a, p, k[p])
  BY DEF Exact
<1>1. IsPath(p) /\ p # <<>> /\ TrueOf(d, p, k[p])
  BY DEF Exact
<1>2. At(d, p) \subseteq At(a, p) /\ \A i \in At(d, p) : a[i] = d[i]
  BY <1>1, AddedElsewhere
<1>. QED  BY <1>1, <1>2 DEF TrueOf

LEMMA ExactElsewhere ==
  ASSUME NEW d, NEW k, Exact(d, k), NEW a, Len(d) \in Nat, Len(a) = Len(d), NEW top, IsPath(top), top # <<>>,
         \A i \in Live(d) : a[i] = d[i] \/ i \in Under(d, top)
  PROVE  Exact(a, Forget(k, top))
<1>. DEFINE j == Forget(k, top)
<1>1. DOMAIN j = {p \in DOMAIN k : ~Below(p, top)} /\ \A p \in DOMAIN j : j[p] = k[p]
  BY ForgetIs
<1>. HIDE DEF j
<1>2. ASSUME NEW p \in DOMAIN j PROVE IsPath(p) /\ p # <<>> /\ TrueOf(a, p, j[p])
  <2>1. IsPath(p) /\ p # <<>> /\ TrueOf(d, p, j[p]) /\ ~Below(p, top)
    BY <1>1 DEF Exact
  <2>2. At(d, p) \subseteq At(a, p) /\ \A i \in At(d, p) : a[i] = d[i]
    BY <2>1, ChangedBelow
  <2>. QED  BY <2>1, <2>2 DEF TrueOf
<1>3. Exact(a, j)
  BY <1>2 DEF Exact
<1>. QED  BY <1>3 DEF j

\* A post of q's has succeeded with a for the documents, and the call goes on as r.
Succeeds(q, a, r) ==
  /\ DOMAIN r = CallFields /\ r.verb \in Follows(q) /\ r.pc = q.pc
  /\ r.out = (IF r.verb = q.verb THEN "found" ELSE "post")
  /\ r.req = q.req /\ r.was = q.was /\ r.src = q.src /\ r.dst = q.dst /\ r.left = q.left
  /\ r.gone = q.gone /\ r.alone = q.alone
  /\ r.new = Answers(q, a)
  /\ r.name = (IF q.verb = "getsuggestname" THEN Suggested(q)
               ELSE IF Answers(q, a) # Gone THEN a[Answers(q, a)].name ELSE q.name)

\* A post that does what was asked for.
LEMMA FinalIsGrounded ==
  ASSUME NEW c, NEW q, NEW a, NEW k, Posts(q), q.verb \in Finals, Targets(docs, q), NEW r, Succeeds(q, a, r),
         InStep(q), OfDaemon(c) => CacheIsTrue(a, k, r), DirUpload(a, r),
         q.req.op # "upload-dir" => Effected(a, r)
  PROVE  Grounded(c, a, k, r)
<1>1. /\ r.pc = "posted" /\ r.out = "found" /\ r.verb = q.verb /\ r.req = q.req
  BY DEF Succeeds, Posts, Follows, Finals, Acting
<1>2. Targets(a, r)
  BY <1>1 DEF Targets, Posts, Finals, Acting
<1>3. After(a, r)
  BY <1>1 DEF After
<1>4. Held(a, k, r)
  BY <1>1 DEF Held, Posts, BeforeRename
<1>5. OfDaemon(c) \/ r.pc \in Early => CacheIsTrue(a, k, r) /\ (Looks(r) => Walking(a, k, r))
  BY <1>1 DEF Early, Looks
<1>. QED  BY <1>2, <1>3, <1>4, <1>5 DEF Grounded

\* A post that the server carries out, of a call that is known of.
PostOf(c, q, a, r) ==
  /\ Active(c) /\ q = call[c] /\ Posts(q) /\ a = Effect(q) /\ a # Refused /\ Succeeds(q, a, r)
  /\ Grounded(c, docs, Cache(c), q)

LEMMA PostInHand ==
  ASSUME AccessInv, NEW c \in Callers, NEW q, NEW a, NEW r, PostOf(c, q, a, r)
  PROVE  /\ DOMAIN q = CallFields /\ InStep(q) /\ Requested(c, q.req) /\ (OfDaemon(c) /\ Restricted => Heeds(mode, q))
         /\ IsPath(q.req.path) /\ IsPath(q.req.to) /\ IsPath(Parent(q.req.path)) /\ IsPath(Destination(q))
         /\ q.pc = "posted" /\ q.out = "post"
         /\ Targets(docs, q) /\ DirUpload(docs, q) /\ (OfDaemon(c) => Held(docs, Cache(c), q) /\ Exact(docs, Cache(c)))
         /\ AreDocs(docs) /\ IsTree(docs) /\ Len(docs) \in Nat
         /\ AreDocs(a) /\ IsTree(a) /\ Len(a) \in Nat /\ Len(a) >= Len(docs)
<1>1. /\ DOMAIN q = CallFields /\ InStep(q) /\ Requested(c, q.req) /\ (OfDaemon(c) /\ Restricted => Heeds(mode, q))
      /\ IsPath(q.req.path) /\ IsPath(q.req.to) /\ IsPath(Parent(q.req.path)) /\ IsPath(Destination(q))
  BY InHand DEF PostOf
<1>2. q.pc = "posted" /\ q.out = "post"
  BY DEF PostOf, Posts
<1>3. Targets(docs, q) /\ DirUpload(docs, q) /\ (OfDaemon(c) => Held(docs, Cache(c), q) /\ Exact(docs, Cache(c)))
  BY <1>2, OwnCall DEF PostOf, Acted
<1>4. AreDocs(docs) /\ IsTree(docs) /\ Len(docs) \in Nat
  BY DEF AccessInv, AreDocs
<1>5. AreDocs(a) /\ IsTree(a) /\ Len(a) \in Nat /\ Len(a) >= Len(docs)
  BY <1>4, EffectKeeps DEF PostOf, AreDocs
<1>. QED  BY <1>1, <1>2, <1>3, <1>4, <1>5

LEMMA DeletePosted ==
  ASSUME AccessInv, NEW c \in Callers, NEW q, NEW a, NEW r, PostOf(c, q, a, r), q.verb = "delete"
  PROVE  Grounded(c, a, Cache(c), r)
<1>. DEFINE k == Cache(c)
            top == q.req.path
<1>0. /\ InStep(q) /\ IsPath(top) /\ q.pc = "posted" /\ q.out = "post" /\ Targets(docs, q)
      /\ OfDaemon(c) => Exact(docs, k)
      /\ AreDocs(docs) /\ IsTree(docs) /\ Len(docs) \in Nat
  BY PostInHand
<1>1. q.src \in At(docs, top) /\ q.req.op \in {"fs.remove", "rm"}
  BY <1>0 DEF Targets, InStep, Posts, Acting
<1>2. a = Deleted(docs, q.src) /\ a # Refused /\ Succeeds(q, a, r) /\ Posts(q)
  BY DEF PostOf, Effect
<1>3. /\ top # <<>> /\ Len(a) = Len(docs) /\ At(a, top) = {}
      /\ \A i \in Live(docs) : a[i] = docs[i] \/ i \in Under(docs, top)
  BY <1>0, <1>1, <1>2, DeletedThere
<1>4. OfDaemon(c) => Exact(a, Forget(k, top))
  BY <1>0, <1>3, ExactElsewhere
<1>5. r.req = q.req /\ r.verb = "delete"
  BY <1>2 DEF Succeeds, Follows
<1>. HIDE DEF k
<1>6. OfDaemon(c) => CacheIsTrue(a, k, r)
  BY <1>0, <1>2, <1>4, <1>5 DEF CacheIsTrue, Acted, Acting, Succeeds
<1>7. DirUpload(a, r)
  BY <1>1, <1>5 DEF DirUpload
<1>8. Effected(a, r)
  BY <1>1, <1>3, <1>5 DEF Effected, Done
<1>. QED  BY <1>0, <1>2, <1>6, <1>7, <1>8, FinalIsGrounded DEF Finals, Acting, k

LEMMA RenamePosted ==
  ASSUME AccessInv, NEW c \in Callers, NEW q, NEW a, NEW r, PostOf(c, q, a, r), q.verb = "rename"
  PROVE  Grounded(c, a, Cache(c), r)
<1>. DEFINE k == Cache(c)
            top == q.req.path
<1>0. /\ InStep(q) /\ IsPath(top) /\ q.pc = "posted" /\ q.out = "post" /\ Targets(docs, q)
      /\ OfDaemon(c) => Exact(docs, k)
      /\ AreDocs(docs) /\ IsTree(docs) /\ Len(docs) \in Nat /\ IsPath(q.req.to)
  BY PostInHand
<1>1. /\ q.src \in At(docs, top) /\ q.req.op \in {"fs.rename", "rename"}
      /\ q.req.to # <<>> /\ q.name = Base(q.req.to)
      /\ q.req.op = "rename" => top # q.req.to /\ SameParent(top, q.req.to)
  BY <1>0 DEF Targets, InStep, Posts, Acting
<1>2. a = Renamed(docs, q.src, q.name) /\ a # Refused /\ Succeeds(q, a, r) /\ Posts(q)
  BY DEF PostOf, Effect
<1>3. /\ top # <<>> /\ Len(a) = Len(docs)
      /\ \A i \in Live(docs) : a[i] = docs[i] \/ i \in Under(docs, top)
      /\ q.src \in At(a, Append(Parent(top), q.name))
      /\ q.name # Base(top) => At(a, top) = {}
  BY <1>0, <1>1, <1>2, RenamedThere
<1>4. OfDaemon(c) => Exact(a, Forget(k, top))
  BY <1>0, <1>3, ExactElsewhere
<1>5. r.req = q.req /\ r.verb = "rename" /\ r.src = q.src
  BY <1>2 DEF Succeeds, Follows
<1>. HIDE DEF k
<1>6. OfDaemon(c) => CacheIsTrue(a, k, r)
  BY <1>0, <1>2, <1>4, <1>5 DEF CacheIsTrue, Acted, Acting, Succeeds
<1>7. DirUpload(a, r)
  BY <1>1, <1>5 DEF DirUpload
<1>8. Effected(a, r)
  <2>1. CASE SameParent(top, q.req.to) /\ top # q.req.to
    <3>1. Parent(top) = Parent(q.req.to)
      BY <2>1 DEF SameParent
    <3>2. q.req.to = Append(Parent(top), q.name) /\ top = Append(Parent(top), Base(top))
      BY <1>0, <1>1, <1>3, <3>1, ParentIs
    <3>3. q.name # Base(top)
      BY <2>1, <3>2
    <3>4. \E i \in At(a, r.req.to) : i = r.src
      BY <1>3, <1>5, <3>2
    <3>5. At(a, r.req.path) = {}
      BY <1>3, <1>5, <3>3
    <3>. QED  BY <1>1, <1>5, <3>4, <3>5 DEF Effected, Done
  <2>2. CASE top = q.req.to
    BY <1>1, <1>5, <2>2 DEF Effected, Special
  <2>3. CASE ~SameParent(top, q.req.to)
    <3>1. q.req.op = "fs.rename"
      BY <1>1, <2>3
    <3>2. OfDaemon(c)
      BY <3>1, PostInHand DEF Requested, FSRequests
    <3>3. ~Restricted
      BY <1>0, <2>3, <3>1, <3>2, PostInHand DEF Heeds
    <3>. QED  BY <1>5, <2>3, <3>1, <3>3 DEF Effected, Special
  <2>. QED  BY <2>1, <2>2, <2>3
<1>. QED  BY <1>0, <1>2, <1>6, <1>7, <1>8, FinalIsGrounded DEF Finals, Acting, k

\* The docid that a move or a renaming is answered with is the document's.
LEMMA AnswersSource ==
  ASSUME NEW q, NEW a, q.verb \in {"move", "rename"}
  PROVE  Answers(q, a) = q.src
BY DEF Answers

\* No restricted mode lets a move change the name.
LEMMA MoveKeepsName ==
  ASSUME NEW m, NEW dir, NEW parent, NEW same, LetsRename(m, dir, parent, same), ~parent
  PROVE  same
<1>1. CASE dir
  BY <1>1 DEF LetsRename
<1>2. CASE ~dir
  BY <1>2 DEF LetsRename
<1>. QED  BY <1>1, <1>2

LEMMA MovePosted ==
  ASSUME AccessInv, NEW c \in Callers, NEW q, NEW a, NEW r, PostOf(c, q, a, r), q.verb = "move"
  PROVE  Grounded(c, a, Cache(c), r)
<1>. DEFINE k == Cache(c)
            top == q.req.path
            into == Destination(q)
<1>0. /\ InStep(q) /\ IsPath(top) /\ q.pc = "posted" /\ q.out = "post" /\ Targets(docs, q)
      /\ OfDaemon(c) => Exact(docs, k)
      /\ AreDocs(docs) /\ IsTree(docs) /\ Len(docs) \in Nat /\ IsPath(q.req.to) /\ IsPath(into)
  BY PostInHand
<1>1. /\ q.src \in At(docs, top) /\ q.req.op \in {"fs.rename", "move"}
      /\ q.dst \in At(docs, into) /\ into # Parent(top)
  BY <1>0 DEF Targets, InStep, Posts, Acting, Moves
<1>2. a = Moved(docs, q.src, q.dst, TransferOnDup(q.req.dup)) /\ a # Refused /\ Succeeds(q, a, r) /\ Posts(q)
  BY DEF PostOf, Effect
<1>3. r.req = q.req /\ r.verb = "move" /\ r.src = q.src /\ r.dst = q.dst
  BY <1>2 DEF Succeeds, Follows
<1>4. DirUpload(a, r)
  BY <1>1, <1>3 DEF DirUpload
<1>5. CASE q.req.op = "move"
  <2>1. ~OfDaemon(c)
    BY <1>5, PostInHand DEF Requested, FSRequests
  <2>. DEFINE dup == TransferOnDup(q.req.dup)
  <2>. HIDE DEF dup
  <2>2. q.src \in Children(a, q.dst)
    BY <1>0, <1>2, MovedIsIn DEF dup
  <2>3. r.new = q.src
    <3>1. Answers(q, a) = q.src
      BY AnswersSource
    <3>. QED  BY <1>2, <3>1 DEF Succeeds
  <2>4. Effected(a, r)
    BY <1>3, <1>5, <2>2, <2>3 DEF Effected, Done
  <2>. QED  BY <1>0, <1>2, <1>4, <2>1, <2>4, FinalIsGrounded DEF Finals, Acting
<1>6. CASE q.req.op = "fs.rename"
  <2>1. OfDaemon(c) /\ q.req.dup = "fail"
    BY <1>6, PostInHand DEF Requested, FSRequests
  <2>2. a = Moved(docs, q.src, q.dst, 1)
    BY <1>2, <2>1 DEF TransferOnDup
  <2>3. /\ top # <<>> /\ Len(a) = Len(docs)
        /\ \A i \in Live(docs) : a[i] = docs[i] \/ i \in Under(docs, top)
        /\ q.src \in At(a, Append(into, Base(top))) /\ At(a, top) = {}
    BY <1>0, <1>1, <1>2, <2>2, MovedThere
  <2>4. Exact(a, Forget(k, top))
    BY <1>0, <2>1, <2>3, ExactElsewhere
  <2>. HIDE DEF k
  <2>5. CacheIsTrue(a, k, r)
    BY <1>0, <1>2, <1>3, <2>4 DEF CacheIsTrue, Acted, Acting, Succeeds
  <2>6. into = Parent(q.req.to) /\ ~SameParent(top, q.req.to)
    BY <1>1, <1>6 DEF Destination, SameParent
  <2>7. Effected(a, r)
    <3>1. CASE ~Restricted
      BY <1>3, <1>6, <2>6, <3>1 DEF Effected, Special
    <3>2. CASE Restricted
      <4>1. SameName(top, q.req.to)
        <5>1. Heeds(mode, q)
          BY <2>1, <3>2, PostInHand
        <5>2. LetsRename(mode, q.was.dir, SameParent(top, q.req.to), SameName(top, q.req.to))
          BY <1>0, <1>6, <5>1 DEF Heeds
        <5>. HIDE DEF top
        <5>. QED  BY <2>6, <5>2, MoveKeepsName
      <4>2. q.req.to # <<>> /\ Base(top) = Base(q.req.to)
        BY <4>1 DEF SameName
      <4>3. q.req.to = Append(into, Base(top))
        BY <1>0, <2>6, <4>2, ParentIs
      <4>. QED  BY <1>3, <1>6, <2>3, <4>3 DEF Effected, Done
    <3>. QED  BY <3>1, <3>2
  <2>. QED  BY <1>0, <1>2, <1>4, <2>5, <2>7, FinalIsGrounded DEF Finals, Acting, k
<1>. QED  BY <1>1, <1>5, <1>6

\* The docid that a post is answered with is of the document made.
AnswersMade(q, a, name, dir, size, dup) ==
  LET new == Answers(q, a) IN
  /\ new \in Children(a, q.dst) /\ a[new].size = size /\ new # Gone
  /\ dup = 1 => /\ a[new].name = name /\ a[new].dir = dir
                /\ Len(a) = Len(docs) + 1 /\ \A i \in 1..Len(docs) : a[i] = docs[i]

\* The docid that the making of a document is answered with.
LEMMA MadeIsAnswered ==
  ASSUME AreDocs(docs), IsTree(docs), NEW q, NEW name, name = (IF q.verb = "copy" THEN docs[q.src].name ELSE q.name),
         q.verb \in {"dir/create", "dupload", "osendupload", "copy"},
         NEW dir \in BOOLEAN, NEW size, NEW dup, NEW a, a = Created(docs, q.dst, name, dir, size, dup), a # Refused
  PROVE  AnswersMade(q, a, name, dir, size, dup)
<1>. DEFINE there == NamedIn(docs, q.dst, name)
            new == Answers(q, a)
<1>. DEFINE b == Created(docs, q.dst, name, dir, size, dup)
<1>. a = b
  OBVIOUS
<1>b. AreDocs(b) /\ IsTree(b)
  BY CreatedKeeps
<1>c. LeavesMade(docs, b, q.dst, name, dir, size, dup)
  BY CreatedThere
<1>. HIDE DEF b
<1>0. Len(docs) \in Nat /\ AreDocs(a) /\ IsTree(a) /\ Len(a) \in Nat
  BY <1>b DEF AreDocs
<1>1. /\ Len(a) \in {Len(docs), Len(docs) + 1}
      /\ Len(a) = Len(docs) + 1 => /\ \A i \in 1..Len(docs) : a[i] = docs[i]
                                   /\ Len(a) \in Live(a) /\ a[Len(a)].up = q.dst
                                   /\ a[Len(a)].dir = dir /\ a[Len(a)].size = size
                                   /\ dup # 2 => a[Len(a)].name = name
      /\ Len(a) = Len(docs) => /\ dup = 3 /\ there # {}
                               /\ LET m == OneOf(there) IN
                                  m \in Live(a) /\ a[m].up = q.dst /\ a[m].name = name /\ a[m].size = size
  BY <1>c DEF LeavesMade
<1>. HIDE DEF there
<1>2. new = IF Len(a) > Len(docs) THEN Len(a) ELSE IF there = {} THEN Gone ELSE OneOf(there)
  BY DEF Answers, there
<1>. HIDE DEF new
<1>3. new \in Live(a) /\ a[new].up = q.dst /\ a[new].size = size
  BY <1>0, <1>1, <1>2
<1>4. new # Gone
  BY <1>0, <1>3, LiveIn DEF Gone
<1>5. dup = 1 => /\ a[new].name = name /\ a[new].dir = dir
                 /\ Len(a) = Len(docs) + 1 /\ \A i \in 1..Len(docs) : a[i] = docs[i]
  BY <1>0, <1>1, <1>2
<1>. QED  BY <1>3, <1>4, <1>5 DEF Children, new, AnswersMade

LEMMA CopyPosted ==
  ASSUME AccessInv, NEW c \in Callers, NEW q, NEW a, NEW r, PostOf(c, q, a, r), q.verb = "copy"
  PROVE  Grounded(c, a, Cache(c), r)
<1>0. /\ InStep(q) /\ q.pc = "posted" /\ q.out = "post" /\ Targets(docs, q)
      /\ AreDocs(docs) /\ IsTree(docs)
  BY PostInHand
<1>1. q.req.op = "copy"
  BY <1>0 DEF InStep
<1>2. ~OfDaemon(c)
  BY <1>1, PostInHand DEF Requested, FSRequests
<1>3. /\ a = Created(docs, q.dst, docs[q.src].name, FALSE, docs[q.src].size, TransferOnDup(q.req.dup))
      /\ a # Refused /\ Succeeds(q, a, r) /\ Posts(q)
  BY DEF PostOf, Effect, Copied
<1>. DEFINE name == docs[q.src].name
            size == docs[q.src].size
            dup == TransferOnDup(q.req.dup)
<1>4. name = (IF q.verb = "copy" THEN docs[q.src].name ELSE q.name) /\ a = Created(docs, q.dst, name, FALSE, size, dup)
  BY <1>3
<1>. HIDE DEF name, size, dup
<1>5. Answers(q, a) \in Children(a, q.dst)
  <2>1. q.verb \in {"dir/create", "dupload", "osendupload", "copy"} /\ FALSE \in BOOLEAN /\ a # Refused
    BY <1>3
  <2>2. AnswersMade(q, a, name, FALSE, size, dup)
    BY <1>0, <1>4, <2>1, MadeIsAnswered
  <2>. QED  BY <2>2 DEF AnswersMade
<1>6. r.req = q.req /\ r.verb = "copy" /\ r.dst = q.dst /\ r.new = Answers(q, a)
  BY <1>3 DEF Succeeds, Follows
<1>7. DirUpload(a, r)
  BY <1>1, <1>6 DEF DirUpload
<1>8. Effected(a, r)
  BY <1>1, <1>5, <1>6 DEF Effected, Done
<1>. QED  BY <1>0, <1>2, <1>3, <1>7, <1>8, FinalIsGrounded DEF Finals

MadeAt(q, a, p, name, dir, size) ==
  /\ Answers(q, a) \in At(a, Append(p, name)) /\ Answers(q, a) # Gone
  /\ a[Answers(q, a)].size = size /\ a[Answers(q, a)].dir = dir /\ a[Answers(q, a)].name = name
  /\ q.dst \in At(a, p)
  /\ \A s : IsPath(s) => At(docs, s) \subseteq At(a, s)
  /\ \A k : Exact(docs, k) => Exact(a, k)

\* What was made is at the path of the directory it was made in, with its name, and
\* what there was before is where it was.
LEMMA MadeIsAt ==
  ASSUME AreDocs(docs), NEW q, NEW a, Len(a) \in Nat, NEW name, NEW dir, NEW size,
         AnswersMade(q, a, name, dir, size, 1), NEW p, IsPath(p), q.dst \in At(docs, p)
  PROVE  MadeAt(q, a, p, name, dir, size)
<1>. DEFINE new == Answers(q, a)
<1>1. /\ new \in Live(a) /\ a[new].up = q.dst /\ a[new].name = name /\ a[new].dir = dir /\ a[new].size = size
      /\ Len(docs) \in Nat /\ Len(docs) <= Len(a) /\ \A i \in 1..Len(docs) : a[i] = docs[i]
      /\ new # Gone
  BY DEF AnswersMade, Children, AreDocs
<1>. HIDE DEF new
<1>2. \A s : IsPath(s) => At(docs, s) \subseteq At(a, s)
  BY <1>1, AddedElsewhere
<1>3. q.dst \in At(a, p)
  BY <1>2
<1>4. new \in At(a, Append(p, name))
  BY <1>1, <1>3, AtNext DEF NamedIn, Children
<1>5. \A k : Exact(docs, k) => Exact(a, k)
  BY <1>1, ExactWithMore
<1>. QED  BY <1>1, <1>2, <1>3, <1>4, <1>5 DEF new, MadeAt

LEMMA CreatePosted ==
  ASSUME AccessInv, NEW c \in Callers, NEW q, NEW a, NEW r, PostOf(c, q, a, r), q.verb = "dir/create"
  PROVE  Grounded(c, a, Cache(c), r)
<1>. DEFINE k == Cache(c)
            top == q.req.path
            new == Answers(q, a)
<1>0. /\ InStep(q) /\ IsPath(top) /\ IsPath(Parent(top)) /\ q.pc = "posted" /\ q.out = "post" /\ Targets(docs, q)
      /\ OfDaemon(c) => Exact(docs, k)
      /\ AreDocs(docs) /\ IsTree(docs) /\ Len(a) \in Nat
  BY PostInHand
<1>1. q.dst \in At(docs, Parent(top)) /\ top # <<>> /\ q.name = Base(top) /\ q.req.op \in Making
  BY <1>0 DEF Targets, InStep, Posts, Making
<1>2. a = Created(docs, q.dst, q.name, TRUE, 0, 1) /\ a # Refused /\ Succeeds(q, a, r) /\ Posts(q)
  BY DEF PostOf, Effect
<1>3. /\ q.name = (IF q.verb = "copy" THEN docs[q.src].name ELSE q.name)
      /\ q.verb \in {"dir/create", "dupload", "osendupload", "copy"} /\ TRUE \in BOOLEAN
  OBVIOUS
<1>4. AnswersMade(q, a, q.name, TRUE, 0, 1)
  BY <1>0, <1>2, <1>3, MadeIsAnswered
<1>5. new \in At(a, Append(Parent(top), q.name)) /\ a[new].dir /\ \A j : Exact(docs, j) => Exact(a, j)
  <2>1. MadeAt(q, a, Parent(top), q.name, TRUE, 0)
    BY <1>0, <1>1, <1>4, MadeIsAt
  <2>. QED  BY <2>1 DEF MadeAt
<1>6. new \in At(a, top)
  BY <1>0, <1>1, <1>5, ParentIs
<1>7. r.req = q.req /\ r.verb = "dir/create" /\ r.new = new
  BY <1>2 DEF Succeeds, Follows
<1>. HIDE DEF k, new
<1>8. OfDaemon(c) => CacheIsTrue(a, k, r)
  BY <1>0, <1>5, <1>7 DEF CacheIsTrue, Acted, Acting
<1>9. DirUpload(a, r)
  BY <1>0, <1>2, <1>6, <1>7 DEF DirUpload, Succeeds
<1>10. q.req.op # "upload-dir" => Effected(a, r)
  BY <1>1, <1>5, <1>6, <1>7 DEF Effected, Done, Making
<1>. QED  BY <1>0, <1>2, <1>8, <1>9, <1>10, FinalIsGrounded DEF Finals, k

LEMMA UploadPosted ==
  ASSUME AccessInv, NEW c \in Callers, NEW q, NEW a, NEW r, PostOf(c, q, a, r),
         q.verb \in {"dupload", "osendupload"}
  PROVE  Grounded(c, a, Cache(c), r)
<1>. DEFINE k == Cache(c)
            top == q.req.path
            new == Answers(q, a)
            dup == UploadOnDup(UploadPolicy(q))
<1>0. /\ InStep(q) /\ IsPath(top) /\ IsPath(Parent(top)) /\ IsPath(q.req.to) /\ q.pc = "posted" /\ q.out = "post"
      /\ Targets(docs, q) /\ DirUpload(docs, q)
      /\ OfDaemon(c) => Exact(docs, k)
      /\ AreDocs(docs) /\ IsTree(docs) /\ Len(a) \in Nat /\ Requested(c, q.req)
  BY PostInHand
<1>1. q.req.op \in Uploading
  BY <1>0 DEF InStep, UploadVerbs
<1>2. a = Created(docs, q.dst, q.name, FALSE, q.req.size, dup) /\ a # Refused /\ Succeeds(q, a, r) /\ Posts(q)
  BY DEF PostOf, Effect
<1>3. /\ q.name = (IF q.verb = "copy" THEN docs[q.src].name ELSE q.name)
      /\ q.verb \in {"dir/create", "dupload", "osendupload", "copy"} /\ FALSE \in BOOLEAN
  OBVIOUS
<1>. HIDE DEF dup
<1>4. AnswersMade(q, a, q.name, FALSE, q.req.size, dup)
  BY <1>0, <1>2, <1>3, MadeIsAnswered
<1>5. new \in Children(a, q.dst) /\ a[new].size = q.req.size /\ new # Gone
  BY <1>4 DEF AnswersMade
<1>6. /\ r.req = q.req /\ r.verb = q.verb /\ r.pc = "posted" /\ r.out = "found" /\ r.new = new /\ r.dst = q.dst
      /\ r.left = q.left /\ r.name = a[new].name
  BY <1>0, <1>2, <1>5 DEF Succeeds, Follows
<1>7. q.req.op # "upload" => dup = 1
  BY DEF dup, UploadOnDup, UploadPolicy
<1>. HIDE DEF k, new
<1>8. CASE q.req.op = "upload"
  <2>1. ~OfDaemon(c)
    BY <1>0, <1>8 DEF Requested, FSRequests
  <2>2. DirUpload(a, r)
    BY <1>6, <1>8 DEF DirUpload
  <2>3. Effected(a, r)
    <3>1. new \in NamedIn(a, r.dst, r.name)
      BY <1>5, <1>6 DEF NamedIn
    <3>. QED  BY <1>5, <1>6, <1>8, <3>1 DEF Effected, Done
  <2>. QED  BY <1>0, <1>2, <2>1, <2>2, <2>3, FinalIsGrounded DEF Finals
<1>9. CASE q.req.op \in {"fs.uploadStaged", "fs.close", "fs.markDirty"}
  <2>1. q.dst \in At(docs, Parent(top)) /\ top # <<>> /\ q.name = Base(top)
    BY <1>0, <1>2, <1>9 DEF Targets, UploadVerbs
  <2>2. AnswersMade(q, a, q.name, FALSE, q.req.size, 1)
    BY <1>4, <1>7, <1>9
  <2>3. new \in At(a, Append(Parent(top), q.name)) /\ \A j : Exact(docs, j) => Exact(a, j)
    <3>1. MadeAt(q, a, Parent(top), q.name, FALSE, q.req.size)
      BY <1>0, <2>1, <2>2, MadeIsAt
    <3>. QED  BY <3>1 DEF MadeAt, new
  <2>4. new \in At(a, top)
    BY <1>0, <2>1, <2>3, ParentIs
  <2>5. OfDaemon(c) => CacheIsTrue(a, k, r)
    BY <1>0, <1>6, <2>3 DEF CacheIsTrue, Acted, Acting
  <2>6. DirUpload(a, r)
    BY <1>6, <1>9 DEF DirUpload
  <2>7. Effected(a, r)
    BY <1>5, <1>6, <1>9, <2>4 DEF Effected, Done
  <2>. QED  BY <1>0, <1>2, <2>5, <2>6, <2>7, FinalIsGrounded DEF Finals, k
<1>10. CASE q.req.op = "upload-dir"
  <2>1. ~OfDaemon(c)
    BY <1>0, <1>10 DEF Requested, FSRequests
  <2>2. /\ q.dst \in At(docs, top) /\ q.left \in 1..Len(q.req.to) /\ q.name = q.req.to[q.left]
        /\ \A n \in (q.left + 1)..Len(q.req.to) : At(docs, Append(top, q.req.to[n])) # {}
    BY <1>0, <1>10 DEF DirUpload
  <2>3. AnswersMade(q, a, q.name, FALSE, q.req.size, 1)
    BY <1>4, <1>7, <1>10
  <2>4. /\ new \in At(a, Append(top, q.name)) /\ q.dst \in At(a, top) /\ a[new].name = q.name
        /\ \A s : IsPath(s) => At(docs, s) \subseteq At(a, s)
    <3>1. MadeAt(q, a, top, q.name, FALSE, q.req.size)
      BY <1>0, <2>2, <2>3, MadeIsAt
    <3>. QED  BY <3>1 DEF MadeAt, new
  <2>5. \A n \in (q.left + 1)..Len(q.req.to) : At(a, Append(top, q.req.to[n])) # {}
    BY <1>0, <2>2, <2>4, AppendIs
  <2>6. DirUpload(a, r)
    <3>1. /\ r.dst \in At(a, r.req.path) /\ r.left \in 1..Len(r.req.to) /\ r.name = r.req.to[r.left]
          /\ \A n \in (r.left + 1)..Len(r.req.to) : At(a, Append(r.req.path, r.req.to[n])) # {}
          /\ At(a, Append(r.req.path, r.req.to[r.left])) # {}
      BY <1>6, <2>2, <2>4, <2>5
    <3>. QED  BY <1>6, <3>1 DEF DirUpload
  <2>. QED  BY <1>0, <1>2, <1>10, <2>1, <2>6, FinalIsGrounded DEF Finals
<1>. QED  BY <1>1, <1>8, <1>9, <1>10 DEF Uploading

\* A post that only leads to the next.
LEMMA OnwardPosted ==
  ASSUME AccessInv, NEW c \in Callers, NEW q, NEW a, NEW r, PostOf(c, q, a, r),
         q.verb \in {"getsuggestname", "predupload", "osbeginupload", "storage", "osdownload", "fetch"}
  PROVE  Grounded(c, a, Cache(c), r)
<1>. DEFINE k == Cache(c)
<1>0. /\ InStep(q) /\ q.pc = "posted" /\ q.out = "post" /\ Targets(docs, q) /\ DirUpload(docs, q)
      /\ OfDaemon(c) => Exact(docs, k)
      /\ AreDocs(docs)
  BY PostInHand
<1>1. a = docs /\ Succeeds(q, a, r) /\ Posts(q)
  BY DEF PostOf, Effect
<1>2. /\ q.verb \in UploadVerbs => q.req.op \in Uploading
      /\ q.verb = "getsuggestname" => q.req.op = "upload"
      /\ q.verb \in {"osdownload", "fetch"} => q.req.op \in {"fs.open", "download"}
  BY <1>0 DEF InStep, Targets
<1>3. /\ r.pc = "posted" /\ r.req = q.req /\ r.dst = q.dst /\ r.left = q.left /\ r.was = q.was
      /\ r.verb \in Follows(q) /\ r.out = (IF r.verb = q.verb THEN "found" ELSE "post")
  BY <1>0, <1>1 DEF Succeeds
<1>4. /\ r.verb \in {"getsuggestname", "dupload", "osbeginupload", "storage", "osendupload", "fetch"}
      /\ r.out = "found" <=> q.verb \in {"getsuggestname", "fetch"}
      /\ r.out = "post" <=> q.verb \notin {"getsuggestname", "fetch"}
      /\ r.verb = "getsuggestname" => q.verb = "getsuggestname"
      /\ r.verb = "fetch" => q.verb \in {"osdownload", "fetch"}
      /\ r.verb \in {"dupload", "osbeginupload", "storage", "osendupload"} =>
           q.verb \in {"predupload", "osbeginupload", "storage"}
  BY <1>3 DEF Follows
<1>5. q.verb # "getsuggestname" => r.name = q.name
  <2>1. Answers(q, docs) = (IF NamedIn(docs, q.dst, q.name) = {} THEN Gone ELSE OneOf(NamedIn(docs, q.dst, q.name)))
    <3>. DEFINE there == NamedIn(docs, q.dst, q.name)
    <3>1. ~(Len(docs) > Len(docs))
      BY <1>0 DEF AreDocs
    <3>. QED  BY <3>1 DEF Answers
  <2>2. Answers(q, docs) # Gone => docs[Answers(q, docs)].name = q.name
    BY <2>1 DEF OneOf, NamedIn
  <2>. QED  BY <1>1, <2>2 DEF Succeeds
<1>. HIDE DEF k
<1>6. OfDaemon(c) \/ r.pc \in Early => CacheIsTrue(docs, k, r) /\ (Looks(r) => Walking(docs, k, r))
  BY <1>0, <1>3, <1>4 DEF CacheIsTrue, Acted, Acting, Looks, Early
<1>7. Targets(docs, r)
  <2>1. r.verb \notin {"rename", "move", "delete", "dir/create", "predupload", "osdownload"}
    BY <1>4
  <2>2. Posts(r) /\ r.verb \in UploadVerbs /\ q.req.op \notin {"upload", "upload-dir"} =>
          q.dst \in At(docs, Parent(q.req.path)) /\ q.req.path # <<>> /\ r.name = Base(q.req.path)
    <3>1. Posts(r) /\ r.verb \in UploadVerbs => q.verb \in {"predupload", "osbeginupload", "storage"}
      BY <1>4 DEF Posts, UploadVerbs
    <3>. QED  BY <1>0, <1>1, <1>5, <3>1 DEF Targets, UploadVerbs
  <2>3. r.verb = "fetch" => q.req.op \in {"fs.open", "download"}
    BY <1>2, <1>4
  <2>4. r.verb = "getsuggestname" => q.req.op = "upload"
    BY <1>2, <1>4
  <2>5. q.req.op \notin {"rename"}
    BY <1>2 DEF Uploading, UploadVerbs
  <2>. QED  BY <1>3, <2>1, <2>2, <2>3, <2>4, <2>5 DEF Targets, Posts, Acting
<1>8. DirUpload(docs, r)
  <2>. SUFFICES ASSUME q.req.op = "upload-dir" PROVE DirUpload(docs, r)
    BY <1>3 DEF DirUpload
  <2>1. q.verb \notin {"getsuggestname", "fetch"} /\ r.out = "post" /\ r.verb # "dir/create" /\ r.name = q.name
    BY <1>2, <1>4, <1>5
  <2>2. /\ q.dst \in At(docs, q.req.path) /\ q.left \in 1..Len(q.req.to) /\ q.name = q.req.to[q.left]
        /\ \A n \in (q.left + 1)..Len(q.req.to) : At(docs, Append(q.req.path, q.req.to[n])) # {}
    BY <1>0 DEF DirUpload
  <2>. QED  BY <1>3, <2>1, <2>2 DEF DirUpload
<1>9. After(docs, r)
  BY <1>3, <1>4 DEF After, Finals, Acting
<1>10. Held(docs, k, r)
  <2>1. q.req.op # "fs.rename"
    BY <1>2 DEF Uploading, UploadVerbs
  <2>. QED  BY <1>3, <2>1 DEF Held
<1>. QED  BY <1>1, <1>6, <1>7, <1>8, <1>9, <1>10 DEF Grounded, k

LEMMA PostedIsGrounded ==
  ASSUME AccessInv, NEW c \in Callers, NEW q, NEW a, NEW r, PostOf(c, q, a, r)
  PROVE  Grounded(c, a, Cache(c), r)
<1>1. q.pc = "posted" /\ InStep(q)
  BY PostInHand
<1>2. q.verb \in UploadVerbs \union {"dir/create", "rename", "delete", "move", "copy", "osdownload", "fetch"}
  BY <1>1 DEF InStep
<1>. QED  BY <1>2, DeletePosted, RenamePosted, MovePosted, CopyPosted, CreatePosted, UploadPosted, OnwardPosted
             DEF UploadVerbs

\* The files of a directory only add to what there is.
LEMMA SendingAdds ==
  ASSUME AreDocs(docs), IsTree(docs), NEW q, q.req.op = "upload-dir", q.verb \in UploadVerbs,
         NEW a, a = Effect(q), a # Refused, NEW p, IsPath(p)
  PROVE  At(docs, p) \subseteq At(a, p)
<1>1. CASE q.verb \in {"dupload", "osendupload"}
  <2>. DEFINE dup == UploadOnDup(UploadPolicy(q))
  <2>1. dup = 1
    BY DEF UploadOnDup, UploadPolicy
  <2>2. a = Created(docs, q.dst, q.name, FALSE, q.req.size, dup) /\ FALSE \in BOOLEAN
    BY <1>1 DEF Effect
  <2>. HIDE DEF dup
  <2>3. LeavesMade(docs, Created(docs, q.dst, q.name, FALSE, q.req.size, dup), q.dst, q.name, FALSE, q.req.size, dup)
    BY <2>2, CreatedThere
  <2>4. LeavesMade(docs, a, q.dst, q.name, FALSE, q.req.size, dup)
    BY <2>2, <2>3
  <2>5. Len(docs) \in Nat /\ Len(a) = Len(docs) + 1 /\ \A i \in 1..Len(docs) : a[i] = docs[i]
    BY <2>1, <2>4 DEF LeavesMade, AreDocs
  <2>. QED  BY <2>5, AddedElsewhere
<1>2. CASE q.verb \notin {"dupload", "osendupload"}
  <2>1. a = docs
    BY <1>2 DEF Effect, UploadVerbs
  <2>. QED  BY <2>1
<1>. QED  BY <1>1, <1>2

\* After a post that failed the provider knows no more than before it.
LEMMA FailedIsGrounded ==
  ASSUME AccessInv, NEW c \in Callers, Active(c), NEW q, q = call[c], Posts(q), Grounded(c, docs, Cache(c), q),
         NEW a, a = docs \/ (a = Effect(q) /\ a # Refused /\ ~OfDaemon(c)),
         NEW r, StillAt(q, r), r.out = "none"
  PROVE  Grounded(c, a, Cache(c), r)
<1>. DEFINE k == Cache(c)
<1>1. /\ InStep(q) /\ Requested(c, q.req) /\ IsPath(q.req.path) /\ IsPath(q.req.to) /\ AreDocs(docs) /\ IsTree(docs)
  BY InHand DEF AccessInv
<1>2. /\ q.pc = "posted" /\ q.out = "post" /\ Targets(docs, q) /\ DirUpload(docs, q)
      /\ OfDaemon(c) => Held(docs, k, q) /\ Exact(docs, k)
  BY OwnCall DEF Posts, Acted
<1>3. r.pc = "posted" /\ ~Posts(r) /\ ~Acted(r) /\ ~Looks(r)
  BY <1>2 DEF StillAt, Posts, Acted, Looks
<1>4. Targets(a, r)
  BY <1>2, <1>3 DEF Targets, StillAt
<1>5. DirUpload(a, r)
  <2>. SUFFICES ASSUME q.req.op = "upload-dir", q.verb # "dir/create" PROVE DirUpload(a, r)
    BY <1>3 DEF DirUpload, StillAt
  <2>1. q.verb \in UploadVerbs
    <3>1. q.verb \notin {"osdownload", "fetch"}
      BY <1>2 DEF Targets
    <3>. QED  BY <1>1, <1>2, <3>1 DEF InStep
  <2>2. \A p : IsPath(p) => At(docs, p) \subseteq At(a, p)
    BY <1>1, <2>1, SendingAdds
  <2>3. /\ q.dst \in At(docs, q.req.path) /\ q.left \in 1..Len(q.req.to) /\ q.name = q.req.to[q.left]
        /\ \A n \in (q.left + 1)..Len(q.req.to) : At(docs, Append(q.req.path, q.req.to[n])) # {}
    BY <1>2 DEF DirUpload
  <2>4. /\ q.dst \in At(a, q.req.path)
        /\ \A n \in (q.left + 1)..Len(q.req.to) : At(a, Append(q.req.path, q.req.to[n])) # {}
    BY <1>1, <2>2, <2>3, AppendIs
  <2>. QED  BY <1>3, <2>3, <2>4 DEF DirUpload, StillAt
<1>6. After(a, r)
  BY <1>3 DEF After
<1>. HIDE DEF k
<1>7. OfDaemon(c) => CacheIsTrue(a, k, r) /\ Held(a, k, r)
  BY <1>2, <1>3 DEF CacheIsTrue, Held, StillAt, Posts
<1>8. OfDaemon(c) \/ r.pc \in Early => CacheIsTrue(a, k, r) /\ (Looks(r) => Walking(a, k, r))
  BY <1>3, <1>7 DEF Early
<1>. QED  BY <1>4, <1>5, <1>6, <1>7, <1>8 DEF Grounded, k

\* What a step of a call does to it, and what is true of it afterwards.
Goes(c) ==
  \E k, r : /\ known' = [known EXCEPT ![Process[c]] = k] /\ call' = [call EXCEPT ![c] = r]
            /\ r.alone = call[c].alone
            /\ Exclusive(c) /\ (OfDaemon(c) => ~doubt') /\ Grounded(c, docs, Cache(c), call[c]) =>
                 Grounded(c, docs', k, r)

LEMMA CarriesGoes ==
  ASSUME NEW c, Carries(c)
  PROVE  Goes(c)
<1>1. PICK k, r : /\ known' = [known EXCEPT ![Process[c]] = k] /\ call' = [call EXCEPT ![c] = r]
                  /\ docs' = docs /\ r.alone = call[c].alone
                  /\ Exclusive(c) /\ Grounded(c, docs, Cache(c), call[c]) => Grounded(c, docs, k, r)
  BY DEF Carries
<1>2. Exclusive(c) /\ (OfDaemon(c) => ~doubt') /\ Grounded(c, docs, Cache(c), call[c]) =>
        Grounded(c, docs', k, r)
  BY <1>1
<1>. QED  BY <1>1, <1>2 DEF Goes

LEMMA PostGoes ==
  ASSUME AccessInv, NEW c \in Callers, Post(c), doubt' = (doubt \/ (docs' # docs /\ (~OfDaemon(c) \/ faults' # faults)))
  PROVE  Goes(c)
<1>. DEFINE q == call[c]
            a == Effect(q)
            k == Cache(c)
<1>1. Active(c) /\ q.out = "post" /\ known' = known
  BY DEF Post, Fails
<1>2. DOMAIN q = CallFields /\ InStep(q)
  BY <1>1, InHand
<1>3. q.pc = "posted" /\ Posts(q)
  BY <1>1, <1>2 DEF InStep, Posts
<1>4. call = [d \in Callers |-> call[d]] /\ faults # faults + 1
  <2>1. call = [d \in Callers |-> call[d]]
    BY DEF AccessInv, CallsAreSound
  <2>2. faults \in 0..MaxFaults
    BY DEF AccessInv
  <2>. QED  BY <2>1, <2>2
<1>5. known' = [known EXCEPT ![Process[c]] = k]
  BY <1>1 DEF AccessInv, DocsAreKnown, Cache
<1>6. ASSUME NEW b, b = docs \/ (b = a /\ a # Refused), Fails(c, b)
      PROVE  Goes(c)
  <2>. DEFINE r == [q EXCEPT !.out = "none", !.got = {}, !.info = NoEntry, !.hurt = TRUE,
                             !.took = @ \/ b # docs, !.lost = @ \/ b # docs]
  <2>1. call' = [call EXCEPT ![c] = r] /\ docs' = b /\ faults' = faults + 1
    BY <1>4, <1>6 DEF Fails
  <2>2. StillAt(q, r) /\ r.out = "none"
    BY <1>2, CallNames DEF StillAt
  <2>3. r.alone = q.alone
    BY <2>2 DEF StillAt
  <2>. HIDE DEF r
  <2>4. ASSUME OfDaemon(c) => ~doubt', Grounded(c, docs, Cache(c), q) PROVE Grounded(c, docs', k, r)
    <3>2. b # docs => doubt'
      BY <1>4, <2>1
    <3>. HIDE DEF a
    <3>3. b = docs \/ (b = a /\ b # Refused /\ ~OfDaemon(c))
      BY <1>6, <2>4, <3>2
    <3>. HIDE DEF q
    <3>4. b = docs \/ (b = Effect(q) /\ b # Refused /\ ~OfDaemon(c))
      BY <3>3 DEF a
    <3>. QED  BY <1>1, <1>3, <2>1, <2>2, <2>4, <3>4, FailedIsGrounded DEF q
  <2>. QED  BY <1>5, <2>1, <2>3, <2>4 DEF Goes
<1>7. CASE a = Refused /\ docs' = docs /\ call' = [call EXCEPT ![c].out = "none"]
  <2>. DEFINE r == [q EXCEPT !.out = "none"]
  <2>1. call' = [call EXCEPT ![c] = r]
    BY <1>4, <1>7
  <2>2. StillAt(q, r) /\ r.out = "none"
    BY <1>2, CallNames DEF StillAt
  <2>3. r.alone = q.alone
    BY <2>2 DEF StillAt
  <2>. HIDE DEF r
  <2>4. ASSUME Grounded(c, docs, Cache(c), q) PROVE Grounded(c, docs', k, r)
    BY <1>1, <1>3, <1>7, <2>2, <2>4, FailedIsGrounded
  <2>. QED  BY <1>5, <2>1, <2>3, <2>4 DEF Goes
<1>8. ASSUME NEW v \in Follows(q), a # Refused, docs' = a,
             call' = [call EXCEPT ![c].verb = v,
                        ![c].out = IF v = q.verb THEN "found" ELSE "post",
                        ![c].new = Answers(q, a),
                        ![c].name = IF q.verb = "getsuggestname" THEN Suggested(q)
                                    ELSE IF Answers(q, a) # Gone THEN a[Answers(q, a)].name
                                    ELSE @,
                        ![c].took = @ \/ a # docs]
      PROVE  Goes(c)
  <2>. DEFINE new == Answers(q, a)
              name == IF q.verb = "getsuggestname" THEN Suggested(q)
                      ELSE IF new # Gone THEN a[new].name ELSE q.name
              out == IF v = q.verb THEN "found" ELSE "post"
              took == q.took \/ a # docs
              r == [q EXCEPT !.verb = v, !.out = out, !.new = new, !.name = name, !.took = took]
  <2>1. call' = [call EXCEPT ![c] = r]
    BY <1>4, <1>8
  <2>2. /\ DOMAIN r = CallFields /\ r.verb = v /\ r.out = out /\ r.new = new /\ r.name = name
        /\ r.pc = q.pc /\ r.req = q.req /\ r.was = q.was /\ r.src = q.src /\ r.dst = q.dst /\ r.left = q.left
        /\ r.gone = q.gone /\ r.alone = q.alone
    <3>. HIDE DEF new, name, out, took
    <3>. QED  BY <1>2, CallNames
  <2>3. Succeeds(q, a, r)
    <3>. HIDE DEF r, a, q
    <3>. QED  BY <1>8, <2>2 DEF Succeeds
  <2>. HIDE DEF r
  <2>4. ASSUME Grounded(c, docs, Cache(c), q) PROVE Grounded(c, docs', k, r)
    <3>1. PostOf(c, q, a, r)
      BY <1>1, <1>3, <1>8, <2>3, <2>4 DEF PostOf
    <3>. HIDE DEF q, a
    <3>. QED  BY <1>8, <3>1, PostedIsGrounded
  <2>. QED  BY <1>5, <2>1, <2>2, <2>4 DEF Goes
<1>. HIDE DEF a
<1>9. \/ Fails(c, docs)
      \/ a # Refused /\ Fails(c, a)
      \/ a = Refused /\ docs' = docs /\ call' = [call EXCEPT ![c].out = "none"]
      \/ /\ a # Refused /\ docs' = a
         /\ \E v \in Follows(q) :
              call' = [call EXCEPT ![c].verb = v,
                         ![c].out = IF v = q.verb THEN "found" ELSE "post",
                         ![c].new = Answers(q, a),
                         ![c].name = IF q.verb = "getsuggestname" THEN Suggested(q)
                                     ELSE IF Answers(q, a) # Gone THEN a[Answers(q, a)].name
                                     ELSE @,
                         ![c].took = @ \/ a # docs]
  BY DEF Post, a
<1>. QED  BY <1>6, <1>7, <1>8, <1>9

LEMMA ProviderGoes ==
  ASSUME AccessInv, NEW c \in Callers, Step(c)
  PROVE  Goes(c)
<1>1. CASE Post(c)
  BY <1>1, PostGoes DEF Step
<1>2. CASE ~Post(c)
  <2>1. Carries(c)
    BY <1>2, LearnCarries, AskCarries, PostFailedCarries,
       ParentResolvedCarries, NameSuggestedCarries, DirectoryMadeCarries, UploadedCarries, UploadVerifiedCarries,
       DirectoryParentSeenCarries, RootMadeCarries, ChildSentCarries, ChildVerifiedCarries,
       ResolvedCarries, RenamedOrRemovedCarries, DownloadedCarries, SourceSeenCarries, DestinationSeenCarries,
       SourceResolvedCarries, DestinationResolvedCarries, DestinationListedCarries, TransferredCarries,
       InDestinationCarries, OutOfSourceCarries DEF Step, ProviderStep
  <2>. QED  BY <2>1, CarriesGoes
<1>. QED  BY <1>1, <1>2
-----------------------------------------------------------------------------
(* The invariant. *)

LEMMA GroundedNext ==
  ASSUME flags' = flags, NEW c
  PROVE  Grounded(c, docs, Cache(c), call[c])' <=> Grounded(c, docs', Cache(c)', call'[c])
BY DEF Grounded, After, Held, Effected, Special, Restricted, mode

LEMMA ExactNext ==
  ASSUME NEW c
  PROVE  Exact(docs, Cache(c))' <=> Exact(docs', Cache(c)')
BY DEF Exact

\* A call that ends leaves the daemon's cache exact.
LEMMA EndIsExact ==
  ASSUME NEW c, NEW d, NEW k, NEW r, OfDaemon(c), Grounded(c, d, k, r), r.pc = "done"
  PROVE  Exact(d, k)
BY OwnCall DEF Acted

LEMMA GoesOn ==
  ASSUME AccessInv, Ground, NEW c \in Callers, Active(c), Goes(c), flags' = flags, doubt => doubt',
         docs' # docs /\ ~OfDaemon(c) => doubt'
  PROVE  Ground'
<1>1. PICK k, r : /\ known' = [known EXCEPT ![Process[c]] = k] /\ call' = [call EXCEPT ![c] = r]
                  /\ r.alone = call[c].alone
                  /\ Exclusive(c) /\ (OfDaemon(c) => ~doubt') /\ Grounded(c, docs, Cache(c), call[c]) =>
                       Grounded(c, docs', k, r)
  BY DEF Goes
<1>2. call'[c] = r /\ \A d \in Callers \ {c} : call'[d] = call[d]
  BY <1>1 DEF AccessInv, CallsAreSound
<1>3. Cache(c)' = k /\ \A d \in Callers : Process[d] # Process[c] => Cache(d)' = Cache(d)
  BY <1>1 DEF AccessInv, DocsAreKnown, Cache
<1>4. \A d \in Callers : Active(d)' => Active(d) /\ call'[d].alone = call[d].alone
  BY <1>1, <1>2 DEF Active
<1>5. \A d, e \in Callers : Active(d)' /\ call'[d].alone /\ Active(e)' => d = e
  BY <1>4 DEF Ground
<1>6. ~doubt' => \A d \in Callers : Active(d)' => call'[d].alone
  BY <1>4 DEF Ground
<1>7. ASSUME NEW d \in Callers, Exclusive(d)' PROVE Grounded(d, docs, Cache(d), call[d])'
  <2>1. Active(d) /\ call[d].alone /\ (OfDaemon(d) => ~doubt')
    BY <1>4, <1>7 DEF Exclusive
  <2>2. d = c
    BY <2>1 DEF Ground
  <2>3. Exclusive(c) /\ Grounded(c, docs, Cache(c), call[c])
    BY <2>1, <2>2 DEF Exclusive, Ground
  <2>4. Grounded(c, docs', k, r)
    BY <1>1, <2>1, <2>2, <2>3
  <2>5. Grounded(c, docs', Cache(c)', call'[c])
    BY <1>2, <1>3, <2>4
  <2>. QED  BY <2>2, <2>5, GroundedNext
<1>8. ASSUME ~doubt', \A d \in Callers : OfDaemon(d) => ~Active(d)', NEW d \in Callers, OfDaemon(d)
      PROVE  Exact(docs, Cache(d))'
  <2>1. CASE OfDaemon(c)
    <3>1. r.pc = "done"
      BY <1>2, <1>8, <2>1 DEF Active
    <3>2. Exclusive(c) /\ Grounded(c, docs, Cache(c), call[c])
      BY <1>8 DEF Exclusive, Ground
    <3>3. Exact(docs', k)
      BY <1>1, <1>8, <2>1, <3>1, <3>2, EndIsExact
    <3>4. Cache(d)' = k
      BY <1>3, <1>8, <2>1 DEF OfDaemon, Cache
    <3>. QED  BY <3>3, <3>4, ExactNext
  <2>2. CASE ~OfDaemon(c)
    <3>1. docs' = docs /\ Process[d] # Process[c]
      BY <1>8, <2>2 DEF OfDaemon
    <3>2. \A e \in Callers : OfDaemon(e) => ~Active(e)
      <4>. SUFFICES ASSUME NEW e \in Callers, OfDaemon(e) PROVE ~Active(e)
        OBVIOUS
      <4>1. e # c
        BY <2>2
      <4>. QED  BY <1>2, <1>8, <4>1 DEF Active
    <3>3. Exact(docs, Cache(d))
      BY <1>8, <3>2 DEF Ground
    <3>4. Exact(docs', Cache(d)')
      BY <1>3, <3>1, <3>3
    <3>. QED  BY <3>4, ExactNext
  <2>. QED  BY <2>1, <2>2
<1>. QED  BY <1>5, <1>6, <1>7, <1>8 DEF Ground

\* Only a call that is active makes steps.
LEMMA ProviderOfActive ==
  ASSUME NEW c, ProviderStep(c)
  PROVE  Active(c)
<1>1. CASE Ask(c) \/ Learn(c) \/ Post(c)
  BY <1>1 DEF Ask, Learn, Post
<1>2. CASE ~(Ask(c) \/ Learn(c) \/ Post(c))
  <2>1. \E pc : pc # "done" /\ On(c, pc)
    BY <1>2 DEF ProviderStep, PostFailed, GivesUp, ParentResolved, NameSuggested, DirectoryMade, Uploaded,
                UploadVerified, DirectoryParentSeen, RootMade, ChildSent, ChildVerified, Resolved,
                RenamedOrRemoved, Downloaded, SourceSeen, DestinationSeen, SourceResolved,
                DestinationResolved, DestinationListed, Transferred, InDestination, OutOfSource
  <2>. QED  BY <2>1 DEF On, Active
<1>. QED  BY <1>1, <1>2

LEMMA HandlerOfActive ==
  ASSUME NEW c, Handler(c)
  PROVE  Active(c)
<1>1. \E pc : pc # "done" /\ On(c, pc)
  BY DEF Handler, Looked, WrittenBackOver, CopyDecided, PassedOn, OldSeen, IntoSeen, NewSeen, RenameReturned,
         OldGone, NewThere, RemovalSeen, RemoveReturned, RemovalChecked, TargetSeen, StagedReturned, StagedVerified
<1>. QED  BY <1>1 DEF On, Active

LEMMA StepsGoOn ==
  ASSUME AccessInv, Ground, NEW c \in Callers, Step(c) \/ Handler(c)
  PROVE  Ground'
<1>1. CASE Step(c)
  <2>1. Goes(c)
    BY <1>1, ProviderGoes
  <2>2. Active(c)
    BY <1>1, ProviderOfActive DEF Step
  <2>. QED  BY <1>1, <2>1, <2>2, GoesOn DEF Step
<1>2. CASE Handler(c)
  <2>1. Goes(c) /\ docs' = docs
    BY <1>2, HandlerCarries, CarriesGoes DEF Carries
  <2>2. Active(c)
    BY <1>2, HandlerOfActive
  <2>3. flags' = flags /\ doubt' = doubt
    BY <1>2 DEF Handler, Looked, WrittenBackOver, CopyDecided, PassedOn, OldSeen, IntoSeen, NewSeen, RenameReturned,
                OldGone, NewThere, RemovalSeen, RemoveReturned, RemovalChecked, TargetSeen, StagedReturned,
                StagedVerified, Stay
  <2>. QED  BY <2>1, <2>2, <2>3, GoesOn
<1>. QED  BY <1>1, <1>2

\* A request as it comes in.
Begun(q) ==
  /\ DOMAIN q = CallFields /\ IsPath(q.req.path) /\ IsPath(q.req.to)
  /\ q.req.op = "upload-dir" => q.req.path # <<>>

\* Where the first lookup of a request may lead, given what it is for.
FirstLook(c, q, pc, goal, whole) ==
  /\ pc \in {"listed", "seen", "copying", "parent", "dir_parent", "resolve", "old", "removing", "target", "source"}
  /\ pc \in {"listed", "seen"} => q.req.op \in {"fs.list", "fs.stat", "ls", "stat"}
  /\ pc = "resolve" => goal = q.req.path
  /\ pc \in {"parent", "dir_parent"} => goal = Parent(q.req.path) /\ q.req.path # <<>>
  /\ pc = "resolve" /\ q.req.op = "rename" => q.req.path # q.req.to /\ SameParent(q.req.path, q.req.to)
  /\ pc = "old" => goal = q.req.path /\ whole = FALSE
  /\ pc \in {"resolve", "source"} /\ q.req.op = "fs.rename" => ~(OfDaemon(c) /\ Restricted)

Begins(c, k, q, r) == r.alone = q.alone /\ (Exact(docs, k) => Grounded(c, docs, k, r))

LEMMA LookBegins ==
  ASSUME NEW c, NEW k, NEW q, Begun(q), NEW pc, NEW goal, IsPath(goal), NEW whole,
         FirstLook(c, q, pc, goal, whole)
  PROVE  Begins(c, k, q, LookUp(k, q, pc, goal, whole))
<1>. DEFINE r == LookUp(k, q, pc, goal, whole)
<1>1. Looking(q, r, pc, goal, whole)
  BY LookUpKeeps DEF Begun
<1>2. /\ r.pc = pc /\ r.goal = goal /\ r.whole = whole /\ r.req = q.req /\ r.alone = q.alone
  BY <1>1 DEF Looking, Kept
<1>. HIDE DEF r
<1>3. Targets(docs, r)
  BY <1>2 DEF Targets, FirstLook, Posts
<1>4. DirUpload(docs, r) /\ After(docs, r)
  BY <1>2 DEF DirUpload, After, FirstLook
<1>5. OfDaemon(c) => Held(docs, k, r)
  BY <1>2 DEF Held, FirstLook, Posts, BeforeRename, Renames
<1>6. pc \notin {"posted", "back", "done"}
  BY DEF FirstLook
<1>7. ASSUME Exact(docs, k) PROVE Grounded(c, docs, k, r)
  BY <1>3, <1>4, <1>5, <1>6, <1>7, LookIsGrounded DEF r, Begun
<1>. QED  BY <1>2, <1>7 DEF Begins, r

LEMMA AnswerBegins ==
  ASSUME NEW c, NEW k, NEW q, Begun(q), NEW good
  PROVE  Begins(c, k, q, Answered(q, good))
<1>1. Answered(q, good).alone = q.alone
  BY CallNames DEF Answered, Begun
<1>2. ASSUME Exact(docs, k) PROVE Grounded(c, docs, k, Answered(q, good))
  BY <1>2, DoneIsGrounded DEF Begun
<1>. QED  BY <1>1, <1>2 DEF Begins

LEMMA ReturnBegins ==
  ASSUME NEW c, NEW k, NEW q, Begun(q), q.req.op # "fs.rename"
  PROVE  Begins(c, k, q, Returned(q, FALSE))
<1>1. ASSUME NEW good, ~good, Exact(docs, k) PROVE Grounded(c, docs, k, Returned(q, good))
  BY <1>1, BackIsGrounded DEF Begun
<1>2. Exact(docs, k) => Grounded(c, docs, k, Returned(q, FALSE))
  BY <1>1
<1>3. Returned(q, FALSE).alone = q.alone
  BY CallNames DEF Returned, Begun
<1>. QED  BY <1>2, <1>3 DEF Begins

\* What is answered beforehand is nothing to what is done.
LEMMA AnsIsFree ==
  ASSUME NEW c, NEW k, NEW q, NEW r, DOMAIN r = CallFields, Begins(c, k, q, r), NEW ans
  PROVE  Begins(c, k, q, [r EXCEPT !.ans = ans])
<1>. DEFINE s == [r EXCEPT !.ans = ans]
<1>1. StillAt(r, s) /\ s.out = r.out /\ s.at = r.at /\ s.got = r.got /\ s.info = r.info
  BY CallNames DEF StillAt
<1>. HIDE DEF s
<1>2. Targets(docs, r) => Targets(docs, s)
  BY <1>1 DEF Targets, StillAt, Posts, Destination, Moves
<1>3. DirUpload(docs, r) => DirUpload(docs, s)
  BY <1>1 DEF DirUpload, StillAt
<1>4. Effected(docs, s) <=> Effected(docs, r)
  BY <1>1, EffectedKept DEF StillAt
<1>5. After(docs, r) => After(docs, s)
  BY <1>1, <1>4 DEF After, StillAt
<1>6. Held(docs, k, r) => Held(docs, k, s)
  BY <1>1, <1>4 DEF Held, StillAt, Posts
<1>7. CacheIsTrue(docs, k, r) => CacheIsTrue(docs, k, s)
  BY <1>1 DEF CacheIsTrue, Acted, StillAt
<1>8. Walking(docs, k, r) => Walking(docs, k, s)
  BY <1>1 DEF Walking, StillAt
<1>9. Looks(s) => Looks(r)
  BY <1>1 DEF Looks, StillAt
<1>. QED  BY <1>1, <1>2, <1>3, <1>5, <1>6, <1>7, <1>8, <1>9 DEF Begins, Grounded, StillAt, s

LEMMA IntoParentBegins ==
  ASSUME NEW c, NEW k, NEW q, Begun(q), q.req.op # "fs.rename"
  PROVE  Begins(c, k, q, IntoParent(k, q)) /\ DOMAIN IntoParent(k, q) = CallFields
<1>1. CASE q.req.path = <<>>
  <2>1. IntoParent(k, q) = Returned(q, FALSE)
    BY <1>1 DEF IntoParent
  <2>2. DOMAIN Returned(q, FALSE) = CallFields
    BY CallNames DEF Returned, Begun
  <2>. QED  BY <2>1, <2>2, ReturnBegins
<1>2. CASE q.req.path # <<>>
  <2>. DEFINE goal == Parent(q.req.path)
              r == LookUp(k, q, "parent", goal, FALSE)
  <2>1. IsPath(goal) /\ FirstLook(c, q, "parent", goal, FALSE)
    BY <1>2, ParentIs DEF Begun, FirstLook
  <2>2. Looking(q, r, "parent", goal, FALSE)
    BY LookUpKeeps DEF Begun
  <2>3. IntoParent(k, q) = r
    BY <1>2 DEF IntoParent
  <2>. HIDE DEF goal
  <2>4. Begins(c, k, q, r)
    BY <2>1, LookBegins
  <2>. QED  BY <2>2, <2>3, <2>4 DEF Looking, Kept
<1>. QED  BY <1>1, <1>2

LEMMA DaemonRequestBegins ==
  ASSUME NEW c, NEW k, NEW q, Begun(q), q.req.op \in FSRequests, NEW local
  PROVE  Begins(c, k, q, DaemonBegins(k, q, local))
<1>. DEFINE op == q.req.op
            top == q.req.path
<1>0. IsPath(top)
  BY DEF Begun
<1>1. CASE op \in {"fs.close", "fs.markDirty"}
  <2>1. Begins(c, k, q, IntoParent(k, q)) /\ DOMAIN IntoParent(k, q) = CallFields
    BY <1>1, IntoParentBegins
  <2>2. Begins(c, k, q, [IntoParent(k, q) EXCEPT !.ans = "ok"])
    BY <2>1, AnsIsFree
  <2>3. Begins(c, k, q, Answered(q, FALSE)) /\ Begins(c, k, q, Answered(q, TRUE))
    BY AnswerBegins
  <2>4. DaemonBegins(k, q, local) = WrittenBack(k, q, local)
    BY <1>1 DEF DaemonBegins
  <2>. QED  BY <2>2, <2>3, <2>4 DEF WrittenBack
<1>2. CASE op \in {"fs.list"}
  <2>1. FirstLook(c, q, "listed", top, TRUE)
    BY <1>2 DEF FirstLook
  <2>2. DaemonBegins(k, q, local) = LookUp(k, q, "listed", top, TRUE)
    BY <1>2 DEF DaemonBegins
  <2>. QED  BY <1>0, <2>1, <2>2, LookBegins
<1>3. CASE op = "fs.stat"
  <2>1. FirstLook(c, q, "seen", top, FALSE)
    BY <1>3 DEF FirstLook
  <2>2. DaemonBegins(k, q, local) = LookUp(k, q, "seen", top, FALSE)
    BY <1>3 DEF DaemonBegins
  <2>. QED  BY <1>0, <2>1, <2>2, LookBegins
<1>4. CASE op = "fs.open"
  <2>1. FirstLook(c, q, "resolve", top, FALSE)
    BY <1>4 DEF FirstLook
  <2>2. DaemonBegins(k, q, local) = LookUp(k, q, "resolve", top, FALSE)
    BY <1>4 DEF DaemonBegins, OnDocument
  <2>. QED  BY <1>0, <2>1, <2>2, LookBegins
<1>5. CASE op = "fs.mkdir"
  <2>1. DaemonBegins(k, q, local) = IntoParent(k, q)
    BY <1>5 DEF DaemonBegins
  <2>. QED  BY <1>5, <2>1, IntoParentBegins
<1>6. CASE op = "fs.rename" /\ Restricted
  <2>1. FirstLook(c, q, "old", top, FALSE)
    BY <1>6 DEF FirstLook
  <2>2. DaemonBegins(k, q, local) = LookUp(k, q, "old", top, FALSE)
    BY <1>6 DEF DaemonBegins
  <2>. QED  BY <1>0, <2>1, <2>2, LookBegins
<1>7. CASE op = "fs.rename" /\ ~Restricted
  <2>1. FirstLook(c, q, "resolve", top, FALSE)
    BY <1>7 DEF FirstLook
  <2>2. DaemonBegins(k, q, local) = LookUp(k, q, "resolve", top, FALSE)
    BY <1>7 DEF DaemonBegins, OnDocument
  <2>. QED  BY <1>0, <2>1, <2>2, LookBegins
<1>8. CASE op = "fs.remove"
  <2>1. FirstLook(c, q, "removing", top, FALSE)
    BY <1>8 DEF FirstLook
  <2>2. Begins(c, k, q, LookUp(k, q, "removing", top, FALSE)) /\ Begins(c, k, q, Answered(q, FALSE))
    BY <1>0, <2>1, LookBegins, AnswerBegins
  <2>3. DaemonBegins(k, q, local) \in {LookUp(k, q, "removing", top, FALSE), Answered(q, FALSE)}
    BY <1>8 DEF DaemonBegins
  <2>. QED  BY <2>2, <2>3
<1>9. CASE op = "fs.uploadStaged"
  <2>1. FirstLook(c, q, "target", top, FALSE)
    BY <1>9 DEF FirstLook
  <2>2. DaemonBegins(k, q, local) = LookUp(k, q, "target", top, FALSE)
    BY <1>9 DEF DaemonBegins
  <2>. QED  BY <1>0, <2>1, <2>2, LookBegins
<1>. QED  BY <1>1, <1>2, <1>3, <1>4, <1>5, <1>6, <1>7, <1>8, <1>9 DEF FSRequests

LEMMA CommandRequestBegins ==
  ASSUME NEW c, NEW k, NEW q, Begun(q), q.req.op \in RemoteCommands
  PROVE  Begins(c, k, q, CommandBegins(k, q))
<1>. DEFINE op == q.req.op
            top == q.req.path
<1>0. IsPath(top)
  BY DEF Begun
<1>1. CASE op = "ls"
  <2>1. FirstLook(c, q, "listed", top, TRUE)
    BY <1>1 DEF FirstLook
  <2>2. CommandBegins(k, q) = LookUp(k, q, "listed", top, TRUE)
    BY <1>1 DEF CommandBegins
  <2>. QED  BY <1>0, <2>1, <2>2, LookBegins
<1>2. CASE op = "stat"
  <2>1. FirstLook(c, q, "seen", top, FALSE)
    BY <1>2 DEF FirstLook
  <2>2. CommandBegins(k, q) = LookUp(k, q, "seen", top, FALSE)
    BY <1>2 DEF CommandBegins
  <2>. QED  BY <1>0, <2>1, <2>2, LookBegins
<1>3. CASE op \in {"mkdir", "upload"}
  <2>1. CommandBegins(k, q) = IntoParent(k, q)
    BY <1>3 DEF CommandBegins
  <2>. QED  BY <1>3, <2>1, IntoParentBegins
<1>4. CASE op = "upload-dir"
  <2>. DEFINE goal == Parent(top)
  <2>1. FirstLook(c, q, "dir_parent", goal, FALSE) /\ IsPath(goal)
    BY <1>0, <1>4, ParentIs DEF FirstLook, Begun
  <2>2. CommandBegins(k, q) = LookUp(k, q, "dir_parent", goal, FALSE)
    BY <1>4 DEF CommandBegins
  <2>. HIDE DEF goal
  <2>. QED  BY <2>1, <2>2, LookBegins
<1>5. CASE op \in {"copy", "move"}
  <2>1. FirstLook(c, q, "source", top, FALSE)
    BY <1>5 DEF FirstLook
  <2>2. Begins(c, k, q, LookUp(k, q, "source", top, FALSE)) /\ Begins(c, k, q, Returned(q, FALSE))
    BY <1>0, <1>5, <2>1, LookBegins, ReturnBegins
  <2>3. Begins(c, k, q, Transfer(k, q))
    BY <2>2 DEF Transfer
  <2>4. op = "copy" => Begins(c, k, q, LookUp(k, q, "copying", top, FALSE))
    <3>1. FirstLook(c, q, "copying", top, FALSE)
      BY <1>5 DEF FirstLook
    <3>. QED  BY <1>0, <3>1, LookBegins
  <2>5. CASE op = "copy"
    <3>1. CommandBegins(k, q) = CopyCommand(k, q)
      BY <2>5 DEF CommandBegins
    <3>. QED  BY <2>3, <2>4, <2>5, <3>1 DEF CopyCommand
  <2>6. CASE op = "move"
    <3>1. CommandBegins(k, q) = Transfer(k, q)
      BY <2>6 DEF CommandBegins, MoveCommand
    <3>. QED  BY <2>3, <3>1
  <2>. QED  BY <1>5, <2>5, <2>6
<1>6. CASE op \in {"download", "rm"}
  <2>1. FirstLook(c, q, "resolve", top, FALSE)
    BY <1>6 DEF FirstLook
  <2>2. Begins(c, k, q, LookUp(k, q, "resolve", top, FALSE)) /\ Begins(c, k, q, Answered(q, FALSE))
    BY <1>0, <2>1, LookBegins, AnswerBegins
  <2>3. CommandBegins(k, q) \in {LookUp(k, q, "resolve", top, FALSE), Answered(q, FALSE)}
    BY <1>6 DEF CommandBegins, DownloadCommand, RemoveCommand, OnDocument
  <2>. QED  BY <2>2, <2>3
<1>7. CASE op = "rename"
  <2>1. CommandBegins(k, q) = RenameCommand(k, q)
    BY <1>7 DEF CommandBegins
  <2>2. CASE top \in {<<>>, q.req.to} \/ ~SameParent(top, q.req.to)
    <3>1. CommandBegins(k, q) = Answered(q, FALSE)
      BY <2>1, <2>2 DEF RenameCommand
    <3>. QED  BY <3>1, AnswerBegins
  <2>3. CASE top # q.req.to /\ SameParent(top, q.req.to) /\ top # <<>>
    <3>1. FirstLook(c, q, "resolve", top, FALSE)
      BY <1>7, <2>3 DEF FirstLook
    <3>2. CommandBegins(k, q) = LookUp(k, q, "resolve", top, FALSE)
      BY <2>1, <2>3 DEF RenameCommand, OnDocument
    <3>. QED  BY <1>0, <3>1, <3>2, LookBegins
  <2>. QED  BY <2>2, <2>3
<1>. QED  BY <1>1, <1>2, <1>3, <1>4, <1>5, <1>6, <1>7 DEF RemoteCommands

\* A call that ended leaves nothing to be true of it; one that others have joined is no
\* longer exclusive.
LEMMA RequestGoesOn ==
  ASSUME AccessInv, Ground, NEW c \in Callers, NEW r \in Menu[c], NEW local, Request(c, r, local)
  PROVE  Ground'
<1>. DEFINE others == {d \in Callers \ {c} : Active(d)}
            fresh == IF OfDaemon(c) THEN known ELSE [known EXCEPT ![Process[c]] = <<>>]
            own == others = {}
            q == [NoCall EXCEPT !.req = r, !.alone = own]
            k == fresh[Process[c]]
            first == IF OfDaemon(c)
                     THEN IF Admits(mode, r.op) THEN DaemonBegins(k, q, local) ELSE Answered(q, FALSE)
                     ELSE CommandBegins(k, q)
<1>1. /\ ~Active(c) /\ known' = fresh /\ docs' = docs /\ flags' = flags /\ doubt' = (doubt \/ others # {})
      /\ call' = [d \in Callers |->
           CASE d \in others -> [call[d] EXCEPT !.alone = FALSE] [] d = c -> first [] OTHER -> call[d]]
  BY DEF Request
<1>2. Requested(c, r)
  BY RequestsAssumption DEF Requested
<1>3. Begun(q) /\ q.req = r /\ q.alone = own
  <2>. HIDE DEF own
  <2>1. DOMAIN q = CallFields /\ q.req = r /\ q.alone = own
    BY DEF CallFields, NoCall
  <2>2. r.path \in Seq(Names) /\ r.to \in Seq(Names)
    BY <1>2 DEF Requested, Paths
  <2>3. r.op = "upload-dir" => r.path # <<>>
    BY RequestsAssumption
  <2>. HIDE DEF q
  <2>. QED  BY <2>1, <2>2, <2>3, PathsArePaths DEF Begun
<1>. HIDE DEF q
<1>4. Begins(c, k, q, first)
  <2>1. r.op \in FSRequests \union RemoteCommands /\ (r.op \in FSRequests <=> OfDaemon(c))
    BY <1>2 DEF Requested
  <2>. HIDE DEF k
  <2>. QED  BY <1>3, <2>1, DaemonRequestBegins, CommandRequestBegins, AnswerBegins
<1>5. first.alone <=> own
  BY <1>3, <1>4 DEF Begins
<1>6. /\ k = Cache(c)'
      /\ OfDaemon(c) => k = Cache(c)
      /\ ~OfDaemon(c) => k = <<>>
      /\ \A d \in Callers : OfDaemon(d) => Cache(d)' = Cache(d)
  BY <1>1 DEF AccessInv, DocsAreKnown, Cache, OfDaemon
<1>. HIDE DEF first, k, fresh
<1>7. call'[c] = first /\ \A d \in Callers \ {c} : call'[d] = call[d] \/ (d \in others /\ call'[d] = [call[d] EXCEPT !.alone = FALSE])
  BY <1>1
<1>8. \A d \in others : ~call'[d].alone
  <2>. SUFFICES ASSUME NEW d \in others PROVE ~call'[d].alone
    OBVIOUS
  <2>1. call'[d] = [call[d] EXCEPT !.alone = FALSE] /\ DOMAIN call[d] = CallFields
    BY <1>1, AtHand DEF Sound
  <2>. QED  BY <2>1, CallNames
<1>9. \A d \in Callers : Active(d)' => d = c \/ d \in others
  <2>. SUFFICES ASSUME NEW d \in Callers, Active(d)', d # c, d \notin others PROVE FALSE
    OBVIOUS
  <2>1. call'[d] = call[d]
    BY <1>7
  <2>. QED  BY <2>1 DEF Active
<1>10. CASE others # {}
  <2>1. \A d \in Callers : Active(d)' => ~call'[d].alone
    BY <1>5, <1>7, <1>8, <1>9, <1>10
  <2>. QED  BY <1>1, <1>10, <2>1 DEF Ground, Exclusive
<1>11. CASE others = {}
  <2>1. doubt' <=> doubt
    BY <1>1, <1>11
  <2>2. \A d \in Callers : Active(d)' => d = c
    BY <1>9, <1>11
  <2>3. first.alone
    BY <1>5, <1>11
  <2>4. ~doubt => \A d \in Callers : OfDaemon(d) => Exact(docs, Cache(d))
    <3>1. \A d \in Callers : ~Active(d)
      BY <1>1, <1>11
    <3>. QED  BY <3>1 DEF Ground
  <2>5. ASSUME Exclusive(c)' PROVE Grounded(c, docs, Cache(c), call[c])'
    <3>1. Exact(docs, k)
      <4>1. CASE OfDaemon(c)
        BY <1>6, <2>1, <2>4, <2>5, <4>1 DEF Exclusive
      <4>2. CASE ~OfDaemon(c)
        BY <1>6, <4>2 DEF Exact
      <4>. QED  BY <4>1, <4>2
    <3>2. Grounded(c, docs, k, first)
      BY <1>4, <3>1 DEF Begins
    <3>3. Grounded(c, docs', Cache(c)', call'[c])
      BY <1>1, <1>6, <1>7, <3>2
    <3>. QED  BY <1>1, <3>3, GroundedNext
  <2>6. ASSUME ~doubt', NEW d \in Callers, OfDaemon(d) PROVE Exact(docs, Cache(d))'
    <3>1. Exact(docs', Cache(d)')
      BY <1>1, <1>6, <2>1, <2>4, <2>6
    <3>. QED  BY <3>1, ExactNext
  <2>7. \A d, e \in Callers : Active(d)' /\ call'[d].alone /\ Active(e)' => d = e
    BY <2>2
  <2>8. \A d \in Callers : Active(d)' => call'[d].alone
    BY <1>7, <2>2, <2>3
  <2>9. \A d \in Callers : Exclusive(d)' => Grounded(d, docs, Cache(d), call[d])'
    BY <2>2, <2>5 DEF Exclusive
  <2>. QED  BY <2>6, <2>7, <2>8, <2>9 DEF Ground
<1>. QED  BY <1>10, <1>11

LEMMA StutterGoesOn ==
  ASSUME Ground, UNCHANGED vars
  PROVE  Ground'
<1>1. docs' = docs /\ known' = known /\ call' = call /\ flags' = flags /\ doubt' = doubt
  BY DEF vars
<1>2. \A c \in Callers : Exclusive(c)' => Grounded(c, docs, Cache(c), call[c])'
  <2>. SUFFICES ASSUME NEW c \in Callers, Exclusive(c)' PROVE Grounded(c, docs, Cache(c), call[c])'
    OBVIOUS
  <2>1. Grounded(c, docs, Cache(c), call[c])
    BY <1>1 DEF Ground, Exclusive, Active
  <2>2. Grounded(c, docs', Cache(c)', call'[c])
    BY <1>1, <2>1 DEF Cache
  <2>. QED  BY <1>1, <2>2, GroundedNext
<1>3. ASSUME ~doubt', \A d \in Callers : OfDaemon(d) => ~Active(d)', NEW c \in Callers, OfDaemon(c)
      PROVE  Exact(docs, Cache(c))'
  <2>1. Exact(docs, Cache(c))
    BY <1>1, <1>3 DEF Ground, Active
  <2>2. Exact(docs', Cache(c)')
    BY <1>1, <2>1 DEF Cache
  <2>. QED  BY <2>2, ExactNext
<1>4. \A c, d \in Callers : Active(c)' /\ call'[c].alone /\ Active(d)' => c = d
  BY <1>1 DEF Ground, Active
<1>5. ~doubt' => \A c \in Callers : Active(c)' => call'[c].alone
  BY <1>1 DEF Ground, Active
<1>. QED  BY <1>2, <1>3, <1>4, <1>5 DEF Ground

\* A cache filled by listing every directory is exact.
LEMMA AllKnownIsExact ==
  ASSUME NEW d, Len(d) \in Nat
  PROVE  Exact(d, AllKnown(d))
<1>. DEFINE k == AllKnown(d)
            names == {d[i].name : i \in Live(d)}
            pick(p) == OneOf(At(d, p))
<1>. SUFFICES ASSUME NEW p \in DOMAIN k PROVE IsPath(p) /\ p # <<>> /\ TrueOf(d, p, k[p])
  BY DEF Exact
<1>1. /\ p \in UNION {[1..n -> names] : n \in 1..Len(d)}
      /\ At(d, p) # {} /\ k[p] = Entry(pick(p), d[pick(p)].dir, d[pick(p)].size)
  BY DEF AllKnown
<1>2. PICK n \in 1..Len(d) : p \in [1..n -> names]
  BY <1>1
<1>3. IsPath(p) /\ Len(p) = n
  <2>. HIDE DEF names
  <2>1. p \in Seq(names)
    BY <1>2, SeqDef
  <2>2. Len(p) = n
    BY <1>2, <2>1, LenProperties
  <2>. QED  BY <1>2, <2>2 DEF IsPath
<1>4. pick(p) \in At(d, p)
  BY <1>1 DEF OneOf
<1>5. p # <<>>
  BY <1>2, <1>3, EmptyPath
<1>. HIDE DEF pick, k
<1>. QED  BY <1>1, <1>3, <1>4, <1>5 DEF TrueOf

LEMMA GroundAtFirst == Init => Ground
<1>. SUFFICES ASSUME Init PROVE Ground
  OBVIOUS
<1>1. \A c \in Callers : ~Active(c)
  BY DEF Init, Active, NoCall
<1>2. AreDocs(docs)
  BY AccessInit DEF AccessInv
<1>3. Exact(docs, <<>>) /\ Exact(docs, AllKnown(docs))
  BY <1>2, AllKnownIsExact DEF Exact, AreDocs
<1>4. ASSUME NEW c \in Callers, OfDaemon(c) PROVE Exact(docs, Cache(c))
  <2>. DEFINE P == {Process[d] : d \in Callers}
  <2>1. PICK k \in {<<>>, AllKnown(docs)} : known = [p \in P |-> IF p = "daemon" THEN k ELSE <<>>]
    BY DEF Init
  <2>2. Cache(c) = k
    BY <1>4, <2>1 DEF Cache, OfDaemon
  <2>. QED  BY <1>3, <2>1, <2>2
<1>. QED  BY <1>1, <1>4 DEF Ground, Exclusive

LEMMA GroundHolds == Spec => [](AccessInv /\ Ground)
<1>1. Ground /\ AccessInv /\ AccessInv' /\ [Next]_vars => Ground'
  <2>. SUFFICES ASSUME Ground, AccessInv, [Next]_vars PROVE Ground'
    OBVIOUS
  <2>1. CASE Next
    BY <2>1, RequestGoesOn, StepsGoOn DEF Next
  <2>2. CASE UNCHANGED vars
    BY <2>2, StutterGoesOn
  <2>. QED  BY <2>1, <2>2
<1>. QED  BY <1>1, GroundAtFirst, AccessIsSound, PTL DEF Spec

\* While calls come one after the other, no answer is lost and only the daemon changes the
\* documents, every entry of the daemon's cache says between two calls what the server
\* has: whatever the calls, each forgets all that it may have changed.
THEOREM CacheIsTrueWhenQuiet == Spec => []CacheTrueWhenQuiet
<1>1. Ground => CacheTrueWhenQuiet
  BY DEF Ground, CacheTrueWhenQuiet, Exact
<1>. QED  BY <1>1, GroundHolds, PTL

\* While the daemon's cache is true, what a request of its renames, moves or removes is
\* the document that is at the path it names: the docid it resolved, maybe from the
\* cache, is still that document's when the post arrives.
THEOREM OnNamedPath == Spec => ActsOnNamedPath
<1>. DEFINE Named(c) ==
       Active(c) /\ OfDaemon(c) /\ ~doubt /\ docs' # docs /\ call'[c].took /\ ~call[c].took
         /\ call[c].verb \in {"rename", "move", "delete"}
       => At(docs, call[c].req.path) = {call[c].src}
<1>1. ASSUME AccessInv, Ground, Next, NEW c \in Callers, Active(c), OfDaemon(c), ~doubt, docs' # docs,
             call'[c].took, ~call[c].took, call[c].verb \in {"rename", "move", "delete"}
      PROVE  At(docs, call[c].req.path) = {call[c].src}
  <2>. DEFINE q == call[c]
  <2>1. Posts(q)
    <3>1. PICK d \in Callers : Posts(call[d]) /\ \A e \in Callers \ {d} : call'[e] = call[e]
      BY <1>1, OnlyPostsChange DEF Posts
    <3>. QED  BY <1>1, <3>1
  <2>2. Grounded(c, docs, Cache(c), q)
    BY <1>1 DEF Ground, Exclusive
  <2>3. q.src \in At(docs, q.req.path)
    BY <1>1, <2>1, <2>2, OwnCall DEF Targets, Acting
  <2>4. IsPath(q.req.path)
    BY <1>1, InHand
  <2>5. IsTree(docs)
    BY <1>1 DEF AccessInv
  <2>. HIDE DEF q
  <2>6. At(docs, q.req.path) = {q.src}
    BY <2>3, <2>4, <2>5, OneAtPath
  <2>. QED  BY <2>6 DEF q
<1>2. AccessInv /\ Ground /\ [Next]_vars => [\A c \in Callers : Named(c)]_vars
  BY <1>1
<1>. QED  BY <1>2, GroundHolds, PTL DEF Spec, ActsOnNamedPath
-----------------------------------------------------------------------------
(* What a caller is told. *)

Unfinished(r) == r.pc # "done"

LEMMA LookUnfinished ==
  ASSUME NEW k, NEW q, DOMAIN q = CallFields, NEW pc, pc # "done", NEW goal, NEW whole
  PROVE  Unfinished(LookUp(k, q, pc, goal, whole))
<1>. DEFINE r == LookUp(k, q, pc, goal, whole)
<1>1. Looking(q, r, pc, goal, whole)
  BY LookUpKeeps
<1>. HIDE DEF r
<1>2. Unfinished(r)
  BY <1>1 DEF Looking, Unfinished
<1>. QED  BY <1>2 DEF r

LEMMA ReturnUnfinished ==
  ASSUME NEW q, DOMAIN q = CallFields, NEW good
  PROVE  Unfinished(Returned(q, good))
BY CallNames DEF Returned, Unfinished

LEMMA PostingUnfinished ==
  ASSUME NEW q, DOMAIN q = CallFields, NEW verb
  PROVE  Unfinished(Posting(q, verb))
BY CallNames DEF Posting, Unfinished

LEMMA NextChildUnfinished ==
  ASSUME NEW q, DOMAIN q = CallFields, NEW k
  PROVE  Unfinished(NextChild(k, q))
<1>. DEFINE p == [q EXCEPT !.name = q.req.to[q.left]]
<1>1. DOMAIN p = CallFields
  OBVIOUS
<1>. HIDE DEF p
<1>2. Unfinished(Posting(p, "predupload")) /\ Unfinished(Returned(q, TRUE))
  BY <1>1, PostingUnfinished, ReturnUnfinished
<1>. QED  BY <1>2 DEF NextChild, p

\* The call goes on as r.
LEMMA Went ==
  ASSUME AccessInv, NEW c \in Callers, NEW k, NEW r, Go(c, k, r)
  PROVE  call'[c] = r
BY DEF Go, AccessInv, CallsAreSound

LEMMA GivesUpUnfinished ==
  ASSUME AccessInv, NEW c \in Callers, NEW pc, GivesUp(c, pc), pc # "done"
  PROVE  Unfinished(call'[c])
<1>. DEFINE r == Returned(call[c], FALSE)
<1>1. Go(c, Cache(c), r) /\ DOMAIN call[c] = CallFields
  BY InHand DEF GivesUp, On, Active
<1>2. Unfinished(r)
  BY <1>1, ReturnUnfinished
<1>. HIDE DEF r
<1>. QED  BY <1>1, <1>2, Went

\* A request, answered or failed, leaves the call at its step.
LEMMA FailsStays ==
  ASSUME AccessInv, NEW c \in Callers, NEW b, Fails(c, b), DOMAIN call[c] = CallFields
  PROVE  call'[c].pc = call[c].pc
<1>. DEFINE q == call[c]
            r == [q EXCEPT !.out = "none", !.got = {}, !.info = NoEntry, !.hurt = TRUE,
                           !.took = @ \/ b # docs, !.lost = @ \/ b # docs]
<1>1. call = [d \in Callers |-> call[d]]
  BY DEF AccessInv, CallsAreSound
<1>2. call' = [call EXCEPT ![c] = r]
  BY <1>1 DEF Fails
<1>3. r.pc = q.pc
  OBVIOUS
<1>. HIDE DEF r
<1>. QED  BY <1>1, <1>2, <1>3

LEMMA AskStays ==
  ASSUME AccessInv, NEW c \in Callers, Ask(c), DOMAIN call[c] = CallFields
  PROVE  call'[c].pc = call[c].pc
<1>. DEFINE q == call[c]
            l == Listing(docs, q.at.id)
<1>1. call = [d \in Callers |-> call[d]]
  BY DEF AccessInv, CallsAreSound
<1>2. CASE Fails(c, docs)
  BY <1>2, FailsStays
<1>3. CASE ~Fails(c, docs)
  <2>. HIDE DEF l
  <2>1. \/ call' = [call EXCEPT ![c].out = "got", ![c].got = l]
        \/ call' = [call EXCEPT ![c].out = "none"]
    BY <1>3 DEF Ask, l
  <2>. DEFINE g == [q EXCEPT !.out = "got", !.got = l]
              r == [q EXCEPT !.out = "none"]
  <2>2. call' = [call EXCEPT ![c] = g] \/ call' = [call EXCEPT ![c] = r]
    BY <1>1, <2>1
  <2>3. g.pc = q.pc /\ r.pc = q.pc
    OBVIOUS
  <2>. HIDE DEF g, r
  <2>. QED  BY <1>1, <2>2, <2>3
<1>. QED  BY <1>2, <1>3

LEMMA PostStays ==
  ASSUME AccessInv, NEW c \in Callers, Post(c), DOMAIN call[c] = CallFields
  PROVE  call'[c].pc = call[c].pc
<1>. DEFINE q == call[c]
            a == Effect(q)
            new == Answers(q, a)
<1>1. call = [d \in Callers |-> call[d]]
  BY DEF AccessInv, CallsAreSound
<1>2. ASSUME NEW b, Fails(c, b) PROVE call'[c].pc = q.pc
  BY <1>2, FailsStays
<1>. HIDE DEF a
<1>3. \/ Fails(c, docs) \/ Fails(c, a)
      \/ call' = [call EXCEPT ![c].out = "none"]
      \/ \E v \in Follows(q) :
            call' = [call EXCEPT ![c].verb = v,
                       ![c].out = IF v = q.verb THEN "found" ELSE "post",
                       ![c].new = Answers(q, a),
                       ![c].name = IF q.verb = "getsuggestname" THEN Suggested(q)
                                   ELSE IF Answers(q, a) # Gone THEN a[Answers(q, a)].name
                                   ELSE @,
                       ![c].took = @ \/ a # docs]
  BY DEF Post, a
<1>4. ASSUME NEW v,
           call' = [call EXCEPT ![c].verb = v,
                      ![c].out = IF v = q.verb THEN "found" ELSE "post",
                      ![c].new = Answers(q, a),
                      ![c].name = IF q.verb = "getsuggestname" THEN Suggested(q)
                                  ELSE IF Answers(q, a) # Gone THEN a[Answers(q, a)].name
                                  ELSE @,
                      ![c].took = @ \/ a # docs]
      PROVE call'[c].pc = q.pc
  <2>. DEFINE name == IF q.verb = "getsuggestname" THEN Suggested(q)
                      ELSE IF new # Gone THEN a[new].name ELSE q.name
              out == IF v = q.verb THEN "found" ELSE "post"
              took == q.took \/ a # docs
              r == [q EXCEPT !.verb = v, !.out = out, !.new = new, !.name = name, !.took = took]
  <2>1. call' = [call EXCEPT ![c] = r]
    BY <1>1, <1>4
  <2>2. r.pc = q.pc
    <3>. HIDE DEF name, out, took, new
    <3>. QED  OBVIOUS
  <2>. HIDE DEF r
  <2>. QED  BY <1>1, <2>1, <2>2
<1>5. CASE call' = [call EXCEPT ![c].out = "none"]
  <2>. DEFINE r == [q EXCEPT !.out = "none"]
  <2>1. call' = [call EXCEPT ![c] = r]
    BY <1>1, <1>5
  <2>2. r.pc = q.pc
    OBVIOUS
  <2>. HIDE DEF r
  <2>. QED  BY <1>1, <2>1, <2>2
<1>. QED  BY <1>2, <1>3, <1>4, <1>5

\* No step of the provider's answers the caller: it returns to the handler or command.
LEMMA ProviderUnfinished ==
  ASSUME AccessInv, NEW c \in Callers, ProviderStep(c)
  PROVE  Unfinished(call'[c])
<1>. DEFINE q == call[c]
<1>1. Active(c) /\ DOMAIN q = CallFields
  BY ProviderOfActive, InHand
<1>2. CASE \E pc \in Renames \union {"parent", "verify", "dir_parent", "child"} : GivesUp(c, pc)
  BY <1>2, GivesUpUnfinished DEF Renames, BeforeRename
<1>3. CASE Ask(c) \/ Post(c)
  BY <1>1, <1>3, AskStays, PostStays DEF Active, Unfinished
<1>4. CASE Learn(c)
  <2>. DEFINE k == Cached(Cache(c), Prefix(q.goal, q.at.n), q.got)
              r == IF q.at.n = Len(q.goal) THEN [q EXCEPT !.out = "found"] ELSE Descend(k, q)
  <2>1. Go(c, k, r)
    BY <1>4 DEF Learn, Go
  <2>. HIDE DEF k
  <2>2. Descend(k, q).pc = q.pc
    BY <1>1, DescendKeeps
  <2>3. r.pc = q.pc
    BY <1>1, <2>2
  <2>. HIDE DEF r
  <2>4. call'[c] = r
    BY <2>1, Went
  <2>. QED  BY <1>1, <2>3, <2>4 DEF Active, Unfinished
<1>5. ASSUME NEW r, NEW k, Go(c, k, r), Unfinished(r) PROVE Unfinished(call'[c])
  BY <1>5, Went
<1>6. CASE (ParentResolved(c) /\ ~GivesUp(c, "parent")) \/ NameSuggested(c) \/ DirectoryMade(c) \/ Uploaded(c)
  BY <1>1, <1>5, <1>6, PostingUnfinished, ReturnUnfinished, LookUnfinished
     DEF ParentResolved, NameSuggested, DirectoryMade, Uploaded
<1>7. CASE (UploadVerified(c) /\ ~GivesUp(c, "verify")) \/ (DirectoryParentSeen(c) /\ ~GivesUp(c, "dir_parent"))
  BY <1>1, <1>5, <1>7, PostingUnfinished, ReturnUnfinished DEF UploadVerified, DirectoryParentSeen
<1>8. CASE RootMade(c) \/ ChildSent(c) \/ (ChildVerified(c) /\ ~GivesUp(c, "child"))
  BY <1>1, <1>5, <1>8, NextChildUnfinished, ReturnUnfinished, LookUnfinished
     DEF RootMade, ChildSent, ChildVerified
<1>9. CASE (Resolved(c) /\ ~GivesUp(c, "resolve")) \/ RenamedOrRemoved(c) \/ Downloaded(c)
  BY <1>1, <1>5, <1>9, PostingUnfinished, ReturnUnfinished DEF Resolved, RenamedOrRemoved, Downloaded
<1>10. CASE (SourceSeen(c) /\ ~GivesUp(c, "source")) \/ (DestinationSeen(c) /\ ~GivesUp(c, "dest"))
  BY <1>1, <1>5, <1>10, ReturnUnfinished, LookUnfinished DEF SourceSeen, DestinationSeen
<1>11. CASE (SourceResolved(c) /\ ~GivesUp(c, "source_id")) \/ (DestinationResolved(c) /\ ~GivesUp(c, "dest_id"))
  BY <1>1, <1>5, <1>11, LookUnfinished DEF SourceResolved, DestinationResolved
<1>12. CASE (DestinationListed(c) /\ ~GivesUp(c, "list")) \/ Transferred(c)
  BY <1>1, <1>5, <1>12, PostingUnfinished, LookUnfinished DEF DestinationListed, Transferred
<1>13. CASE (InDestination(c) /\ ~GivesUp(c, "moved")) \/ (OutOfSource(c) /\ ~GivesUp(c, "left"))
  BY <1>1, <1>5, <1>13, ReturnUnfinished, LookUnfinished DEF InDestination, OutOfSource
<1>. QED  BY <1>2, <1>3, <1>4, <1>6, <1>7, <1>8, <1>9, <1>10, <1>11, <1>12, <1>13
          DEF ProviderStep, PostFailed, Renames, BeforeRename

\* The caller is not told that all is well, or has not been told anything yet.
NotOk(r) == r.pc # "done" \/ r.ans # "ok"

LEMMA GoesNotOk ==
  ASSUME AccessInv, NEW c \in Callers, NEW k, NEW r, Go(c, k, r), Unfinished(r)
  PROVE  NotOk(call'[c])
BY Went DEF Unfinished, NotOk

LEMMA RefusalNotOk ==
  ASSUME AccessInv, NEW c \in Callers, Active(c), Answer(c, FALSE)
  PROVE  NotOk(call'[c])
<1>. DEFINE r == Answered(call[c], FALSE)
<1>1. Go(c, Cache(c), r) /\ DOMAIN call[c] = CallFields
  BY InHand DEF Answer
<1>2. r.ans = "error"
  BY <1>1, CallNames DEF Answered
<1>. HIDE DEF r
<1>. QED  BY <1>1, <1>2, Went DEF NotOk

\* Told that all is well only if it is good.
LEMMA AnswerIfGood ==
  ASSUME AccessInv, NEW c \in Callers, Active(c), NEW good, Answer(c, good), ~good
  PROVE  NotOk(call'[c])
<1>. DEFINE r == Answered(call[c], good)
<1>1. Go(c, Cache(c), r) /\ DOMAIN call[c] = CallFields
  BY InHand DEF Answer
<1>2. r.ans = "error"
  BY <1>1, CallNames DEF Answered
<1>. HIDE DEF r
<1>. QED  BY <1>1, <1>2, Went DEF NotOk

LEMMA BeginningsUnfinished ==
  ASSUME NEW q, DOMAIN q = CallFields, NEW k
  PROVE  Unfinished(IntoParent(k, q)) /\ Unfinished(OnDocument(k, q)) /\ Unfinished(Transfer(k, q))
BY LookUnfinished, ReturnUnfinished DEF IntoParent, OnDocument, Transfer

\* Handlers that go on to a lookup, or refuse.
LEMMA GoingNotOk ==
  ASSUME AccessInv, NEW c \in Callers,
         \/ CopyDecided(c) \/ IntoSeen(c) \/ NewSeen(c) \/ OldGone(c) \/ RemovalSeen(c)
         \/ RemoveReturned(c) \/ TargetSeen(c) \/ StagedReturned(c)
  PROVE  NotOk(call'[c])
<1>1. Active(c)
  BY DEF CopyDecided, IntoSeen, NewSeen, OldGone, RemovalSeen, RemoveReturned, TargetSeen, StagedReturned, On, Active
<1>2. DOMAIN call[c] = CallFields
  BY <1>1, InHand
<1>3. CASE CopyDecided(c)
  BY <1>1, <1>2, <1>3, GoesNotOk, RefusalNotOk, BeginningsUnfinished DEF CopyDecided
<1>4. CASE IntoSeen(c)
  BY <1>1, <1>2, <1>4, GoesNotOk, RefusalNotOk, LookUnfinished DEF IntoSeen
<1>5. CASE NewSeen(c)
  BY <1>1, <1>2, <1>5, GoesNotOk, RefusalNotOk, BeginningsUnfinished DEF NewSeen
<1>6. CASE OldGone(c)
  <2>. DEFINE q == [call[c] EXCEPT !.gone = ~Good(c)]
  <2>1. DOMAIN q = CallFields /\ Go(c, Cache(c), LookUp(Cache(c), q, "new_there", q.req.to, FALSE))
    BY <1>2, <1>6 DEF OldGone
  <2>. HIDE DEF q
  <2>. QED  BY <2>1, GoesNotOk, LookUnfinished
<1>7. CASE RemovalSeen(c)
  BY <1>1, <1>2, <1>7, GoesNotOk, RefusalNotOk, BeginningsUnfinished DEF RemovalSeen
<1>8. CASE RemoveReturned(c)
  <2>. DEFINE q == [call[c] EXCEPT !.gone = Good(c)]
  <2>1. DOMAIN q = CallFields /\ Go(c, Cache(c), LookUp(Cache(c), q, "removed", call[c].req.path, FALSE))
    BY <1>2, <1>8 DEF RemoveReturned
  <2>. HIDE DEF q
  <2>. QED  BY <2>1, GoesNotOk, LookUnfinished
<1>9. CASE TargetSeen(c)
  BY <1>1, <1>2, <1>9, GoesNotOk, RefusalNotOk, BeginningsUnfinished DEF TargetSeen
<1>10. CASE StagedReturned(c)
  BY <1>1, <1>2, <1>10, GoesNotOk, RefusalNotOk, LookUnfinished DEF StagedReturned
<1>. QED  BY <1>3, <1>4, <1>5, <1>6, <1>7, <1>8, <1>9, <1>10

\* What is known of a call of its own is enough for its handler's answer.
LEMMA AnswersTruly ==
  ASSUME AccessInv, NEW c \in Callers, Handler(c), Grounded(c, docs, Cache(c), call[c])
  PROVE  NotOk(call'[c]) \/ Effected(docs, call[c])
<1>. DEFINE q == call[c]
<1>1. Active(c) /\ DOMAIN q = CallFields /\ InStep(q)
  BY HandlerOfActive, InHand
<1>2. Targets(docs, q) /\ After(docs, q)
  BY OwnCall
<1>3. ASSUME NEW good, Answer(c, good), good => Effected(docs, q)
      PROVE  NotOk(call'[c]) \/ Effected(docs, q)
  BY <1>1, <1>3, AnswerIfGood
<1>4. CASE Looked(c) \/ WrittenBackOver(c)
  <2>1. q.req.op \in {"fs.list", "fs.stat", "ls", "stat", "fs.close", "fs.markDirty"}
    BY <1>2, <1>4 DEF Looked, WrittenBackOver, On, Targets
  <2>. HIDE DEF q
  <2>2. Effected(docs, q)
    BY <2>1 DEF Effected, Done
  <2>. QED  BY <2>2 DEF q
<1>5. CASE PassedOn(c) \/ (RenameReturned(c) /\ Answer(c, Good(c)))
  <2>1. Answer(c, Good(c)) /\ q.pc = "back"
    BY <1>5 DEF PassedOn, RenameReturned, On
  <2>2. Good(c) => Effected(docs, q)
    BY <1>2, <2>1 DEF After, Good
  <2>. DEFINE good == Good(c)
  <2>3. Answer(c, good) /\ (good => Effected(docs, q))
    BY <2>1, <2>2
  <2>. HIDE DEF good
  <2>. QED  BY <1>3, <2>3
<1>6. CASE RenameReturned(c) /\ ~Answer(c, Good(c))
  BY <1>1, <1>6, GoesNotOk, LookUnfinished DEF RenameReturned
<1>7. CASE OldSeen(c)
  <2>. DEFINE p == [q EXCEPT !.was = q.info]
  <2>1. q.pc = "old"
    BY <1>7 DEF OldSeen, On
  <2>2. DOMAIN p = CallFields /\ p.req = q.req
    BY <1>1, CallNames
  <2>3. \/ Answer(c, FALSE)
        \/ p.req.path = p.req.to
        \/ Go(c, Cache(c), LookUp(Cache(c), p, "new", p.req.to, FALSE))
        \/ Go(c, Cache(c), LookUp(Cache(c), p, "into", Parent(p.req.to), FALSE))
    BY <1>7 DEF OldSeen
  <2>. HIDE DEF p
  <2>4. CASE p.req.path = p.req.to
    BY <1>1, <2>1, <2>2, <2>4, RenamesDaemon DEF Effected, Special
  <2>. QED  BY <1>1, <2>2, <2>3, <2>4, GoesNotOk, RefusalNotOk, LookUnfinished
<1>8. CASE NewThere(c) \/ RemovalChecked(c)
  <2>. DEFINE there == Good(c) /\ q.gone /\ q.info.dir = q.was.dir /\ (q.info.dir \/ q.info.size = q.was.size)
              away == q.gone /\ ~Good(c)
  <2>1. (q.pc = "new_there" /\ Answer(c, there)) \/ (q.pc = "removed" /\ Answer(c, away))
    BY <1>8 DEF NewThere, RemovalChecked, On
  <2>2. there \/ away => q.gone
    OBVIOUS
  <2>. HIDE DEF there, away
  <2>. QED  BY <1>2, <1>3, <2>1, <2>2 DEF After
<1>9. CASE StagedVerified(c)
  <2>1. q.pc = "staged" /\ \E good : Answer(c, good)
    BY <1>9 DEF StagedVerified, On
  <2>. QED  BY <1>2, <2>1 DEF After
<1>. QED  BY <1>4, <1>5, <1>6, <1>7, <1>8, <1>9, GoingNotOk DEF Handler

\* A call that had the provider to itself and answers ok has done what it was asked,
\* whatever requests failed on its way, unless it is the daemon's and its cache was out
\* of date.  Renames are excepted that name no change, or in the fully writable mode
\* another parent.
THEOREM OkIsKept == Spec => OkIsTrue
<1>. DEFINE Told(c) ==
       Finishes(c) /\ call'[c].ans = "ok" /\ call[c].alone /\ ~Special(call[c]) /\ (doubt => ~OfDaemon(c))
       => Done(docs, call[c])
<1>1. ASSUME AccessInv, Ground, Next, NEW c \in Callers, Finishes(c), call'[c].ans = "ok",
             call[c].alone, ~Special(call[c]), doubt => ~OfDaemon(c)
      PROVE  Done(docs, call[c])
  <2>1. Active(c) /\ call'[c].pc = "done" /\ ~NotOk(call'[c]) /\ ~Unfinished(call'[c])
    BY <1>1 DEF Finishes, NotOk, Unfinished
  <2>2. Grounded(c, docs, Cache(c), call[c])
    BY <1>1, <2>1 DEF Ground, Exclusive
  <2>3. PICK d \in Callers : (\E r \in Menu[d], local \in BOOLEAN : Request(d, r, local)) \/ Step(d) \/ Handler(d)
    BY <1>1 DEF Next
  <2>4. CASE \E r \in Menu[d], local \in BOOLEAN : Request(d, r, local)
    <3>1. PICK r \in Menu[d], local \in BOOLEAN : Request(d, r, local)
      BY <2>4
    <3>2. d # c /\ ~Active(d)
      BY <2>1, <3>1 DEF Request
    <3>3. call'[c] = [call[c] EXCEPT !.alone = FALSE]
      BY <2>1, <3>1, <3>2 DEF Request
    <3>4. call'[c].pc = call[c].pc
      BY <2>1, <3>3, InHand, CallNames
    <3>. QED  BY <2>1, <3>4 DEF Active
  <2>5. CASE Step(d) \/ Handler(d)
    <3>1. Active(d)
      BY <2>5, ProviderOfActive, HandlerOfActive DEF Step
    <3>2. d = c
      BY <1>1, <2>1, <3>1 DEF Ground
    <3>3. Handler(c)
      BY <1>1, <2>1, <2>5, <3>2, ProviderUnfinished DEF Step
    <3>4. Effected(docs, call[c])
      BY <1>1, <2>1, <2>2, <3>3, AnswersTruly
    <3>. QED  BY <1>1, <3>4 DEF Effected
  <2>. QED  BY <2>3, <2>4, <2>5
<1>2. AccessInv /\ Ground /\ [Next]_vars => [\A c \in Callers : Told(c)]_vars
  BY <1>1
<1>. QED  BY <1>2, GroundHolds, PTL DEF Spec, OkIsTrue
=============================================================================
