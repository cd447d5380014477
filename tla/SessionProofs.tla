--------------------------- MODULE SessionProofs ----------------------------
(***************************************************************************)
(* Theorems about HddFS: the types of the state, the remote tree among them, *)
(* and what a call or session that met no other can rely on, for any       *)
(* threads, paths and handles.                                             *)
(***************************************************************************)
EXTENDS MountProofs

(***************************************************************************)
(* Types, and that the remote stays a tree.                                *)
(***************************************************************************)

LEMMA ParentIs ==
  ASSUME NEW S, NEW p \in Seq(S), p # <<>>
  PROVE  /\ Parent(p) \in Seq(S) /\ Len(p) \in Nat \ {0} /\ Len(Parent(p)) = Len(p) - 1
         /\ \A i \in 1..Len(p) - 1 : Parent(p)[i] = p[i]
<1>1. Len(p) \in Nat \ {0} /\ \A i \in 1..Len(p) : p[i] \in S
  BY EmptySeq, ElementOfSeq
<1>. DEFINE n == Len(p) - 1
            s == SubSeq(p, 1, n)
<1>2. n \in Nat /\ \A i \in 1..n : p[i] \in S
  BY <1>1
<1>. HIDE DEF n
<1>3. s \in Seq(S) /\ Len(s) = (IF 1 <= n THEN n - 1 + 1 ELSE 0) /\ \A i \in 1..n - 1 + 1 : s[i] = p[1 + i - 1]
  BY <1>2, SubSeqProperties
<1>. HIDE DEF s
<1>4. s \in Seq(S) /\ Len(s) = n /\ \A i \in 1..n : s[i] = p[i]
  BY <1>2, <1>3
<1>5. Parent(p) = s
  BY DEF Parent, s, n
<1>. QED  BY <1>1, <1>4, <1>5 DEF n

LEMMA BelowIs ==
  ASSUME NEW S, NEW p \in Seq(S), NEW top \in Seq(S)
  PROVE  Below(p, top) <=> Len(p) >= Len(top) /\ \A i \in 1..Len(top) : p[i] = top[i]
<1>0. Len(p) \in Nat /\ Len(top) \in Nat
  BY LenProperties
<1>1. CASE Len(p) >= Len(top)
  <2>. DEFINE s == SubSeq(p, 1, Len(top))
  <2>1. \A i \in 1..Len(top) : p[i] \in S
    BY <1>0, <1>1, ElementOfSeq
  <2>2. s \in Seq(S) /\ Len(s) = Len(top) /\ \A i \in 1..Len(top) : s[i] = p[i]
    BY <1>0, <2>1, SubSeqProperties
  <2>. HIDE DEF s
  <2>3. s = top <=> \A i \in 1..Len(top) : s[i] = top[i]
    BY <2>2, SeqEqual
  <2>. QED  BY <1>1, <2>2, <2>3 DEF Below, Prefix, s
<1>2. CASE ~(Len(p) >= Len(top))
  BY <1>2 DEF Below
<1>. QED  BY <1>1, <1>2

LEMMA RebasedIs ==
  ASSUME NEW S, NEW p \in Seq(S), NEW old \in Seq(S), NEW new \in Seq(S), Len(p) >= Len(old)
  PROVE  /\ Rebased(p, old, new) \in Seq(S)
         /\ Len(Rebased(p, old, new)) = Len(new) + (Len(p) - Len(old))
         /\ \A i \in 1..Len(Rebased(p, old, new)) :
              Rebased(p, old, new)[i] = IF i <= Len(new) THEN new[i] ELSE p[i - Len(new) + Len(old)]
<1>0. Len(p) \in Nat /\ Len(old) \in Nat /\ Len(new) \in Nat
  BY LenProperties
<1>. DEFINE s == SubSeq(p, Len(old) + 1, Len(p))
<1>1. \A i \in Len(old) + 1..Len(p) : p[i] \in S
  BY <1>0, ElementOfSeq
<1>2. s \in Seq(S) /\ Len(s) = Len(p) - Len(old) /\ \A i \in 1..Len(p) - Len(old) : s[i] = p[Len(old) + i]
  BY <1>0, <1>1, SubSeqProperties
<1>. HIDE DEF s
<1>3. Rebased(p, old, new) = new \o s
  BY DEF Rebased, s
<1>4. /\ new \o s \in Seq(S) /\ Len(new \o s) = Len(new) + Len(s)
      /\ \A i \in 1..Len(new) + Len(s) : (new \o s)[i] = IF i <= Len(new) THEN new[i] ELSE s[i - Len(new)]
  BY <1>2, ConcatProperties
<1>5. ASSUME NEW i \in 1..Len(new) + (Len(p) - Len(old))
      PROVE  (new \o s)[i] = IF i <= Len(new) THEN new[i] ELSE p[i - Len(new) + Len(old)]
  <2>1. CASE i <= Len(new)
    BY <1>0, <1>2, <1>4, <2>1
  <2>2. CASE ~(i <= Len(new))
    <3>1. i - Len(new) \in 1..Len(p) - Len(old)
      BY <1>0, <2>2
    <3>2. s[i - Len(new)] = p[Len(old) + (i - Len(new))]
      BY <1>2, <3>1
    <3>. QED  BY <1>0, <1>2, <1>4, <2>2, <3>2
  <2>. QED  BY <2>1, <2>2
<1>6. Len(new \o s) = Len(new) + (Len(p) - Len(old))
  BY <1>2, <1>4
<1>. QED  BY <1>3, <1>4, <1>5, <1>6

\* Where a path is, its parent is, unless the path is the top itself.
LEMMA PathFacts ==
  ASSUME NEW S, NEW p \in Seq(S), NEW top \in Seq(S)
  PROVE  /\ Parent(<<>>) = <<>>
         /\ Below(p, p) /\ (top # <<>> => ~Below(<<>>, top))
         /\ Below(Parent(p), top) => Below(p, top)
         /\ Below(p, top) /\ p # top => Below(Parent(p), top)
         /\ top # <<>> => ~Below(Parent(top), top)
<1>1. Parent(<<>>) = <<>>
  BY DEF Parent
<1>2. Len(p) \in Nat /\ Len(top) \in Nat /\ <<>> \in Seq(S) /\ Len(<<>>) = 0
  BY LenProperties, EmptySeq
<1>3. Below(p, p)
  BY <1>2, BelowIs
<1>4. top # <<>> => ~Below(<<>>, top)
  <2>1. top # <<>> => Len(top) \in Nat \ {0}
    BY EmptySeq
  <2>2. Below(<<>>, top) => Len(<<>>) >= Len(top)
    BY <1>2, BelowIs
  <2>. QED  BY <1>2, <2>1, <2>2
<1>5. Below(Parent(p), top) => Below(p, top)
  <2>1. CASE p = <<>>
    BY <1>1, <2>1
  <2>2. CASE p # <<>>
    BY <1>2, <2>2, ParentIs, BelowIs
  <2>. QED  BY <2>1, <2>2
<1>6. ASSUME Below(p, top), p # top PROVE Below(Parent(p), top)
  <2>1. Len(p) >= Len(top) /\ \A i \in 1..Len(top) : p[i] = top[i]
    BY <1>6, BelowIs
  <2>2. Len(p) # Len(top)
    BY <1>2, <1>6, <2>1, SeqEqual
  <2>3. p # <<>>
    BY <1>2, <2>1, <2>2
  <2>4. Parent(p) \in Seq(S) /\ Len(Parent(p)) = Len(p) - 1 /\ \A i \in 1..Len(p) - 1 : Parent(p)[i] = p[i]
    BY <2>3, ParentIs
  <2>. QED  BY <1>2, <2>1, <2>2, <2>4, BelowIs
<1>7. top # <<>> => ~Below(Parent(top), top)
  BY <1>2, ParentIs, BelowIs
<1>. QED  BY <1>1, <1>3, <1>4, <1>5, <1>6, <1>7

\* What is below a renamed directory keeps its place in it.
LEMMA RebasedFacts ==
  ASSUME NEW S, NEW p \in Seq(S), NEW old \in Seq(S), NEW new \in Seq(S), Below(p, old)
  PROVE  /\ Rebased(p, old, new) \in Seq(S) /\ Below(Rebased(p, old, new), new)
         /\ p = old => Rebased(p, old, new) = new
         /\ p # old => /\ Rebased(p, old, new) # <<>>
                       /\ Rebased(Parent(p), old, new) = Parent(Rebased(p, old, new))
<1>0. Len(p) \in Nat /\ Len(old) \in Nat /\ Len(new) \in Nat /\ Len(<<>>) = 0 /\ <<>> \in Seq(S)
  BY LenProperties, EmptySeq
<1>1. Len(p) >= Len(old) /\ \A i \in 1..Len(old) : p[i] = old[i]
  BY BelowIs
<1>. DEFINE r == Rebased(p, old, new)
<1>2. /\ r \in Seq(S) /\ Len(r) = Len(new) + (Len(p) - Len(old))
      /\ \A i \in 1..Len(r) :
           r[i] = IF i <= Len(new) THEN new[i] ELSE p[i - Len(new) + Len(old)]
  BY <1>1, RebasedIs
<1>. HIDE DEF r
<1>3. Below(r, new)
  <2>1. Len(p) - Len(old) \in Nat
    BY <1>0, <1>1
  <2>2. Len(r) >= Len(new)
    BY <1>0, <1>2, <2>1
  <2>3. ASSUME NEW i \in 1..Len(new) PROVE r[i] = new[i]
    <3>1. i \in 1..Len(r) /\ i <= Len(new)
      BY <1>0, <1>2, <2>1
    <3>. QED  BY <1>2, <3>1
  <2>. QED  BY <1>2, <2>2, <2>3, BelowIs
<1>4. ASSUME p = old PROVE r = new
  <2>1. Len(r) = Len(new) /\ \A i \in 1..Len(new) : r[i] = new[i]
    BY <1>0, <1>2, <1>4
  <2>. QED  BY <1>0, <1>2, <2>1, SeqEqual
<1>5. ASSUME p # old PROVE r # <<>> /\ Rebased(Parent(p), old, new) = Parent(r)
  <2>1. Len(p) > Len(old)
    BY <1>0, <1>1, <1>5, SeqEqual
  <2>2. r # <<>> /\ p # <<>>
    <3>1. Len(p) # 0 /\ Len(r) # 0
      BY <1>0, <1>2, <2>1
    <3>. QED  BY <1>0, <3>1
  <2>3. Parent(p) \in Seq(S) /\ Len(Parent(p)) = Len(p) - 1 /\ \A i \in 1..Len(p) - 1 : Parent(p)[i] = p[i]
    BY <2>2, ParentIs
  <2>4. Parent(r) \in Seq(S) /\ Len(Parent(r)) = Len(r) - 1 /\ \A i \in 1..Len(r) - 1 : Parent(r)[i] = r[i]
    BY <1>2, <2>2, ParentIs
  <2>. DEFINE t == Rebased(Parent(p), old, new)
  <2>5. /\ t \in Seq(S) /\ Len(t) = Len(new) + (Len(p) - 1 - Len(old))
        /\ \A i \in 1..Len(t) :
             t[i] = IF i <= Len(new) THEN new[i] ELSE Parent(p)[i - Len(new) + Len(old)]
    <3>1. ASSUME NEW s \in Seq(S), Len(s) >= Len(old), Len(s) = Len(p) - 1
          PROVE  /\ Rebased(s, old, new) \in Seq(S)
                 /\ Len(Rebased(s, old, new)) = Len(new) + (Len(p) - 1 - Len(old))
                 /\ \A i \in 1..Len(Rebased(s, old, new)) :
                      Rebased(s, old, new)[i] = IF i <= Len(new) THEN new[i] ELSE s[i - Len(new) + Len(old)]
      <4>1. /\ Rebased(s, old, new) \in Seq(S)
            /\ \A i \in 1..Len(Rebased(s, old, new)) :
                 Rebased(s, old, new)[i] = IF i <= Len(new) THEN new[i] ELSE s[i - Len(new) + Len(old)]
        BY <3>1, RebasedIs
      <4>2. Len(Rebased(s, old, new)) = Len(new) + (Len(s) - Len(old))
        <5>1. Len(s) >= Len(old)
          BY <3>1
        <5>. QED  BY <5>1, RebasedIs
      <4>3. Len(Rebased(s, old, new)) = Len(new) + (Len(p) - 1 - Len(old))
        BY <1>0, <3>1, <4>2
      <4>. QED  BY <4>1, <4>3
    <3>2. Parent(p) \in Seq(S) /\ Len(Parent(p)) >= Len(old) /\ Len(Parent(p)) = Len(p) - 1
      BY <1>0, <2>1, <2>3
    <3>. QED  BY <3>1, <3>2
  <2>. HIDE DEF t
  <2>6. Len(t) = Len(Parent(r))
    BY <1>0, <1>2, <2>4, <2>5
  <2>7. ASSUME NEW i \in 1..Len(t) PROVE t[i] = Parent(r)[i]
    <3>1. i \in 1..Len(r) - 1 /\ i \in 1..Len(r) /\ i \in 1..Len(new) + (Len(p) - 1 - Len(old))
      BY <1>0, <1>2, <2>1, <2>5, <2>7
    <3>2. Parent(r)[i] = r[i] /\ r[i] = IF i <= Len(new) THEN new[i] ELSE p[i - Len(new) + Len(old)]
      BY <1>2, <2>4, <3>1
    <3>3. t[i] = IF i <= Len(new) THEN new[i] ELSE Parent(p)[i - Len(new) + Len(old)]
      BY <2>5, <3>1
    <3>4. CASE i <= Len(new)
      BY <3>2, <3>3, <3>4
    <3>5. CASE ~(i <= Len(new))
      <4>1. i - Len(new) + Len(old) \in 1..Len(p) - 1
        BY <1>0, <3>1, <3>5
      <4>. QED  BY <2>3, <3>2, <3>3, <3>5, <4>1
    <3>. QED  BY <3>4, <3>5
  <2>8. t = Parent(r)
    BY <2>4, <2>5, <2>6, <2>7, SeqEqual
  <2>. QED  BY <2>2, <2>8 DEF t
<1>. QED  BY <1>2, <1>3, <1>4, <1>5 DEF r
-----------------------------------------------------------------------------
\* A remote that is a tree.
Nodes == [kind : {"none", "dir", "file"}, text : Texts]
IsRemote(r) ==
  /\ r \in [Paths -> Nodes] /\ r[<<>>] = Directory
  /\ \A p \in Paths : r[p].kind # "none" => r[Parent(p)].kind = "dir"

Names == UNION {{p[i] : i \in DOMAIN p} : p \in Paths}

LEMMA PathsAre ==
  /\ Paths \subseteq Seq(Names) /\ <<>> \in Paths
  /\ \A p \in Paths : Parent(p) \in Paths
BY PathsAssumption DEF Names

\* Something new comes into a directory.
LEMMA MadeIsRemote ==
  ASSUME IsRemote(remote), NEW path \in Paths, ~There(path), IsDir(Parent(path)), NEW node \in Nodes
  PROVE  IsRemote(WithNode(path, node))
<1>. DEFINE r == WithNode(path, node)
<1>1. r \in [Paths -> Nodes] /\ \A p \in Paths : r[p] = IF p = path THEN node ELSE remote[p]
  BY DEF WithNode, IsRemote
<1>2. path # <<>>
  BY DEF IsRemote, There, Directory
<1>. HIDE DEF r
<1>3. r[<<>>] = Directory
  BY <1>1, <1>2, PathsAre DEF IsRemote
<1>4. ASSUME NEW p \in Paths, r[p].kind # "none" PROVE r[Parent(p)].kind = "dir"
  <2>1. Parent(p) \in Paths /\ remote[Parent(p)].kind = "dir"
    <3>1. CASE p = path
      BY <3>1, PathsAre DEF IsDir
    <3>2. CASE p # path
      BY <1>1, <1>4, <3>2, PathsAre DEF IsRemote
    <3>. QED  BY <3>1, <3>2
  <2>2. Parent(p) # path
    BY <2>1 DEF There
  <2>. QED  BY <1>1, <2>1, <2>2
<1>. QED  BY <1>1, <1>3, <1>4 DEF IsRemote, r

LEMMA RemovedIsRemote ==
  ASSUME IsRemote(remote), NEW path \in Paths, path # <<>>
  PROVE  IsRemote(Without(path))
<1>. DEFINE r == Without(path)
<1>1. r \in [Paths -> Nodes] /\ \A p \in Paths : r[p] = IF Below(p, path) THEN Nothing ELSE remote[p]
  <2>1. Nothing \in Nodes
    BY DEF Nothing, Nodes, Texts
  <2>. QED  BY <2>1 DEF Without, IsRemote
<1>. HIDE DEF r
<1>2. path \in Seq(Names) /\ ~Below(<<>>, path)
  BY PathsAre, PathFacts
<1>3. r[<<>>] = Directory
  BY <1>1, <1>2, PathsAre DEF IsRemote
<1>4. ASSUME NEW p \in Paths, r[p].kind # "none" PROVE r[Parent(p)].kind = "dir"
  <2>1. ~Below(p, path) /\ remote[p].kind # "none"
    BY <1>1, <1>4 DEF Nothing
  <2>2. ~Below(Parent(p), path)
    BY <1>2, <2>1, PathsAre, PathFacts
  <2>. QED  BY <1>1, <2>1, <2>2, PathsAre DEF IsRemote
<1>. QED  BY <1>1, <1>3, <1>4 DEF IsRemote, r

\* A move takes along what is below, to where nothing was.
LEMMA MovedIsRemote ==
  ASSUME IsRemote(remote), NEW old \in Paths, NEW new \in Paths, old # <<>>, There(old), ~There(new),
         IsDir(Parent(new)), ~Below(new, old)
  PROVE  IsRemote(MovedTo(old, new))
<1>. DEFINE r == MovedTo(old, new)
            from(p) == Rebased(p, new, old)
<1>0. /\ old \in Seq(Names) /\ new \in Seq(Names) /\ new # <<>> /\ Parent(new) \in Paths
      /\ \A p \in Paths : p \in Seq(Names) /\ Parent(p) \in Paths
  BY PathsAre DEF IsRemote, There, Directory
<1>1. /\ r \in [Paths -> Nodes]
      /\ \A p \in Paths : Below(p, new) => r[p] = IF from(p) \in Paths THEN remote[from(p)] ELSE Nothing
      /\ \A p \in Paths : ~Below(p, new) /\ Below(p, old) => r[p] = Nothing
      /\ \A p \in Paths : ~Below(p, new) /\ ~Below(p, old) => r[p] = remote[p]
  <2>1. Nothing \in Nodes
    BY DEF Nothing, Nodes, Texts
  <2>2. r = [p \in Paths |-> r[p]]
    BY DEF MovedTo
  <2>3. \A p \in Paths : Below(p, new) => r[p] = IF from(p) \in Paths THEN remote[from(p)] ELSE Nothing
    BY DEF MovedTo
  <2>4. \A p \in Paths : ~Below(p, new) /\ Below(p, old) => r[p] = Nothing
    BY DEF MovedTo
  <2>5. \A p \in Paths : ~Below(p, new) /\ ~Below(p, old) => r[p] = remote[p]
    BY DEF MovedTo
  <2>. HIDE DEF r, from
  <2>6. \A p \in Paths : r[p] \in Nodes
    BY <2>1, <2>3, <2>4, <2>5 DEF IsRemote
  <2>. QED  BY <2>2, <2>3, <2>4, <2>5, <2>6
<1>. HIDE DEF r
<1>2. r[<<>>] = Directory
  <2>1. ~Below(<<>>, new) /\ ~Below(<<>>, old)
    BY <1>0, PathFacts
  <2>. QED  BY <1>1, <2>1, PathsAre DEF IsRemote
<1>3. ASSUME NEW p \in Paths, r[p].kind # "none" PROVE r[Parent(p)].kind = "dir"
  <2>1. p \in Seq(Names) /\ Parent(p) \in Paths
    BY <1>0
  <2>2. CASE Below(p, new)
    <3>1. from(p) \in Paths /\ remote[from(p)].kind # "none"
      BY <1>1, <1>3, <2>2 DEF Nothing
    <3>2. CASE p = new
      <4>1. ~Below(Parent(new), new) /\ ~Below(Parent(new), old)
        BY <1>0, PathFacts
      <4>. QED  BY <1>0, <1>1, <3>2, <4>1 DEF IsDir
    <3>3. CASE p # new
      <4>1. Below(Parent(p), new) /\ from(Parent(p)) = Parent(from(p))
        BY <1>0, <2>1, <2>2, <3>3, PathFacts, RebasedFacts
      <4>2. Parent(from(p)) \in Paths /\ remote[Parent(from(p))].kind = "dir"
        BY <1>0, <3>1 DEF IsRemote
      <4>. QED  BY <1>1, <2>1, <4>1, <4>2
    <3>. QED  BY <3>2, <3>3
  <2>3. CASE ~Below(p, new)
    <3>1. ~Below(p, old) /\ remote[p].kind # "none"
      BY <1>1, <1>3, <2>3 DEF Nothing
    <3>2. ~Below(Parent(p), new) /\ ~Below(Parent(p), old)
      BY <1>0, <2>1, <2>3, <3>1, PathFacts
    <3>3. remote[Parent(p)].kind = "dir"
      BY <3>1 DEF IsRemote
    <3>. QED  BY <1>1, <2>1, <3>2, <3>3
  <2>. QED  BY <2>2, <2>3
<1>. QED  BY <1>1, <1>2, <1>3 DEF IsRemote, r

\* A request that may reach the daemon: of paths, with a text of writers.
Asks2(q) == q.path \in Paths /\ q.to \in Paths /\ q.text \in Texts

LEMMA ServedIsRemote ==
  ASSUME IsRemote(remote), NEW q, Asks2(q)
  PROVE  IsRemote(Served(q).after)
<1>. DEFINE new == RenamesTo(q)
<1>1. \A can, after : (can => IsRemote(after)) => IsRemote(Only(can, after).after)
  BY DEF Only, Done, Failed
<1>2. CASE ~Admits(dmode, q.req)
  BY <1>2 DEF Served, Failed
<1>3. CASE Admits(dmode, q.req) /\ q.req = "fs.mkdir"
  <2>1. Directory \in Nodes
    BY DEF Directory, Nodes, Texts
  <2>2. Served(q) = Only(~There(q.path) /\ IsDir(Parent(q.path)), WithNode(q.path, Directory))
    BY <1>3 DEF Served
  <2>. QED  BY <1>1, <2>1, <2>2, MadeIsRemote DEF Asks2
<1>4. CASE Admits(dmode, q.req) /\ q.req = "fs.uploadStaged"
  <2>1. File(q.text) \in Nodes
    BY DEF File, Nodes, Asks2
  <2>2. Served(q) = Only(~There(q.path) /\ IsDir(Parent(q.path)), WithNode(q.path, File(q.text)))
    BY <1>4 DEF Served
  <2>. QED  BY <1>1, <2>1, <2>2, MadeIsRemote DEF Asks2
<1>5. CASE Admits(dmode, q.req) /\ q.req = "fs.remove"
  <2>1. \E can : Served(q) = Only(q.path # <<>> /\ can, Without(q.path))
    <3>1. Served(q) = Only(q.path # <<>> /\ There(q.path)
                             /\ (IF IsDir(q.path) THEN "deleteDir" ELSE "deleteFile") \in Can(dmode), Without(q.path))
      BY <1>5 DEF Served
    <3>. DEFINE can == There(q.path) /\ (IF IsDir(q.path) THEN "deleteDir" ELSE "deleteFile") \in Can(dmode)
    <3>2. Served(q) = Only(q.path # <<>> /\ can, Without(q.path))
      BY <3>1
    <3>. HIDE DEF can
    <3>. QED  BY <3>2
  <2>. QED  BY <1>1, <2>1, RemovedIsRemote DEF Asks2
<1>6. CASE Admits(dmode, q.req) /\ q.req = "fs.rename"
  <2>1. Served(q) = Only(CanRename(q), IF new = q.path THEN remote ELSE MovedTo(q.path, new))
    BY <1>6 DEF Served
  <2>2. ASSUME CanRename(q), new # q.path PROVE IsRemote(MovedTo(q.path, new))
    <3>1. /\ q.path # <<>> /\ There(q.path) /\ new \in Paths /\ IsDir(Parent(new))
          /\ ~There(new) /\ ~Below(new, q.path)
      BY <2>2 DEF CanRename
    <3>. HIDE DEF new
    <3>. QED  BY <3>1, MovedIsRemote DEF Asks2
  <2>. HIDE DEF new
  <2>. QED  BY <1>1, <2>1, <2>2
<1>7. CASE Admits(dmode, q.req) /\ q.req \notin {"fs.mkdir", "fs.uploadStaged", "fs.remove", "fs.rename"}
  <2>1. Served(q).after = remote
    BY <1>7 DEF Served, Only, Done, Failed
  <2>. QED  BY <2>1
<1>. QED  BY <1>2, <1>3, <1>4, <1>5, <1>6, <1>7
-----------------------------------------------------------------------------
\* What calls and handles are made of, and the requests the daemon may still be busy with.
CallsTyped ==
  \A t \in Threads : th[t].arg \in Paths /\ th[t].got \subseteq Paths /\ th[t].h \in HandleNumbers
TextsTyped == \A h \in Handles : handle[h].text \in Texts
Requests == {"req", "path", "to", "text"}
LateTyped ==
  \A q \in late : DOMAIN q = Requests /\ (q.req \in {"fs.open", "fs.open.rest"} \/ Asks2(q))

LEMMA CallsTypedAside ==
  ASSUME CallsTyped, NEW t \in Threads, \A u \in Threads \ {t} : Aside(th'[u], th[u]),
         th'[t].arg \in Paths /\ th'[t].got \subseteq Paths /\ th'[t].h \in HandleNumbers
  PROVE  CallsTyped'
<1>1. ASSUME NEW u \in Threads PROVE th'[u].arg \in Paths /\ th'[u].got \subseteq Paths /\ th'[u].h \in HandleNumbers
  BY DEF CallsTyped, Aside, AlikeCalls
<1>. QED  BY <1>1 DEF CallsTyped, HandleNumbers

LEMMA CallsTypedProceed ==
  ASSUME DaemonInv, LockInv, CallsTyped, NEW t \in Threads, Proceed(t)
  PROVE  CallsTyped'
<1>0. th[t].pc # "idle"
  BY DEF Proceed, Ask, Lock, Look, Put, Created, TargetSeen, Find, Enter, Waited, Marked, Seen, Drop, Close,
         Sent, Changed, Removed, OldSeen, DirectorySeen, IntoSeen, NewSeen, Renamed, FlushDirs, UnlockAgain,
         List, Listed, Reread, At, Heard
<1>1. /\ th[t].path \in Paths /\ th[t].to \in Paths /\ Parent(th[t].to) \in Paths /\ <<>> \in Paths
      /\ th[t].arg \in Paths /\ th[t].got \subseteq Paths /\ th[t].h \in HandleNumbers
      /\ files[th[t].path] \in HandleNumbers /\ None \in HandleNumbers /\ DOMAIN th[t] = Fields
  BY <1>0, AtHand, PathsAre DEF LockInv, CallsTyped, HandleNumbers
<1>2. CASE GoesOn(t)
  <2>1. PICK q : Go(t, q) /\ Continues(th[t], q)
    BY <1>2 DEF GoesOn
  <2>2. DOMAIN q = Fields /\ q.arg \in Paths /\ q.got \subseteq Paths /\ q.h \in HandleNumbers
    BY <1>1, <2>1 DEF Continues
  <2>3. /\ \A u \in Threads \ {t} : Aside(th'[u], th[u])
        /\ q.pc = "idle" => Blank(th'[t])
        /\ q.pc = "refind" => th'[t] = [q EXCEPT !.holds = {}]
        /\ q.pc \notin {"idle", "refind"} => th'[t] = q
    BY <2>1, <2>2, GoAside DEF DaemonInv
  <2>4. th'[t].arg \in Paths /\ th'[t].got \subseteq Paths /\ th'[t].h \in HandleNumbers
    BY <1>1, <2>2, <2>3, FieldNames DEF Blank
  <2>. QED  BY <2>3, <2>4, CallsTypedAside
<1>3. CASE Lock(t)
  <2>. DEFINE q == [th[t] EXCEPT !.holds = @ \union {NextWanted(th[t])}]
              next == IF Cardinality(q.holds) = Len(Wanted(q)) THEN Locked(q) ELSE q
  <2>1. th' = [th EXCEPT ![t] = next]
    BY <1>3 DEF Lock
  <2>2. DOMAIN q = Fields /\ q.arg = th[t].arg /\ q.got = th[t].got /\ q.h = th[t].h /\ q.path = th[t].path
    BY <1>1, FieldNames
  <2>. HIDE DEF q
  <2>3. Locked(q).arg \in {q.arg, q.path} /\ Locked(q).got = q.got /\ Locked(q).h = q.h
    BY <2>2, FieldNames DEF Locked, Asking
  <2>4. next.arg \in Paths /\ next.got \subseteq Paths /\ next.h \in HandleNumbers
    BY <1>1, <2>2, <2>3
  <2>. HIDE DEF next
  <2>5. th'[t] = next /\ \A u \in Threads \ {t} : th'[u] = th[u]
    BY <2>1 DEF DaemonInv, CallsAreRecords
  <2>. QED  BY <2>4, <2>5, CallsTypedAside DEF Aside, AlikeCalls
<1>4. CASE UNCHANGED th
  BY <1>4 DEF CallsTyped, HandleNumbers
<1>. QED  BY <1>2, <1>3, <1>4, ProceedGoesOn

LEMMA CallsTypedNext ==
  ASSUME DaemonInv, LockInv, CallsTyped, IPCNext
  PROVE  CallsTyped'
<1>1. ASSUME NEW t \in Threads, NEW c \in Menu[fmode], Begin(t, c) PROVE CallsTyped'
  <2>1. /\ \A u \in Threads \ {t} : Aside(th'[u], th[u])
        /\ Begun(th'[t], c) \/ Aside(th'[t], [th[t] EXCEPT !.good = FALSE])
    BY <1>1, BeginAside
  <2>2. c.path \in Paths
    BY MountAssumption DEF DaemonInv
  <2>. DEFINE q == [th[t] EXCEPT !.good = FALSE]
  <2>3. q.arg = th[t].arg /\ q.got = th[t].got /\ q.h = th[t].h
    BY AtHand, FieldNames
  <2>. HIDE DEF q
  <2>4. th'[t].arg \in Paths /\ th'[t].got \subseteq Paths /\ th'[t].h \in HandleNumbers
    <3>1. CASE Begun(th'[t], c)
      BY <2>2, <3>1, PathsAre DEF Begun, HandleNumbers
    <3>2. CASE Aside(th'[t], q)
      BY <2>3, <3>2 DEF Aside, AlikeCalls, CallsTyped
    <3>. QED  BY <2>1, <3>1, <3>2 DEF q
  <2>. QED  BY <2>1, <2>4, CallsTypedAside
<1>2. ASSUME NEW h \in Handles, Download(h) PROVE CallsTyped'
  <2>1. UNCHANGED th
    BY <1>2 DEF Download, DownloadBegins, DownloadEnds, DownloadLost, callVars
  <2>. QED  BY <2>1 DEF CallsTyped, HandleNumbers
<1>3. ASSUME NEW q \in late, th' = Disturbed(q) PROVE CallsTyped'
  <2>1. \A u \in Threads : Aside(th'[u], th[u])
    BY <1>3, DisturbedAside DEF DaemonInv
  <2>. QED  BY <2>1 DEF CallsTyped, HandleNumbers, Aside, AlikeCalls
<1>. QED  BY <1>1, <1>2, <1>3, CallsTypedProceed DEF IPCNext

LEMMA TextsTypedNext ==
  ASSUME DaemonInv, TextsTyped, IPCNext
  PROVE  TextsTyped'
<1>1. ASSUME TableKept PROVE TextsTyped'
  BY <1>1, MountAssumption DEF TextsTyped, Texts, TableKept, SameFile
<1>2. ASSUME UNCHANGED handle PROVE TextsTyped'
  BY <1>2 DEF TextsTyped, Texts
<1>3. ASSUME NEW h, NEW new, new.text \in Texts, handle' = [handle EXCEPT ![h] = new] PROVE TextsTyped'
  BY <1>3 DEF TextsTyped, Texts, DaemonInv, HandlesAreRecords
<1>4. ASSUME NEW t \in Threads, NEW c \in Menu[fmode], Begin(t, c) PROVE TextsTyped'
  BY <1>2, <1>4 DEF Begin, Leave, Table
<1>5. ASSUME NEW t \in Threads, Proceed(t) PROVE TextsTyped'
  <2>1. CASE NewEntry(t)
    <3>1. PICK h \in Unused : \E new : handle' = [handle EXCEPT ![h] = new] /\ new.text = {}
      BY <2>1 DEF NewEntry
    <3>. QED  BY <1>3, <3>1 DEF Texts
  <2>2. CASE Shared(t)
    BY <1>2, <2>2 DEF Shared
  <2>3. CASE Moved(t)
    <3>. DEFINE h == files[th[t].path]
                new == [handle[h] EXCEPT !.path = th[t].to]
    <3>1. th[t].pc = "heard" /\ h # None /\ handle' = [handle EXCEPT ![h] = new]
      BY <2>3 DEF Moved
    <3>2. h \in Handles /\ DOMAIN handle[h] = DOMAIN NewHandle
      BY <3>1, AtHand
    <3>3. new.text = handle[h].text
      BY <3>2, HandleFields
    <3>. HIDE DEF h, new
    <3>. QED  BY <1>3, <3>1, <3>2, <3>3 DEF TextsTyped
  <2>. QED  BY <1>1, <1>5, <2>1, <2>2, <2>3, TableChanges
<1>6. ASSUME NEW h \in Handles, Download(h) PROVE TextsTyped'
  <2>1. \/ \E dl : handle' = [handle EXCEPT ![h] = [handle[h] EXCEPT !.dl = dl]]
        \/ \E dl : handle' = [handle EXCEPT ![h] = [handle[h] EXCEPT !.dl = dl, !.again = TRUE]]
    <3>1. CASE DownloadBegins(h)
      BY <3>1 DEF DownloadBegins
    <3>2. CASE DownloadEnds(h)
      <4>. DEFINE dl == IF remote[handle[h].file].kind = "file" THEN "ready" ELSE "failed"
      <4>1. handle' = [handle EXCEPT ![h].dl = dl]
        BY <3>2, Zenon DEF DownloadEnds
      <4>. HIDE DEF dl
      <4>. QED  BY <4>1
    <3>3. CASE DownloadLost(h)
      <4>. DEFINE dl == IF handle[h].again THEN "failed" ELSE "asking"
      <4>1. handle' = [handle EXCEPT ![h].dl = dl, ![h].again = TRUE]
        BY <3>3, Zenon DEF DownloadLost
      <4>. HIDE DEF dl
      <4>2. handle' = [handle EXCEPT ![h] = [handle[h] EXCEPT !.dl = dl, !.again = TRUE]]
        BY <4>1
      <4>. QED  BY <4>2
    <3>. QED  BY <1>6, <3>1, <3>2, <3>3 DEF Download
  <2>2. DOMAIN handle[h] = DOMAIN NewHandle
    BY DEF DaemonInv, HandlesAreRecords
  <2>3. \A dl : [handle[h] EXCEPT !.dl = dl].text = handle[h].text /\ [handle[h] EXCEPT !.dl = dl, !.again = TRUE].text = handle[h].text
    BY <2>2, HandleFields
  <2>4. PICK new : handle' = [handle EXCEPT ![h] = new] /\ new.text = handle[h].text
    BY <2>1, <2>3
  <2>. QED  BY <1>3, <2>4 DEF TextsTyped
<1>7. ASSUME UNCHANGED ipcVars PROVE TextsTyped'
  BY <1>2, <1>7 DEF ipcVars
<1>. QED  BY <1>4, <1>5, <1>6, <1>7 DEF IPCNext
-----------------------------------------------------------------------------
\* The daemon's own state.
IsLocal == local \in [Paths -> [there : BOOLEAN, whole : BOOLEAN, text : Texts]]
Daemons == IsRemote(remote) /\ IsLocal /\ lost \in 0..MaxLost /\ LateTyped

LEMMA LocalChanged ==
  ASSUME IsLocal, NEW f, NEW new, f \in Paths => new \in [there : BOOLEAN, whole : BOOLEAN, text : Texts],
         local' = [local EXCEPT ![f] = new]
  PROVE  IsLocal'
BY DEF IsLocal, Texts

LEMMA FileFacts ==
  /\ Fresh \in [there : BOOLEAN, whole : BOOLEAN, text : Texts]
  /\ [Fresh EXCEPT !.whole = FALSE] \in [there : BOOLEAN, whole : BOOLEAN, text : Texts]
  /\ \A x \in Texts : [Fresh EXCEPT !.text = x] \in [there : BOOLEAN, whole : BOOLEAN, text : Texts]
BY DEF Fresh, Texts

\* A file's text is changed.
LEMMA TextChanged ==
  ASSUME IsLocal, NEW f, NEW x, f \in Paths => x \in Texts, local' = [local EXCEPT ![f].text = x]
  PROVE  IsLocal'
<1>. DEFINE new == [local[f] EXCEPT !.text = x]
<1>1. local' = [local EXCEPT ![f] = new]
  OBVIOUS
<1>2. f \in Paths => new \in [there : BOOLEAN, whole : BOOLEAN, text : Texts]
  <2>1. ASSUME f \in Paths PROVE new \in [there : BOOLEAN, whole : BOOLEAN, text : Texts]
    <3>1. local[f] \in [there : BOOLEAN, whole : BOOLEAN, text : Texts] /\ x \in Texts
      BY <2>1 DEF IsLocal
    <3>. QED  BY <3>1
  <2>. QED  BY <2>1
<1>. HIDE DEF new
<1>. QED  BY <1>1, <1>2, LocalChanged

\* A download that has failed.
LEMMA PartLeft ==
  ASSUME IsLocal, NEW f, NEW there \in BOOLEAN, local' = [local EXCEPT ![f].there = there, ![f].whole = FALSE]
  PROVE  IsLocal'
<1>. DEFINE new == [local[f] EXCEPT !.there = there, !.whole = FALSE]
<1>1. local' = [local EXCEPT ![f] = new]
  OBVIOUS
<1>2. f \in Paths => new \in [there : BOOLEAN, whole : BOOLEAN, text : Texts]
  <2>1. ASSUME f \in Paths PROVE new \in [there : BOOLEAN, whole : BOOLEAN, text : Texts]
    <3>1. local[f] \in [there : BOOLEAN, whole : BOOLEAN, text : Texts]
      BY <2>1 DEF IsLocal
    <3>. QED  BY <3>1
  <2>. QED  BY <2>1
<1>. HIDE DEF new
<1>. QED  BY <1>1, <1>2, LocalChanged

LEMMA DownloadsTyped ==
  ASSUME IsRemote(remote), IsLocal, NEW path, OpenBegins(path) \/ OpenEnds(path)
  PROVE  IsLocal'
<1>1. CASE OpenBegins(path)
  BY <1>1, FileFacts, LocalChanged DEF OpenBegins
<1>2. CASE OpenEnds(path)
  <2>1. path \in Paths => remote[path].text \in Texts
    BY DEF IsRemote, Nodes
  <2>2. CASE local' = [local EXCEPT ![path] = [Fresh EXCEPT !.text = remote[path].text]]
    BY <2>1, <2>2, FileFacts, LocalChanged
  <2>3. CASE \E there \in BOOLEAN : local' = [local EXCEPT ![path].there = there, ![path].whole = FALSE]
    BY <2>3, PartLeft
  <2>. QED  BY <1>2, <2>2, <2>3 DEF OpenEnds
<1>. QED  BY <1>1, <1>2

LEMMA ServedTyped ==
  ASSUME IsRemote(remote), IsLocal, NEW q, Asks2(q), remote' = Served(q).after, local' = LocalAfter(q)
  PROVE  IsRemote(remote)' /\ IsLocal'
<1>1. IsRemote(Served(q).after)
  BY ServedIsRemote
<1>2. IsRemote(remote)'
  BY <1>1 DEF IsRemote, Nodes, Texts
<1>3. IsLocal'
  <2>1. local' = local \/ local' = [local EXCEPT ![q.path] = Fresh]
    BY DEF LocalAfter
  <2>2. CASE local' = local
    BY <2>2 DEF IsLocal, Texts
  <2>. QED  BY <2>1, <2>2, FileFacts, LocalChanged
<1>. QED  BY <1>2, <1>3

LEMMA DaemonsKept ==
  ASSUME Daemons, UNCHANGED <<remote, lost, late>>, IsLocal'
  PROVE  Daemons'
BY DEF Daemons, LateTyped, Asks2, Texts, IsRemote, Nodes

LEMMA LocalKept ==
  ASSUME IsLocal, UNCHANGED local
  PROVE  IsLocal'
BY DEF IsLocal, Texts

LEMMA RemoteKept ==
  ASSUME IsRemote(remote), UNCHANGED remote
  PROVE  IsRemote(remote)'
BY DEF IsRemote, Nodes, Texts

LEMMA LateChanged ==
  ASSUME LateTyped, NEW r, DOMAIN r = Requests, r.req \in {"fs.open", "fs.open.rest"} \/ Asks2(r),
         late' \subseteq late \union {r}
  PROVE  LateTyped'
BY DEF LateTyped, Asks2, Texts

LEMMA AskTyped ==
  ASSUME DaemonInv, LockInv, CallsTyped, TextsTyped, Daemons, NEW t \in Threads, Ask(t)
  PROVE  Daemons'
<1>. DEFINE r == Asked(th[t])
<1>1. DOMAIN r = Requests /\ Asks2(r)
  <2>1. th[t].arg \in Paths /\ th[t].to \in Paths
    BY DEF Ask, At, CallsTyped, LockInv
  <2>2. th[t].h # None => handle[th[t].h].text \in Texts
    BY DEF CallsTyped, TextsTyped, HandleNumbers
  <2>. DEFINE text == IF th[t].h = None THEN {} ELSE handle[th[t].h].text
  <2>3. text \in Texts
    BY <2>2 DEF Texts
  <2>4. r = [req |-> th[t].req, path |-> th[t].arg, to |-> th[t].to, text |-> text]
    BY DEF Asked
  <2>. HIDE DEF r, text
  <2>. QED  BY <2>1, <2>3, <2>4 DEF Requests, Asks2
<1>. HIDE DEF r
<1>2. IsRemote(remote) /\ IsLocal /\ LateTyped /\ lost \in 0..MaxLost /\ MaxLost \in Nat
  BY PathsAssumption DEF Daemons
<1>3. \/ Answered(r)
      \/ LostAnswer(r)
      \/ Loses /\ UNCHANGED <<remote, local, late>>
  BY DEF Ask, r
<1>4. CASE Answered(r)
  <2>1. IsRemote(remote)' /\ IsLocal'
    BY <1>1, <1>2, <1>4, ServedTyped DEF Answered
  <2>2. UNCHANGED <<lost, late>>
    BY <1>4 DEF Answered
  <2>. QED  BY <1>2, <2>1, <2>2 DEF Daemons, LateTyped, Asks2, Texts
<1>5. CASE LostAnswer(r)
  <2>1. lost' \in 0..MaxLost
    BY <1>2, <1>5 DEF LostAnswer, Loses
  <2>2. late' \subseteq late \union {r}
    BY <1>5 DEF LostAnswer
  <2>3. LateTyped'
    BY <1>1, <1>2, <2>2, LateChanged
  <2>4. UNCHANGED <<remote, local>> \/ (remote' = Served(r).after /\ local' = LocalAfter(r))
    BY <1>5 DEF LostAnswer
  <2>5. IsRemote(remote)' /\ IsLocal'
    BY <1>1, <1>2, <2>4, ServedTyped, RemoteKept, LocalKept
  <2>. QED  BY <2>1, <2>3, <2>5 DEF Daemons
<1>6. CASE Loses /\ UNCHANGED <<remote, local, late>>
  <2>1. lost' \in 0..MaxLost
    BY <1>2, <1>6 DEF Loses
  <2>2. LateTyped'
    BY <1>2, <1>6 DEF LateTyped, Asks2, Texts
  <2>. QED  BY <1>2, <1>6, <2>1, <2>2, RemoteKept, LocalKept DEF Daemons
<1>. QED  BY <1>3, <1>4, <1>5, <1>6

LEMMA LateTypedStep ==
  ASSUME Daemons, NEW q \in late, Late(q)
  PROVE  Daemons'
<1>1. /\ IsRemote(remote) /\ IsLocal /\ LateTyped /\ UNCHANGED lost
      /\ DOMAIN q = Requests /\ (q.req \in {"fs.open", "fs.open.rest"} \/ Asks2(q))
  BY DEF Daemons, LateTyped, Late
<1>2. CASE q.req # "fs.open" /\ late' = late \ {q} /\ remote' = Served(q).after /\ local' = LocalAfter(q)
  <2>1. LateTyped'
    BY <1>1, <1>2, LateChanged
  <2>2. CASE q.req = "fs.open.rest"
    <3>1. Served(q).after = remote
      BY <2>2 DEF Served, Only, Done, Failed
    <3>2. LocalAfter(q) = local
      BY <2>2 DEF LocalAfter
    <3>. QED  BY <1>1, <1>2, <2>1, <3>1, <3>2, RemoteKept, LocalKept DEF Daemons
  <2>3. CASE q.req # "fs.open.rest"
    <3>1. IsRemote(remote)' /\ IsLocal'
      BY <1>1, <1>2, <2>3, ServedTyped
    <3>. QED  BY <1>1, <2>1, <3>1 DEF Daemons
  <2>. QED  BY <2>2, <2>3
<1>3. CASE /\ q.req = "fs.open" /\ OpenBegins(q.path) /\ UNCHANGED remote
           /\ late' = (late \ {q}) \union {[q EXCEPT !.req = "fs.open.rest"]}
  <2>. DEFINE r == [q EXCEPT !.req = "fs.open.rest"]
  <2>1. DOMAIN r = Requests /\ r.req = "fs.open.rest" /\ late' \subseteq late \union {r}
    BY <1>1, <1>3 DEF Requests
  <2>. HIDE DEF r
  <2>2. LateTyped'
    BY <1>1, <2>1, LateChanged
  <2>. QED  BY <1>1, <1>3, <2>2, DownloadsTyped, RemoteKept DEF Daemons
<1>4. CASE q.req = "fs.open.rest" /\ OpenEnds(q.path) /\ UNCHANGED remote /\ late' = late \ {q}
  <2>1. LateTyped'
    BY <1>1, <1>4, LateChanged
  <2>. QED  BY <1>1, <1>4, <2>1, DownloadsTyped, RemoteKept DEF Daemons
<1>. QED  BY <1>2, <1>3, <1>4 DEF Late

LEMMA DownloadTypedStep ==
  ASSUME Daemons, NEW h \in Handles, Download(h)
  PROVE  Daemons'
<1>1. IsRemote(remote) /\ IsLocal /\ LateTyped /\ lost \in 0..MaxLost /\ MaxLost \in Nat /\ UNCHANGED remote
  BY PathsAssumption DEF Daemons, Download, DownloadBegins, DownloadEnds, DownloadLost
<1>2. CASE DownloadBegins(h) \/ DownloadEnds(h)
  <2>1. IsLocal' /\ UNCHANGED <<remote, lost, late>>
    BY <1>1, <1>2, DownloadsTyped DEF DownloadBegins, DownloadEnds
  <2>. QED  BY <2>1, DaemonsKept
<1>3. CASE DownloadLost(h)
  <2>. DEFINE r == [req |-> "fs.open", path |-> handle[h].file, to |-> <<>>, text |-> {}]
              s == [r EXCEPT !.req = "fs.open.rest"]
  <2>1. lost' \in 0..MaxLost /\ UNCHANGED local
    BY <1>1, <1>3 DEF DownloadLost
  <2>2. late' \subseteq late \union {r} \/ late' \subseteq late \union {s}
    BY <1>3 DEF DownloadLost
  <2>3. DOMAIN r = Requests /\ r.req = "fs.open" /\ DOMAIN s = Requests /\ s.req = "fs.open.rest"
    BY DEF Requests
  <2>. HIDE DEF r, s
  <2>4. LateTyped'
    BY <1>1, <2>2, <2>3, LateChanged
  <2>. QED  BY <1>1, <2>1, <2>4, RemoteKept, LocalKept DEF Daemons
<1>. QED  BY <1>2, <1>3 DEF Download

\* Of the steps of a call, Ask aside, only those on a handle's file change the daemon's state.
LEMMA FileStep ==
  ASSUME Daemons, NEW t \in Threads, Look(t) \/ Enter(t)
  PROVE  Daemons'
<1>1. UNCHANGED <<remote, lost, late>> /\ IsLocal
  BY DEF Look, Enter, Uses, Quiet, daemonVars, Daemons
<1>2. \/ UNCHANGED local
      \/ \E f, x : (f \in Paths => x \in Texts) /\ local' = [local EXCEPT ![f].text = x]
  <2>1. CASE Look(t)
    <3>1. \/ UNCHANGED local
          \/ local' = [local EXCEPT ![handle[files[th[t].path]].file].text = {}]
      BY <2>1 DEF Look, Quiet, daemonVars
    <3>. QED  BY <3>1 DEF Texts
  <2>2. CASE Enter(t)
    <3>. DEFINE text(old) == IF th[t].op = "write" THEN old \union {t} ELSE {}
                f == handle[th[t].h].file
    <3>1. UNCHANGED local \/ local' = [local EXCEPT ![f].text = text(@)]
      BY <2>2 DEF Enter, Uses, Quiet, daemonVars
    <3>2. f \in Paths => text(local[f].text) \in Texts
      BY <1>1, MountAssumption DEF IsLocal, Texts
    <3>3. CASE local' = [local EXCEPT ![f].text = text(@)]
      <4>1. local' = [local EXCEPT ![f].text = text(local[f].text)]
        BY <3>3
      <4>. HIDE DEF text, f
      <4>. QED  BY <3>2, <4>1
    <3>. QED  BY <3>1, <3>3
  <2>. QED  BY <2>1, <2>2
<1>3. IsLocal'
  BY <1>1, <1>2, LocalKept, TextChanged
<1>. QED  BY <1>1, <1>3, DaemonsKept

LEMMA DaemonsNext ==
  ASSUME DaemonInv, LockInv, CallsTyped, TextsTyped, Daemons, IPCNext
  PROVE  Daemons'
<1>1. ASSUME UNCHANGED daemonVars PROVE Daemons'
  <2>1. UNCHANGED <<remote, lost, late, local>>
    BY <1>1 DEF daemonVars
  <2>. QED  BY <2>1, LocalKept, DaemonsKept DEF Daemons
<1>2. ASSUME NEW t \in Threads, NEW c \in Menu[fmode], Begin(t, c) PROVE Daemons'
  BY <1>1, <1>2 DEF Begin
<1>3. ASSUME NEW t \in Threads, Proceed(t) PROVE Daemons'
  <2>1. CASE Ask(t)
    BY <2>1, AskTyped
  <2>2. CASE Look(t) \/ Enter(t)
    BY <2>2, FileStep
  <2>3. CASE ~Ask(t) /\ ~Look(t) /\ ~Enter(t)
    <3>1. UNCHANGED daemonVars
      BY <1>3, <2>3 DEF Proceed, Lock, Put, Created, TargetSeen, Find, Waited, Marked, Seen, Drop, Close,
         Sent, Changed, Removed, OldSeen, DirectorySeen, IntoSeen, NewSeen, Renamed, FlushDirs, UnlockAgain,
         List, Listed, Reread, Quiet
    <3>. QED  BY <1>1, <3>1
  <2>. QED  BY <2>1, <2>2, <2>3
<1>. QED  BY <1>2, <1>3, DownloadTypedStep, LateTypedStep DEF IPCNext
-----------------------------------------------------------------------------
\* The rest of the state.
Fixed == front \in {"daemon", "direct"} /\ {fmode, dmode} \subseteq MountModes /\ told \subseteq Paths
Listings == DOMAIN dirs \subseteq Paths /\ \A d \in DOMAIN dirs : dirs[d] \subseteq Paths
Counts == made \in 0..MaxCalls /\ fault \in {"none", "stolen", "dead"} /\ wire \in HandleNumbers
Tables == files \in [Paths -> HandleNumbers] /\ locks \in [Paths -> Threads \union {Nobody}]
Caches ==
  /\ cached \subseteq Paths /\ loading \in [Paths -> Threads \union {Nobody}]
  /\ cacheLock \in Threads \union {Nobody}

LEMMA ModesAre == MountModes = {FullyWritable} \union Modes
<1>1. PolicyFrom({}) = FullyWritable
  BY DEF PolicyFrom
<1>2. ASSUME NEW m \in Modes PROVE PolicyFrom({m}) = m
  <2>1. m <= m /\ {m} # {}
    BY <1>2 DEF Modes
  <2>. QED  BY <2>1 DEF PolicyFrom, Min
<1>3. ASSUME NEW x \in MountModes PROVE x \in {FullyWritable} \union Modes
  <2>1. PICK flags \in {{}} \union {{m} : m \in Modes} : x = PolicyFrom(flags)
    BY <1>3 DEF MountModes
  <2>2. CASE flags = {}
    BY <2>1, <2>2, <1>1
  <2>3. ASSUME NEW m \in Modes, flags = {m} PROVE x = m
    BY <2>1, <2>3, <1>2
  <2>. QED  BY <2>1, <2>2, <2>3
<1>4. FullyWritable \in MountModes
  BY <1>1, Zenon DEF MountModes
<1>5. ASSUME NEW m \in Modes PROVE m \in MountModes
  <2>1. PolicyFrom({m}) = m /\ {m} \in {{}} \union {{k} : k \in Modes}
    BY <1>2
  <2>. QED  BY <2>1, Zenon DEF MountModes
<1>. QED  BY <1>3, <1>4, <1>5

LEMMA ListingsKept ==
  ASSUME Listings, dirs' = dirs \/ (\E which : dirs' = DropListings(which))
                   \/ (\E d \in Paths : \E entries \in SUBSET Paths : dirs' = Store(d, entries))
  PROVE  Listings'
<1>1. CASE dirs' = dirs
  BY <1>1 DEF Listings
<1>2. CASE \E which : dirs' = DropListings(which)
  BY <1>2 DEF Listings, DropListings
<1>3. ASSUME NEW d \in Paths, NEW entries \in SUBSET Paths, dirs' = Store(d, entries) PROVE Listings'
  BY <1>3 DEF Listings, Store
<1>. QED  BY <1>1, <1>2, <1>3

LEMMA RestNext ==
  ASSUME DaemonInv, CallsTyped, Listings, Counts, IPCNext
  PROVE  Listings' /\ Counts' /\ UNCHANGED <<fmode, dmode>>
<1>0. Handles \subseteq HandleNumbers /\ None \in HandleNumbers /\ MaxCalls \in Nat
  BY MountAssumption DEF HandleNumbers
<1>1. ASSUME NEW t \in Threads, NEW c \in Menu[fmode], Begin(t, c)
      PROVE  Listings' /\ Counts' /\ UNCHANGED <<fmode, dmode>>
  <2>1. /\ made < MaxCalls /\ made' = made + 1
        /\ UNCHANGED <<dirs, fault, wire, fmode, dmode>>
    BY <1>1 DEF Begin, MayCall, Leave, Table, daemonVars
  <2>2. made' \in 0..MaxCalls
    BY <1>0, <2>1 DEF Counts
  <2>. QED  BY <2>1, <2>2, ListingsKept DEF Counts, HandleNumbers
<1>2. ASSUME NEW t \in Threads, Proceed(t) PROVE Listings' /\ Counts' /\ UNCHANGED <<fmode, dmode>>
  <2>1. UNCHANGED <<made, wire, fmode, dmode>>
    BY <1>2 DEF Proceed, Ask, Answered, LostAnswer, Loses, Lock, Look, Put, Created, TargetSeen, Find, Enter, Uses,
         Waited, Marked, Seen, Drop, Close, Sent, Changed, Removed, OldSeen, DirectorySeen, IntoSeen, NewSeen, Renamed,
         FlushDirs, UnlockAgain, List, Listed, Reread, Quiet, Leave, Table, daemonVars
  <2>2. fault' \in {"none", "stolen", "dead"}
    <3>1. ASSUME NEW q, Go(t, q) PROVE fault' \in {"none", "stolen", "dead"}
      BY <3>1 DEF Go, Unlock, Counts
    <3>2. Lock(t) => fault' = fault
      BY DEF Lock
    <3>. QED  BY <1>2, <3>1, <3>2, ProceedGoesOn DEF GoesOn, Counts
  <2>3. Listings'
    <3>1. CASE FlushDirs(t)
      BY <3>1, ListingsKept DEF FlushDirs
    <3>2. CASE Listed(t)
      <4>1. th[t].path \in Paths /\ th[t].got \subseteq Paths
        BY <3>2, AtHand DEF Listed, Heard, At, CallsTyped
      <4>2. dirs' = dirs \/ dirs' = Store(th[t].path, th[t].got)
        BY <3>2 DEF Listed
      <4>. QED  BY <4>1, <4>2, ListingsKept
    <3>3. CASE ~FlushDirs(t) /\ ~Listed(t)
      <4>1. dirs' = dirs
        BY <1>2, <3>3 DEF Proceed, Ask, Lock, Look, Put, Created, TargetSeen, Find, Enter, Uses, Waited, Marked, Seen,
             Drop, Close, Sent, Changed, Removed, OldSeen, DirectorySeen, IntoSeen, NewSeen, Renamed, UnlockAgain,
             List, Reread, Leave, Table
      <4>. QED  BY <4>1, ListingsKept
    <3>. QED  BY <3>1, <3>2, <3>3
  <2>. QED  BY <2>1, <2>2, <2>3 DEF Counts, HandleNumbers
<1>3. ASSUME NEW h \in Handles, Download(h) PROVE Listings' /\ Counts' /\ UNCHANGED <<fmode, dmode>>
  <2>1. UNCHANGED <<made, fault, dirs, fmode, dmode>> /\ wire' \in {h, None}
    BY <1>3 DEF Download, DownloadBegins, DownloadEnds, DownloadLost, callVars
  <2>. QED  BY <1>0, <2>1, ListingsKept DEF Counts, HandleNumbers
<1>4. ASSUME NEW q \in late, Late(q), UNCHANGED <<fmode, made, dirs>>, UNCHANGED ipcVars
      PROVE  Listings' /\ Counts' /\ UNCHANGED <<fmode, dmode>>
  <2>1. UNCHANGED <<made, fault, wire, dirs, fmode, dmode>>
    BY <1>4 DEF Late, ipcVars
  <2>. QED  BY <2>1, ListingsKept DEF Counts, HandleNumbers
<1>. QED  BY <1>1, <1>2, <1>3, <1>4 DEF IPCNext

\* The read-only mount: the daemon's variables are its own.
LEMMA DirectRest ==
  ASSUME DirectInv, DirectInvMore, Daemons, Listings, Counts, CloudNext, UNCHANGED ipcVars
  PROVE  Daemons' /\ Listings' /\ Counts' /\ UNCHANGED <<fmode, dmode>>
<1>0. MaxCalls \in Nat /\ MaxLost \in Nat /\ IsRemote(remote) /\ IsLocal /\ LateTyped /\ lost \in 0..MaxLost
  BY MountAssumption, PathsAssumption DEF Daemons
<1>1. UNCHANGED <<fmode, dmode, remote, late, fault, wire>>
  <2>1. UNCHANGED <<fault, wire>>
    BY DEF ipcVars
  <2>2. PICK t \in Threads :
          \/ \E c \in Menu[fmode] : CloudBegin(t, c)
          \/ Stat(t) \/ LookUp(t) \/ Guard(t) \/ WaitOver(t) \/ Recheck(t) \/ Fetch(t)
          \/ DownloadStarts(t) \/ DownloadStops(t) \/ Announce(t) \/ Publish(t)
          \/ ReadFile(t) \/ CloudRelease(t) \/ ListDir(t) \/ StoreListing(t)
    BY DEF CloudNext
  <2>3. CASE \E c \in Menu[fmode] : CloudBegin(t, c)
    BY <2>1, <2>3, Zenon DEF CloudBegin, daemonVars
  <2>4. ASSUME Same PROVE UNCHANGED <<fmode, dmode, remote, late, fault, wire>>
    BY <2>1, <2>4 DEF Same
  <2>5. CASE LookUp(t) \/ WaitOver(t) \/ Recheck(t) \/ ReadFile(t) \/ CloudRelease(t)
    <3>1. Same
      BY <2>5, Zenon DEF LookUp, WaitOver, Recheck, ReadFile, CloudRelease, Still
    <3>. QED  BY <2>4, <3>1
  <2>6. CASE Stat(t) \/ Guard(t) \/ Fetch(t) \/ DownloadStarts(t) \/ DownloadStops(t)
    <3>1. Same
      BY <2>6, Zenon DEF Stat, Guard, Fetch, DownloadStarts, DownloadStops
    <3>. QED  BY <2>4, <3>1
  <2>7. CASE Announce(t) \/ Publish(t) \/ ListDir(t) \/ StoreListing(t)
    <3>1. Same
      BY <2>7, Zenon DEF Announce, Publish, ListDir, StoreListing
    <3>. QED  BY <2>4, <3>1
  <2>. QED  BY <2>2, <2>3, <2>5, <2>6, <2>7, Zenon
<1>2. LateTyped'
  BY <1>0, <1>1 DEF LateTyped, Asks2, Texts
<1>3. ASSUME lost' = lost \/ Fails, IsLocal' PROVE Daemons'
  <2>1. lost' \in 0..MaxLost
    BY <1>0, <1>3 DEF Fails
  <2>. QED  BY <1>0, <1>1, <1>2, <1>3, <2>1, RemoteKept DEF Daemons
<1>4. ASSUME made' = made, dirs' = dirs PROVE Listings' /\ Counts'
  BY <1>1, <1>4, ListingsKept DEF Counts, HandleNumbers
<1>5. ASSUME NEW t \in Threads, NEW c \in Menu[fmode], CloudBegin(t, c) PROVE Daemons' /\ Listings' /\ Counts'
  <2>1. made < MaxCalls /\ made' = made + 1 /\ UNCHANGED dirs /\ UNCHANGED <<local, lost>>
    BY <1>5 DEF CloudBegin, MayCall, daemonVars
  <2>2. made' \in 0..MaxCalls
    BY <1>0, <2>1 DEF Counts
  <2>3. Daemons'
    BY <1>0, <1>3, <2>1, LocalKept
  <2>. QED  BY <1>1, <2>1, <2>2, <2>3, ListingsKept DEF Counts, HandleNumbers
<1>6. ASSUME NEW t \in Threads, \/ Stat(t) \/ LookUp(t) \/ Guard(t) \/ WaitOver(t) \/ Recheck(t) \/ Fetch(t)
                                \/ Announce(t) \/ Publish(t) \/ ReadFile(t) \/ CloudRelease(t) \/ ListDir(t)
      PROVE  Daemons' /\ Listings' /\ Counts'
  <2>1. UNCHANGED <<made, dirs, local>> /\ (lost' = lost \/ Fails)
    BY <1>6 DEF Stat, LookUp, Guard, WaitOver, Recheck, Fetch, Announce, Publish, ReadFile, CloudRelease, ListDir,
         Still, Same
  <2>. QED  BY <1>0, <1>3, <1>4, <2>1, LocalKept
<1>7. ASSUME NEW t \in Threads, DownloadStarts(t) \/ DownloadStops(t) PROVE Daemons' /\ Listings' /\ Counts'
  <2>1. UNCHANGED <<made, dirs>> /\ (lost' = lost \/ Fails)
    BY <1>7 DEF DownloadStarts, DownloadStops, Same
  <2>2. \/ OpenBegins(th[t].path) \/ OpenEnds(th[t].path)
        \/ \E there \in BOOLEAN : local' = [local EXCEPT ![th[t].path].there = there, ![th[t].path].whole = FALSE]
    BY <1>7 DEF DownloadStarts, DownloadStops
  <2>3. IsLocal'
    BY <1>0, <2>2, DownloadsTyped, PartLeft
  <2>. QED  BY <1>3, <1>4, <2>1, <2>3
<1>8. ASSUME NEW t \in Threads, StoreListing(t) PROVE Daemons' /\ Listings' /\ Counts'
  <2>1. UNCHANGED <<made, local, lost>> /\ dirs' = Store(Listed2(th[t]), th[t].got) /\ th[t].pc = "listed"
    BY <1>8 DEF StoreListing, Same, CloudAt
  <2>2. Listed2(th[t]) \in Paths /\ th[t].got \subseteq Paths
    BY <2>1, PathsAre DEF Listed2, DirectInv, DirectInvMore, CallsAreSound
  <2>3. Listings'
    BY <2>1, <2>2, ListingsKept
  <2>. QED  BY <1>0, <1>1, <1>3, <2>1, <2>3, LocalKept DEF Counts, HandleNumbers
<1>. QED  BY <1>1, <1>5, <1>6, <1>7, <1>8 DEF CloudNext

MountTyped ==
  /\ MountWaits /\ Fixed /\ Daemons /\ Listings /\ Counts /\ Tables /\ Caches
  /\ front = "daemon" => CallsTyped /\ TextsTyped

LEMMA InitTyped == Init => MountTyped
<1>. SUFFICES ASSUME Init PROVE MountTyped
  OBVIOUS
<1>1. /\ th = [t \in Threads |-> Idle] /\ files = [p \in Paths |-> None] /\ handle = [h \in Handles |-> NewHandle]
      /\ locks = [p \in Paths |-> Nobody] /\ wire = None /\ fault = "none" /\ made = 0 /\ lost = 0 /\ late = {}
      /\ dirs = <<>> /\ remote = Remote0 /\ local = [p \in Paths |-> NoFile]
      /\ cached = {} /\ loading = [p \in Paths |-> Nobody] /\ cacheLock = Nobody
  BY DEF Init, IPCInit, CloudInit
<1>2. Fixed
  <2>1. front \in {"daemon", "direct"} /\ {fmode, dmode} \subseteq {FullyWritable} \union Modes
    BY HddFSAssumption DEF Init, RunMount, Modes
  <2>2. told \subseteq Paths
    BY DEF Init
  <2>. QED  BY <2>1, <2>2, ModesAre DEF Fixed
<1>3. Daemons
  <2>1. IsRemote(remote)
    BY <1>1, HddFSAssumption DEF IsRemote, Nodes, Texts
  <2>2. IsLocal
    BY <1>1 DEF IsLocal, NoFile, Texts
  <2>3. lost \in 0..MaxLost /\ LateTyped
    BY <1>1, PathsAssumption DEF LateTyped
  <2>. QED  BY <2>1, <2>2, <2>3 DEF Daemons
<1>4. Listings /\ Counts
  BY <1>1, MountAssumption DEF Listings, Counts, HandleNumbers
<1>5. Tables /\ Caches
  BY <1>1 DEF Tables, Caches, HandleNumbers
<1>6. CallsTyped /\ TextsTyped
  BY <1>1, PathsAre DEF CallsTyped, TextsTyped, Idle, NewHandle, HandleNumbers, None, Texts
<1>. QED  BY <1>2, <1>3, <1>4, <1>5, <1>6, InitWaits DEF MountTyped

LEMMA NextTyped == MountTyped /\ [Next]_vars => MountTyped'
<1>. SUFFICES ASSUME MountTyped, [Next]_vars PROVE MountTyped'
  OBVIOUS
<1>0. MountWaits'
  BY NextWaits DEF MountTyped
<1>1. CASE front = "daemon" /\ IPCNext /\ Told /\ UNCHANGED front /\ UNCHANGED cloudVars
  <2>1. DaemonInv /\ LockInv /\ DaemonInv' /\ LockInv'
    BY <1>0, <1>1 DEF MountTyped, MountWaits, MountNames, MountLocks, IPCMountInv
  <2>2. Listings' /\ Counts' /\ UNCHANGED <<fmode, dmode>>
    BY <1>1, <2>1, RestNext DEF MountTyped
  <2>3. Fixed'
    BY <1>1, <2>2 DEF MountTyped, Fixed, MountModes, Told
  <2>4. Daemons' /\ CallsTyped' /\ TextsTyped'
    BY <1>1, <2>1, DaemonsNext, CallsTypedNext, TextsTypedNext DEF MountTyped
  <2>5. Tables'
    <3>1. (files \in [Paths -> HandleNumbers])'
      BY <2>1 DEF DaemonInv, HandlesAreRecords, HandleNumbers
    <3>2. (locks \in [Paths -> Threads \union {Nobody}])'
      BY <2>1 DEF LockInv, LockersAreKnown
    <3>. QED  BY <3>1, <3>2 DEF Tables
  <2>6. Caches'
    BY <1>1 DEF MountTyped, Caches, cloudVars
  <2>. QED  BY <1>0, <2>2, <2>3, <2>4, <2>5, <2>6 DEF MountTyped
<1>2. CASE front = "direct" /\ CloudNext /\ Told /\ UNCHANGED front /\ UNCHANGED ipcVars
  <2>1. DirectInv /\ DirectInvMore /\ DirectInv' /\ DirectInvMore'
    BY <1>0, <1>2 DEF MountTyped, MountWaits, MountInv
  <2>2. Daemons' /\ Listings' /\ Counts' /\ UNCHANGED <<fmode, dmode>>
    BY <1>2, <2>1, DirectRest DEF MountTyped
  <2>3. Fixed'
    BY <1>2, <2>2 DEF MountTyped, Fixed, MountModes, Told
  <2>4. Tables'
    BY <1>2 DEF MountTyped, Tables, ipcVars, HandleNumbers
  <2>5. Caches'
    <3>1. cached' \subseteq Paths /\ loading' = [p \in Paths |-> loading'[p]]
      BY <2>1 DEF DirectInv
    <3>2. /\ \A p \in Paths : loading'[p] \in Threads \union {Nobody}
          /\ cacheLock' \in Threads \union {Nobody}
      BY <2>1 DEF DirectInvMore
    <3>. QED  BY <3>1, <3>2 DEF Caches
  <2>. QED  BY <1>0, <1>2, <2>2, <2>3, <2>4, <2>5 DEF MountTyped
<1>3. CASE UNCHANGED vars
  <2>1. /\ UNCHANGED <<front, fmode, dmode, th, made, dirs, files, handle, locks, wire, fault>>
        /\ UNCHANGED <<cached, loading, cacheLock, told>> /\ UNCHANGED <<remote, local, lost, late>>
    BY <1>3 DEF vars, daemonVars, callVars, ipcVars, cloudVars
  <2>2. Daemons'
    BY <2>1, LocalKept, DaemonsKept DEF MountTyped, Daemons
  <2>3. Listings' /\ Counts' /\ Fixed' /\ Tables' /\ Caches'
    BY <2>1 DEF MountTyped, Listings, Counts, Fixed, Tables, Caches, HandleNumbers, MountModes
  <2>4. front = "daemon" => CallsTyped' /\ TextsTyped'
    BY <2>1 DEF MountTyped, CallsTyped, TextsTyped, HandleNumbers, Texts
  <2>. QED  BY <1>0, <2>1, <2>2, <2>3, <2>4 DEF MountTyped
<1>. QED  BY <1>1, <1>2, <1>3 DEF Next

\* The state of both mounts is of its type, and whatever a daemon is asked, at once or
\* late, the remote stays a tree: what is there has a directory above it (main.go's
\* handlers, ipcfs.go, cloudfs.go).
THEOREM MountTypeCorrect == Spec => []MountTypeOK
<1>1. MountTyped => MountTypeOK
  BY DEF MountTyped, Fixed, Daemons, IsRemote, Nodes, IsLocal, Listings, Counts, Tables, Caches, MountTypeOK,
         There, IsDir
<1>2. Spec => []MountTyped
  BY InitTyped, NextTyped, PTL DEF Spec
<1>. QED  BY <1>1, <1>2, PTL
-----------------------------------------------------------------------------
Near(p, o) == Below(p, o) \/ Below(o, p)

LEMMA NearFacts ==
  ASSUME NEW S, NEW p \in Seq(S), NEW o \in Seq(S), NEW top \in Seq(S)
  PROVE  /\ Near(p, p) /\ (Near(p, o) <=> Near(o, p))
         /\ Below(p, o) /\ Below(o, top) => Below(p, top)
         /\ Below(p, top) /\ Near(p, o) => Near(top, o)
<1>0. Len(p) \in Nat /\ Len(o) \in Nat /\ Len(top) \in Nat
  BY LenProperties
<1>1. Near(p, p) /\ (Near(p, o) <=> Near(o, p))
  BY PathFacts DEF Near
<1>2. ASSUME Below(p, o), Below(o, top) PROVE Below(p, top)
  <2>1. Len(p) >= Len(o) /\ \A i \in 1..Len(o) : p[i] = o[i]
    BY <1>2, BelowIs
  <2>2. Len(o) >= Len(top) /\ \A i \in 1..Len(top) : o[i] = top[i]
    BY <1>2, BelowIs
  <2>3. Len(p) >= Len(top) /\ \A i \in 1..Len(top) : p[i] = top[i]
    BY <1>0, <2>1, <2>2
  <2>. QED  BY <2>3, BelowIs
<1>3. ASSUME Below(p, top), Below(p, o) PROVE Near(top, o)
  <2>1. Len(p) >= Len(o) /\ \A i \in 1..Len(o) : p[i] = o[i]
    BY <1>3, BelowIs
  <2>2. Len(p) >= Len(top) /\ \A i \in 1..Len(top) : p[i] = top[i]
    BY <1>3, BelowIs
  <2>3. CASE Len(o) >= Len(top)
    <3>1. \A i \in 1..Len(top) : o[i] = top[i]
      BY <1>0, <2>1, <2>2, <2>3
    <3>. QED  BY <2>3, <3>1, BelowIs DEF Near
  <2>4. CASE Len(top) >= Len(o)
    <3>1. \A i \in 1..Len(o) : top[i] = o[i]
      BY <1>0, <2>1, <2>2, <2>4
    <3>. QED  BY <2>4, <3>1, BelowIs DEF Near
  <2>. QED  BY <1>0, <2>3, <2>4
<1>4. ASSUME Below(p, top), Below(o, p) PROVE Near(top, o)
  <2>1. Len(o) >= Len(p) /\ \A i \in 1..Len(p) : o[i] = p[i]
    BY <1>4, BelowIs
  <2>2. Len(p) >= Len(top) /\ \A i \in 1..Len(top) : p[i] = top[i]
    BY <1>4, BelowIs
  <2>3. Len(o) >= Len(top) /\ \A i \in 1..Len(top) : o[i] = top[i]
    BY <1>0, <2>1, <2>2
  <2>. QED  BY <2>3, BelowIs DEF Near
<1>. QED  BY <1>1, <1>2, <1>3, <1>4 DEF Near
-----------------------------------------------------------------------------
(***************************************************************************)
(* Whoever meets another thread's paths knows it.                          *)
(***************************************************************************)

Clear == \A t, u \in Threads : t # u /\ Meet(Touches(th[t]), Touches(th[u])) => th[t].rival

\* The session at s goes along with what q has renamed.
Follows(q, s) ==
  q.op = "rename" /\ q.good /\ s # NoPath /\ Below(s, q.path) /\ Rebased(s, q.path, q.to) \in Paths
Followed(q, s) == IF Follows(q, s) THEN Rebased(s, q.path, q.to) ELSE s

\* The session q's thread has when q is over.
SessionAfter(q) ==
  CASE q.op \in Opens /\ q.good -> q.path
    [] q.op = "release" -> NoPath
    [] OTHER -> q.sess

\* Calls that agree in what the session has, its path aside, and in the history.
Alongside(r, s) ==
  /\ r.writes = s.writes /\ r.wrote = s.wrote /\ r.rival = s.rival /\ r.raced = s.raced
  /\ r.isdir = s.isdir

LEMMA FinishedIs ==
  ASSUME CallsAreRecords, NEW t \in Threads, NEW q
  PROVE  /\ \A u \in Threads \ {t} :
              Alongside(Finished(t, q)[u], th[u]) /\ Finished(t, q)[u].sess = Followed(q, th[u].sess)
         /\ LET r == Finished(t, q)[t] IN
            /\ r.good = q.good /\ r.sess = Followed(q, SessionAfter(q)) /\ r.op = "none" /\ r.then = "none"
            /\ IF SessionAfter(q) = NoPath THEN ~r.writes /\ ~r.wrote
               ELSE /\ r.rival = q.rival
                    /\ r.writes = ((q.writes \/ q.op \in OpensToWrite) /\ ~(q.op = "unlink" /\ q.good))
                    /\ r.wrote = (q.wrote /\ ~(q.op = "unlink" /\ q.good))
<1>. DEFINE follow(v) == IF q.op = "rename" /\ q.good /\ v.sess # NoPath /\ Below(v.sess, q.path)
                            /\ Rebased(v.sess, q.path, q.to) \in Paths
                         THEN [v EXCEPT !.sess = Rebased(v.sess, q.path, q.to)] ELSE v
            sess == CASE q.op \in Opens /\ q.good -> q.path
                      [] q.op = "release" -> NoPath
                      [] OTHER -> q.sess
            gone == q.op = "unlink" /\ q.good
            mine == IF sess = NoPath THEN [Idle EXCEPT !.good = q.good]
                    ELSE [Idle EXCEPT !.good = q.good, !.saw = q.saw, !.sess = sess, !.rival = q.rival,
                            !.writes = (q.writes \/ q.op \in OpensToWrite) /\ ~gone,
                            !.wrote = q.wrote /\ ~gone]
            finished == Finished(t, q)
<1>1. finished = [u \in Threads |-> follow(IF u = t THEN mine ELSE th[u])]
  BY DEF Finished
<1>2. ASSUME NEW v, DOMAIN v = Fields
      PROVE  /\ follow(v).sess = Followed(q, v.sess) /\ Alongside(follow(v), v)
             /\ follow(v).good = v.good /\ follow(v).op = v.op /\ follow(v).then = v.then
  <2>1. CASE Follows(q, v.sess)
    <3>1. follow(v) = [v EXCEPT !.sess = Rebased(v.sess, q.path, q.to)]
      BY <2>1 DEF Follows
    <3>. HIDE DEF follow
    <3>. QED  BY <1>2, <2>1, <3>1, FieldNames DEF Followed, Alongside
  <2>2. CASE ~Follows(q, v.sess)
    <3>1. follow(v) = v
      BY <2>2 DEF Follows
    <3>. HIDE DEF follow
    <3>. QED  BY <2>2, <3>1 DEF Followed, Alongside
  <2>. QED  BY <2>1, <2>2
<1>3. sess = SessionAfter(q)
  BY DEF SessionAfter
<1>4. /\ DOMAIN mine = Fields /\ mine.good = q.good /\ mine.sess = sess /\ mine.op = "none" /\ mine.then = "none"
      /\ IF sess = NoPath THEN ~mine.writes /\ ~mine.wrote
         ELSE /\ mine.rival = q.rival
              /\ mine.writes = ((q.writes \/ q.op \in OpensToWrite) /\ ~gone)
              /\ mine.wrote = (q.wrote /\ ~gone)
  BY DEF Idle, Fields, None
<1>. HIDE DEF follow, mine, sess, finished
<1>5. \A u \in Threads : finished[u] = follow(IF u = t THEN mine ELSE th[u])
  BY <1>1
<1>6. \A u \in Threads \ {t} : Alongside(finished[u], th[u]) /\ finished[u].sess = Followed(q, th[u].sess)
  BY <1>2, <1>5 DEF CallsAreRecords
<1>7. /\ finished[t].sess = Followed(q, mine.sess) /\ Alongside(finished[t], mine)
      /\ finished[t].good = mine.good /\ finished[t].op = mine.op /\ finished[t].then = mine.then
  BY <1>2, <1>4, <1>5
<1>. QED  BY <1>3, <1>4, <1>6, <1>7 DEF finished, gone, Alongside

\* The others in a step of t's call: only a rename that is over takes their sessions along.
LEMMA GoOthers ==
  ASSUME CallsAreRecords, NEW t \in Threads, NEW q, DOMAIN q = Fields, Go(t, q), NEW u \in Threads \ {t}
  PROVE  /\ Aside(th'[u], th[u]) /\ Alongside(th'[u], th[u])
         /\ q.pc = "idle" => th'[u].sess = Followed(q, th[u].sess)
         /\ q.pc # "idle" => th'[u] = th[u]
<1>1. Aside(th'[u], th[u])
  BY GoAside
<1>2. CASE q.pc = "idle"
  <2>1. th' = Finished(t, q)
    BY <1>2 DEF Go
  <2>. QED  BY <1>1, <1>2, <2>1, FinishedIs
<1>3. CASE q.pc # "idle"
  <2>1. th' = [th EXCEPT ![t] = [q EXCEPT !.holds = {}]] \/ th' = [th EXCEPT ![t] = q]
    BY <1>3 DEF Go
  <2>2. th'[u] = th[u]
    BY <2>1 DEF CallsAreRecords
  <2>. QED  BY <1>1, <1>3, <2>2 DEF Alongside
<1>. QED  BY <1>2, <1>3

\* ... and t itself.
LEMMA GoSelf ==
  ASSUME CallsAreRecords, NEW t \in Threads, NEW q, DOMAIN q = Fields, Go(t, q)
  PROVE  /\ q.pc = "idle" => th'[t] = Finished(t, q)[t] /\ th'[t].pc = "idle"
         /\ q.pc # "idle" => /\ th'[t].pc = q.pc /\ th'[t].op = q.op /\ th'[t].path = q.path /\ th'[t].to = q.to
                             /\ th'[t].sess = q.sess /\ Alongside(th'[t], q) /\ th'[t].good = q.good
                             /\ th'[t].then = q.then /\ th'[t].h = q.h /\ th'[t].arg = q.arg
                             /\ th'[t].req = q.req /\ th'[t].got = q.got
<1>1. CASE q.pc = "idle"
  <2>1. th' = Finished(t, q)
    BY <1>1 DEF Go
  <2>. QED  BY <1>1, <2>1, FinishedEffect
<1>2. CASE q.pc # "idle"
  <2>1. th'[t] = [q EXCEPT !.holds = {}] \/ th'[t] = q
    BY <1>2, GoAside
  <2>. QED  BY <1>2, <2>1, FieldNames DEF Alongside
<1>. QED  BY <1>1, <1>2
-----------------------------------------------------------------------------
SessionTyped == \A t \in Threads : th[t].sess \in Paths \union {NoPath}

\* What a rename names are sequences of names.
LEMMA NamedTyped ==
  ASSUME NEW p \in Paths, NEW to \in Paths
  PROVE  Named(p, to) \subseteq Seq(Names)
<1>1. p \in Seq(Names) /\ to \in Seq(Names) /\ Parent(p) \in Seq(Names)
  BY PathsAre
<1>2. CASE to = <<>>
  BY <1>1, <1>2 DEF Named
<1>3. CASE to # <<>>
  <2>1. Len(to) \in 1..Len(to)
    BY <1>1, <1>3, EmptySeq
  <2>2. Base(to) \in Names
    BY <1>1, <2>1, ElementOfSeq DEF Base
  <2>3. Append(Parent(p), Base(to)) \in Seq(Names)
    BY <1>1, <2>2, AppendProperties
  <2>. QED  BY <1>1, <1>3, <2>3 DEF Named
<1>. QED  BY <1>2, <1>3

LEMMA TouchesTyped ==
  ASSUME DaemonInv, LockInv, SessionTyped, NEW t \in Threads
  PROVE  Touches(th[t]) \subseteq Seq(Names)
<1>1. th[t].sess # NoPath => th[t].sess \in Seq(Names)
  BY PathsAre DEF SessionTyped
<1>2. CASE th[t].pc = "idle"
  BY <1>1, <1>2 DEF Touches
<1>3. CASE th[t].pc # "idle"
  <2>1. th[t].path \in Paths /\ th[t].to \in Paths
    BY <1>3 DEF DaemonInv, LockInv
  <2>2. Named(th[t].path, th[t].to) \subseteq Seq(Names)
    BY <2>1, NamedTyped
  <2>3. Concerns(th[t]) \subseteq Seq(Names)
    BY <2>1, <2>2, PathsAre DEF Concerns
  <2>. QED  BY <1>1, <2>3 DEF Touches
<1>. QED  BY <1>2, <1>3

LEMMA TouchesAlike ==
  ASSUME NEW r, NEW s, r.op = s.op, r.path = s.path, r.to = s.to, r.sess = s.sess,
         r.pc # "idle" => s.pc # "idle"
  PROVE  Touches(r) \subseteq Touches(s)
BY DEF Touches, Concerns

LEMMA ClearKept ==
  ASSUME Clear, \A u \in Threads : /\ Touches(th'[u]) \subseteq Touches(th[u])
                                   /\ th[u].rival => th'[u].rival \/ Touches(th'[u]) = {}
  PROVE  Clear'
<1>1. SUFFICES ASSUME NEW t \in Threads, NEW u \in Threads, t # u, Meet(Touches(th'[t]), Touches(th'[u]))
               PROVE  th'[t].rival
  BY DEF Clear
<1>2. Meet(Touches(th[t]), Touches(th[u])) /\ Touches(th'[t]) # {}
  BY <1>1 DEF Meet
<1>. QED  BY <1>1, <1>2 DEF Clear

\* A call that is over leaves a session, or none; of what somebody's session was renamed
\* to the renaming thread knew, and everybody whom it meets there had met that thread.
LEMMA ClearFinished ==
  ASSUME DaemonInv, LockInv, SessionTyped, Clear, NEW t \in Threads, th[t].pc # "idle",
         NEW q, Go(t, q), Continues(th[t], q), q.pc = "idle"
  PROVE  Clear' /\ SessionTyped'
<1>. DEFINE T(u) == Touches(th[u])
            T2(u) == Touches(th'[u])
            Moves(x, u) == /\ q.op = "rename"
                           /\ \E s \in T(u) : Below(s, q.path) /\ x = Rebased(s, q.path, q.to)
<1>1. /\ q.op = th[t].op /\ q.path = th[t].path /\ q.to = th[t].to /\ q.sess = th[t].sess /\ q.rival = th[t].rival
      /\ DOMAIN q = Fields /\ q.path \in Paths /\ q.to \in Paths
  BY DEF Continues, DaemonInv, LockInv
<1>2. \A u \in Threads : T(u) \subseteq Seq(Names)
  BY TouchesTyped
<1>3. /\ \A u \in Threads \ {t} :
           Aside(th'[u], th[u]) /\ Alongside(th'[u], th[u]) /\ th'[u].sess = Followed(q, th[u].sess)
      /\ th'[t].pc = "idle" /\ th'[t].sess = Followed(q, SessionAfter(q))
      /\ SessionAfter(q) # NoPath => th'[t].rival = q.rival
  <2>1. th' = Finished(t, q) /\ CallsAreRecords
    BY DEF Go, DaemonInv
  <2>2. th'[t].pc = "idle"
    BY <1>1, <2>1, GoSelf
  <2>. QED  BY <1>1, <2>1, <2>2, GoOthers, FinishedIs
<1>4. /\ \A s : Followed(q, s) = s \/ (Follows(q, s) /\ Followed(q, s) = Rebased(s, q.path, q.to))
      /\ \A s : Follows(q, s) => q.op = "rename" /\ Below(s, q.path) /\ s # NoPath /\ Rebased(s, q.path, q.to) \in Paths
      /\ Followed(q, NoPath) = NoPath
  BY DEF Followed, Follows
<1>5. SessionAfter(q) \in {q.path, q.sess, NoPath} /\ (SessionAfter(q) # NoPath => SessionAfter(q) \in T(t))
  <2>1. q.op \in Opens => Concerns(th[t]) = {q.path}
    BY <1>1 DEF Concerns, Opens
  <2>. QED  BY <1>1, <2>1 DEF SessionAfter, Touches
<1>6. SessionTyped'
  <2>1. ASSUME NEW u \in Threads PROVE th'[u].sess \in Paths \union {NoPath}
    <3>1. CASE u = t
      BY <1>1, <1>3, <1>4, <1>5, <3>1 DEF SessionTyped
    <3>2. CASE u # t
      BY <1>3, <1>4, <3>2 DEF SessionTyped
    <3>. QED  BY <3>1, <3>2
  <2>. QED  BY <2>1 DEF SessionTyped
<1>7. ASSUME NEW u \in Threads, NEW x \in T2(u) PROVE x \in T(u) \/ Moves(x, u)
  <2>1. CASE u # t
    <3>1. /\ th'[u].op = th[u].op /\ th'[u].path = th[u].path /\ th'[u].to = th[u].to /\ th'[u].pc = th[u].pc
          /\ th'[u].sess = Followed(q, th[u].sess)
      BY <1>3, <2>1 DEF Aside, AlikeCalls
    <3>2. (x = th'[u].sess /\ th'[u].sess # NoPath) \/ x \in T(u)
      BY <3>1, <1>7 DEF Touches, Concerns
    <3>3. CASE x = th'[u].sess /\ th'[u].sess # NoPath
      <4>1. th[u].sess # NoPath /\ th[u].sess \in T(u)
        BY <1>4, <3>1, <3>3 DEF Touches
      <4>. QED  BY <1>4, <3>1, <3>3, <4>1
    <3>. QED  BY <3>2, <3>3
  <2>2. CASE u = t
    <3>1. x = Followed(q, SessionAfter(q)) /\ x # NoPath
      BY <1>3, <1>7, <2>2 DEF Touches
    <3>2. SessionAfter(q) \in T(t)
      BY <1>4, <1>5, <3>1
    <3>. QED  BY <1>4, <2>2, <3>1, <3>2
  <2>. QED  BY <2>1, <2>2
<1>8. ASSUME NEW u \in Threads, T2(u) # {}, th[u].rival PROVE th'[u].rival
  <2>1. CASE u # t
    BY <1>3, <1>8, <2>1 DEF Alongside
  <2>2. CASE u = t
    <3>1. SessionAfter(q) # NoPath
      BY <1>3, <1>4, <1>8, <2>2 DEF Touches
    <3>. QED  BY <1>1, <1>3, <1>8, <2>2, <3>1
  <2>. QED  BY <2>1, <2>2
<1>9. \A u \in Threads, v \in Threads : \A x \in T(u), y \in T(v) : u # v /\ Near(x, y) => th[u].rival
  BY DEF Clear, Meet, Near
<1>10. q.op = "rename" => q.path \in T(t) /\ q.to \in T(t)
  BY <1>1 DEF Touches, Concerns, Named
<1>11. ASSUME NEW x, NEW u \in Threads, Moves(x, u)
       PROVE  /\ q.op = "rename" /\ x \in Seq(Names) /\ \E s \in T(u) : Near(s, q.path)
              /\ \A y \in Seq(Names) : Near(x, y) => Near(q.to, y)
  <2>1. PICK s \in T(u) : q.op = "rename" /\ Below(s, q.path) /\ x = Rebased(s, q.path, q.to)
    BY <1>11
  <2>2. s \in Seq(Names) /\ q.path \in Seq(Names) /\ q.to \in Seq(Names)
    BY <1>1, <1>2, PathsAre
  <2>3. x \in Seq(Names) /\ Below(x, q.to)
    BY <2>1, <2>2, RebasedFacts
  <2>. QED  BY <2>1, <2>2, <2>3, NearFacts DEF Near
<1>. HIDE DEF T, Moves
<1>12. ASSUME NEW u \in Threads, NEW v \in Threads, u # v, NEW x \in T2(u), NEW y \in T2(v), Near(x, y)
       PROVE  th[u].rival
  <2>1. x \in Seq(Names) /\ y \in Seq(Names)
    BY <1>2, <1>7, <1>11
  <2>2. Near(y, x)
    BY <1>12, <2>1, NearFacts
  <2>3. CASE x \in T(u) /\ y \in T(v)
    BY <1>9, <1>12, <2>3
  <2>4. CASE Moves(x, u) /\ u # t
    BY <1>9, <1>10, <1>11, <2>4
  <2>5. CASE Moves(x, u) /\ u = t
    <3>1. Near(q.to, y)
      BY <1>11, <1>12, <2>1, <2>5
    <3>2. CASE y \in T(v)
      BY <1>9, <1>10, <1>11, <1>12, <2>5, <3>1, <3>2
    <3>3. CASE Moves(y, v)
      <4>1. PICK s \in T(v) : Near(s, q.path)
        BY <1>11, <3>3
      <4>2. Near(q.path, s)
        BY <1>1, <1>2, <4>1, PathsAre, NearFacts
      <4>. QED  BY <1>9, <1>10, <1>11, <1>12, <2>5, <3>3, <4>2
    <3>. QED  BY <1>7, <3>2, <3>3
  <2>6. CASE x \in T(u) /\ Moves(y, v)
    <3>1. Near(q.to, x)
      BY <1>11, <2>1, <2>2, <2>6
    <3>2. Near(x, q.to)
      BY <1>1, <2>1, <3>1, PathsAre, NearFacts
    <3>3. CASE u # t
      BY <1>9, <1>10, <1>11, <2>6, <3>2, <3>3
    <3>4. CASE u = t
      <4>1. PICK s \in T(v) : Near(s, q.path)
        BY <1>11, <2>6
      <4>2. Near(q.path, s)
        BY <1>1, <1>2, <4>1, PathsAre, NearFacts
      <4>. QED  BY <1>9, <1>10, <1>11, <1>12, <2>6, <3>4, <4>2
    <3>. QED  BY <3>3, <3>4
  <2>. QED  BY <1>7, <2>3, <2>4, <2>5, <2>6
<1>13. Clear'
  <2>1. SUFFICES ASSUME NEW u \in Threads, NEW v \in Threads, u # v, Meet(Touches(th'[u]), Touches(th'[v]))
                 PROVE  th'[u].rival
    BY DEF Clear
  <2>2. PICK x \in T2(u), y \in T2(v) : Near(x, y)
    BY <2>1 DEF Meet, Near
  <2>3. th[u].rival
    BY <1>12, <2>1, <2>2
  <2>. QED  BY <1>8, <2>2, <2>3
<1>. QED  BY <1>6, <1>13
-----------------------------------------------------------------------------
\* A call c that begins meets u.
Meets(c, u) == Meet(Concerns(c), Touches(th[u]))

\* What becomes of the sessions, and whom the call makes a rival.
BegunFrom(f, t, c) ==
  /\ \A u \in Threads \ {t} :
       /\ f[u].sess = th[u].sess /\ f[u].writes = th[u].writes /\ f[u].wrote = th[u].wrote
       /\ f[u].raced = th[u].raced /\ f[u].isdir = th[u].isdir
       /\ f[u].rival = IF Meets(c, u) THEN TRUE ELSE th[u].rival
  /\ f[t].op = c.op /\ f[t].sess = th[t].sess /\ f[t].writes = th[t].writes /\ f[t].wrote = th[t].wrote
  /\ f[t].rival = ((th[t].sess # NoPath /\ th[t].rival) \/ \E u \in Threads \ {t} : Meets(c, u))

LEMMA StartedIs ==
  ASSUME CallsAreRecords, NEW t \in Threads, NEW c, NEW pc
  PROVE  BegunFrom(Started(t, c, pc), t, c)
<1>. DEFINE others == {u \in Threads \ {t} : Meets(c, u)}
            first == [Idle EXCEPT !.op = c.op, !.path = c.path, !.to = c.to, !.over = c.over, !.pc = pc,
                        !.sess = th[t].sess, !.writes = th[t].writes, !.wrote = th[t].wrote,
                        !.rival = (Open(t) /\ th[t].rival) \/ others # {}]
            started == Started(t, c, pc)
<1>1. started = [u \in Threads |-> CASE u = t -> first
                                     [] u \in others -> [th[u] EXCEPT !.rival = TRUE]
                                     [] OTHER -> th[u]]
  BY DEF Started, Meets
<1>2. /\ first.op = c.op /\ first.sess = th[t].sess /\ first.writes = th[t].writes /\ first.wrote = th[t].wrote
      /\ first.rival = ((Open(t) /\ th[t].rival) \/ others # {})
  BY DEF Idle
<1>3. t \notin others /\ \A u \in Threads \ {t} : u \in others <=> Meets(c, u)
  OBVIOUS
<1>4. others # {} <=> \E u \in Threads \ {t} : Meets(c, u)
  OBVIOUS
<1>. HIDE DEF first, others, started
<1>5. started[t] = first
  BY <1>1, <1>3
<1>6. ASSUME NEW u \in Threads \ {t}
      PROVE  /\ started[u].sess = th[u].sess /\ started[u].writes = th[u].writes /\ started[u].wrote = th[u].wrote
             /\ started[u].raced = th[u].raced /\ started[u].isdir = th[u].isdir
            /\ started[u].rival = IF Meets(c, u) THEN TRUE ELSE th[u].rival
  <2>1. CASE u \in others
    <3>1. started[u] = [th[u] EXCEPT !.rival = TRUE]
      BY <1>1, <2>1
    <3>2. DOMAIN th[u] = Fields /\ Meets(c, u)
      BY <1>3, <2>1 DEF CallsAreRecords
    <3>. QED  BY <3>1, <3>2, FieldNames
  <2>2. CASE u \notin others
    BY <1>1, <1>3, <2>2
  <2>. QED  BY <2>1, <2>2
<1>. QED  BY <1>2, <1>4, <1>5, <1>6 DEF started, Open, BegunFrom

\* A call that begins: what t goes on as ...
BegunAs(r, c) ==
  /\ Begun(r, c) /\ r.op = c.op
  /\ \/ r.pc \in {"lock", "find", "drop", "list"} /\ r.then = "none" /\ r.pc = First(c)
     \/ r.pc = "ask" /\ r.op = "mkdir" /\ r.req = "fs.mkdir" /\ r.arg = r.path /\ r.then = "changed"
     \/ r.pc = "ask" /\ r.op = "rename" /\ r.req = "fs.stat" /\ r.arg = r.path
          /\ r.then = (IF OnlyDirectories THEN "dir" ELSE "old")

BegunBy(t, c) == BegunFrom(th', t, c) /\ BegunAs(th'[t], c)

\* A call that is refused changes what its thread has been told only.
RefusedAs(t) ==
  /\ \A u \in Threads \ {t} : th'[u] = th[u]
  /\ th'[t].pc = "idle" /\ th'[t].sess = th[t].sess /\ Alongside(th'[t], th[t])

LEMMA BeginIs ==
  ASSUME DaemonInv, NEW t \in Threads, NEW c \in Menu[fmode], Begin(t, c)
  PROVE  BegunBy(t, c) \/ RefusedAs(t)
<1>. DEFINE after == Started(t, c, First(c))
            mkdir == Asking(after[t], "fs.mkdir", c.path, "changed")
            stat == Asking(after[t], "fs.stat", c.path, IF OnlyDirectories THEN "dir" ELSE "old")
<1>1. /\ th[t].pc = "idle" /\ DOMAIN th[t] = Fields /\ CallsAreRecords
      /\ fmode \in {FullyWritable} \union Modes
  BY AtHand DEF Begin, MayCall, Busy, DaemonInv
<1>2. \/ th' = [th EXCEPT ![t].good = FALSE, ![t].saw = "none"]
      \/ th' = [th EXCEPT ![t].good = FALSE]
      \/ th' = [after EXCEPT ![t] = mkdir] /\ c.op = "mkdir"
      \/ th' = [after EXCEPT ![t] = stat] /\ c.op = "rename"
      \/ First(c) \notin {Refused, "ask"} /\ th' = after
  <2>1. First(c) = "ask" /\ First(c) # Refused => c.op \in {"mkdir", "rename"}
    BY <1>1, FirstIs
  <2>2. CASE First(c) = Refused
    BY <2>2 DEF Begin, Asks, Refused
  <2>3. CASE First(c) = "ask" /\ c.op = "mkdir"
    BY <2>3, StartedEffect DEF Begin, Asks, Refused, DaemonInv
  <2>4. CASE First(c) = "ask" /\ c.op = "rename"
    BY <2>4, StartedEffect DEF Begin, Asks, Refused, DaemonInv
  <2>5. CASE First(c) \notin {Refused, "ask"}
    BY <2>5 DEF Begin, Asks
  <2>. QED  BY <2>1, <2>2, <2>3, <2>4, <2>5
<1>3. /\ after = [u \in Threads |-> after[u]]
      /\ DOMAIN after[t] = Fields /\ after[t].pc = First(c) /\ after[t].path = c.path /\ after[t].to = c.to
      /\ after[t].holds = {} /\ after[t].h = None /\ after[t].arg = <<>> /\ after[t].got = {}
      /\ after[t].then = "none" /\ BegunFrom(after, t, c)
  <2>1. after = [u \in Threads |-> after[u]] /\ DOMAIN after[t] = Fields
    BY <1>1, StartedEffect
  <2>2. /\ after[t].pc = First(c) /\ after[t].path = c.path /\ after[t].to = c.to
        /\ after[t].holds = {} /\ after[t].h = None /\ after[t].arg = <<>> /\ after[t].got = {}
        /\ after[t].then = "none"
    BY <1>1, StartedAside
  <2>3. BegunFrom(after, t, c)
    BY <1>1, StartedIs
  <2>. HIDE DEF after
  <2>. QED  BY <2>1, <2>2, <2>3
<1>4. CASE th' = [th EXCEPT ![t].good = FALSE, ![t].saw = "none"] \/ th' = [th EXCEPT ![t].good = FALSE]
  <2>1. \/ th' = [th EXCEPT ![t] = [th[t] EXCEPT !.good = FALSE, !.saw = "none"]]
        \/ th' = [th EXCEPT ![t] = [th[t] EXCEPT !.good = FALSE]]
    BY <1>4
  <2>2. th = [u \in Threads |-> th[u]]
    BY <1>1 DEF CallsAreRecords
  <2>3. \A u \in Threads \ {t} : th'[u] = th[u]
    BY <2>1, <2>2
  <2>4. th'[t] = [th[t] EXCEPT !.good = FALSE, !.saw = "none"] \/ th'[t] = [th[t] EXCEPT !.good = FALSE]
    BY <2>1, <2>2
  <2>. QED  BY <1>1, <2>3, <2>4, FieldNames DEF RefusedAs, Alongside
<1>. DEFINE fits(r) == /\ BegunAs(r, c) /\ r.sess = th[t].sess /\ r.writes = th[t].writes /\ r.wrote = th[t].wrote
                       /\ r.rival = after[t].rival
<1>5. ASSUME NEW r, fits(r), th' = [after EXCEPT ![t] = r] PROVE BegunBy(t, c)
  <2>. HIDE DEF after
  <2>1. th'[t] = r /\ \A u \in Threads \ {t} : th'[u] = after[u]
    BY <1>3, <1>5
  <2>2. /\ r.op = c.op /\ r.sess = th[t].sess /\ r.writes = th[t].writes /\ r.wrote = th[t].wrote
        /\ r.rival = after[t].rival /\ BegunAs(r, c)
    BY <1>5 DEF BegunAs
  <2>3. BegunFrom(after, t, c)
    BY <1>3
  <2>4. after[t].rival = ((th[t].sess # NoPath /\ th[t].rival) \/ \E u \in Threads \ {t} : Meets(c, u))
    BY <2>3, Zenon DEF BegunFrom
  <2>5. th'[t].rival = ((th[t].sess # NoPath /\ th[t].rival) \/ \E u \in Threads \ {t} : Meets(c, u))
    BY <2>1, <2>2, <2>4, Zenon
  <2>6. \A u \in Threads \ {t} :
           /\ th'[u].sess = th[u].sess /\ th'[u].writes = th[u].writes /\ th'[u].wrote = th[u].wrote
           /\ th'[u].raced = th[u].raced /\ th'[u].isdir = th[u].isdir
           /\ th'[u].rival = IF Meets(c, u) THEN TRUE ELSE th[u].rival
    BY <2>1, <2>3 DEF BegunFrom
  <2>7. /\ th'[t].op = c.op /\ th'[t].sess = th[t].sess /\ th'[t].writes = th[t].writes
        /\ th'[t].wrote = th[t].wrote
    BY <2>1, <2>2
  <2>8. BegunFrom(th', t, c)
    BY <2>5, <2>6, <2>7, Zenon DEF BegunFrom
  <2>. QED  BY <2>1, <2>2, <2>8, Zenon DEF BegunBy
<1>6. CASE th' = [after EXCEPT ![t] = mkdir] /\ c.op = "mkdir"
  <2>. HIDE DEF after
  <2>1. fits(mkdir)
    BY <1>3, <1>6, FieldNames DEF Asking, BegunAs, Begun, BegunFrom
  <2>. QED  BY <1>5, <1>6, <2>1 DEF after
<1>7. CASE th' = [after EXCEPT ![t] = stat] /\ c.op = "rename"
  <2>. HIDE DEF after
  <2>1. fits(stat)
    BY <1>3, <1>7, FieldNames DEF Asking, BegunAs, Begun, BegunFrom
  <2>. QED  BY <1>5, <1>7, <2>1 DEF after
<1>8. CASE First(c) \notin {Refused, "ask"} /\ th' = after
  <2>1. First(c) \in {"lock", "find", "drop", "list"}
    BY <1>1, <1>8, FirstIs
  <2>. HIDE DEF after
  <2>. QED  BY <1>3, <1>8, <2>1 DEF BegunAs, Begun, BegunBy, BegunFrom
<1>. QED  BY <1>2, <1>4, <1>6, <1>7, <1>8

LEMMA ClearBegin ==
  ASSUME DaemonInv, LockInv, SessionTyped, Clear, NEW t \in Threads, NEW c \in Menu[fmode], Begin(t, c)
  PROVE  Clear' /\ SessionTyped'
<1>1. th[t].pc = "idle" /\ \A u \in Threads \ {t} : Aside(th'[u], th[u])
  BY BeginAside
<1>2. \A u \in Threads \ {t} : /\ th'[u].op = th[u].op /\ th'[u].path = th[u].path /\ th'[u].to = th[u].to
                               /\ th'[u].pc = th[u].pc
  BY <1>1 DEF Aside, AlikeCalls
<1>3. CASE RefusedAs(t)
  <2>1. \A u \in Threads : Touches(th'[u]) \subseteq Touches(th[u]) /\ (th[u].rival => th'[u].rival)
    BY <1>1, <1>3 DEF RefusedAs, Touches, Alongside
  <2>2. SessionTyped'
    BY <1>3 DEF SessionTyped, RefusedAs
  <2>. QED  BY <2>1, <2>2, ClearKept
<1>4. CASE BegunBy(t, c)
  <2>1. \A u \in Threads \ {t} : Touches(th'[u]) = Touches(th[u])
    BY <1>2, <1>4 DEF BegunBy, BegunFrom, Touches, Concerns
  <2>2. Touches(th'[t]) \subseteq Touches(th[t]) \union Concerns(c)
    <3>1. /\ th'[t].op = c.op /\ th'[t].path = c.path /\ th'[t].to = c.to /\ th'[t].sess = th[t].sess
      BY <1>4 DEF BegunBy, BegunFrom, BegunAs, Begun
    <3>2. Concerns(th'[t]) = Concerns(c)
      BY <3>1 DEF Concerns
    <3>. QED  BY <3>1, <3>2 DEF Touches
  <2>3. SessionTyped'
    BY <1>4 DEF SessionTyped, BegunBy, BegunFrom
  <2>4. ASSUME NEW u \in Threads \ {t}, Meet(Touches(th'[t]), Touches(th'[u]))
        PROVE  th'[t].rival /\ th'[u].rival
    <3>1. Meets(c, u) \/ Meet(Touches(th[t]), Touches(th[u]))
      BY <2>1, <2>2, <2>4 DEF Meet, Meets
    <3>2. CASE Meets(c, u)
      BY <1>4, <3>2 DEF BegunBy, BegunFrom
    <3>3. CASE Meet(Touches(th[t]), Touches(th[u]))
      <4>1. th[t].rival /\ th[u].rival /\ th[t].sess # NoPath
        BY <1>1, <3>3 DEF Clear, Meet, Touches
      <4>. QED  BY <1>4, <4>1 DEF BegunBy, BegunFrom
    <3>. QED  BY <3>1, <3>2, <3>3
  <2>5. ASSUME NEW u \in Threads \ {t}, NEW v \in Threads \ {t}, u # v, Meet(Touches(th'[u]), Touches(th'[v]))
        PROVE  th'[u].rival
    <3>1. th[u].rival
      BY <2>1, <2>5 DEF Clear
    <3>. QED  BY <1>4, <3>1 DEF BegunBy, BegunFrom
  <2>6. ASSUME NEW x \in Threads, NEW y \in Threads, x # y, Meet(Touches(th'[x]), Touches(th'[y]))
        PROVE  th'[x].rival
    <3>1. Meet(Touches(th'[y]), Touches(th'[x]))
      BY <2>6 DEF Meet
    <3>. QED  BY <2>4, <2>5, <2>6, <3>1
  <2>. QED  BY <2>3, <2>6 DEF Clear
<1>. QED  BY <1>3, <1>4, BeginIs

\* A call that takes a lock goes on to the next, or does what it took them for.
LockedAs(r, q) ==
  \/ r.pc = "lock" /\ r.then = q.then
  \/ r.pc = "look" /\ r.then = q.then /\ ~(q.op \in {"openw", "create"} /\ Restricted)
       /\ q.op \notin {"unlink", "rmdir", "rename"}
  \/ /\ r.pc = "ask" /\ r.arg = r.path
     /\ \/ q.op \in {"openw", "create"} /\ Restricted /\ r.req = "fs.stat" /\ r.then = "target"
        \/ q.op \in {"unlink", "rmdir"} /\ r.req = "fs.remove" /\ r.then = "removed"
        \/ q.op = "rename" /\ r.req = "fs.rename" /\ r.then = "renamed"

LEMMA LockIs ==
  ASSUME DaemonInv, NEW t \in Threads, Lock(t)
  PROVE  /\ \A u \in Threads \ {t} : th'[u] = th[u]
         /\ th'[t].op = th[t].op /\ th'[t].path = th[t].path /\ th'[t].to = th[t].to
         /\ th'[t].sess = th[t].sess /\ Alongside(th'[t], th[t]) /\ th'[t].h = th[t].h
         /\ LockedAs(th'[t], th[t])
<1>. DEFINE q == [th[t] EXCEPT !.holds = @ \union {NextWanted(th[t])}]
            next == IF Cardinality(q.holds) = Len(Wanted(q)) THEN Locked(q) ELSE q
<1>1. th' = [th EXCEPT ![t] = next] /\ th[t].pc = "lock" /\ DOMAIN th[t] = Fields /\ CallsAreRecords
  BY AtHand DEF Lock, At, DaemonInv
<1>2. /\ DOMAIN q = Fields /\ q.op = th[t].op /\ q.path = th[t].path /\ q.to = th[t].to /\ q.pc = "lock"
      /\ q.sess = th[t].sess /\ Alongside(q, th[t]) /\ q.h = th[t].h /\ q.then = th[t].then
  BY <1>1, FieldNames DEF Alongside
<1>. HIDE DEF q
<1>3. /\ Locked(q).op = q.op /\ Locked(q).path = q.path /\ Locked(q).to = q.to
      /\ Locked(q).sess = q.sess /\ Alongside(Locked(q), q) /\ Locked(q).h = q.h
      /\ LockedAs(Locked(q), q)
  <2>1. CASE q.op \in {"openw", "create"} /\ Restricted
    <3>1. Locked(q) = Asking(q, "fs.stat", q.path, "target")
      BY <2>1 DEF Locked
    <3>. QED  BY <1>2, <2>1, <3>1, FieldNames DEF Asking, Alongside, LockedAs
  <2>2. CASE q.op \in {"unlink", "rmdir"}
    <3>1. Locked(q) = Asking(q, "fs.remove", q.path, "removed")
      BY <2>2 DEF Locked
    <3>. QED  BY <1>2, <2>2, <3>1, FieldNames DEF Asking, Alongside, LockedAs
  <2>3. CASE q.op = "rename"
    <3>1. Locked(q) = Asking(q, "fs.rename", q.path, "renamed")
      BY <2>3 DEF Locked
    <3>. QED  BY <1>2, <2>3, <3>1, FieldNames DEF Asking, Alongside, LockedAs
  <2>4. CASE ~(q.op \in {"openw", "create"} /\ Restricted) /\ q.op \notin {"unlink", "rmdir", "rename"}
    <3>1. Locked(q) = [q EXCEPT !.pc = "look"]
      BY <2>4 DEF Locked
    <3>. QED  BY <1>2, <2>4, <3>1, FieldNames DEF Alongside, LockedAs
  <2>. QED  BY <2>1, <2>2, <2>3, <2>4
<1>4. /\ next.op = q.op /\ next.path = q.path /\ next.to = q.to /\ next.sess = q.sess /\ Alongside(next, q)
      /\ next.h = q.h /\ LockedAs(next, q)
  <2>1. CASE next = q
    BY <1>2, <2>1 DEF Alongside, LockedAs
  <2>2. CASE next = Locked(q)
    BY <1>3, <2>2
  <2>. QED  BY <2>1, <2>2
<1>. HIDE DEF next
<1>5. th'[t] = next /\ \A u \in Threads \ {t} : th'[u] = th[u]
  BY <1>1 DEF CallsAreRecords
<1>. QED  BY <1>2, <1>4, <1>5 DEF Alongside, LockedAs

\* Any other step of a call.
LEMMA ClearProceed ==
  ASSUME DaemonInv, LockInv, SessionTyped, Clear, NEW t \in Threads, Proceed(t)
  PROVE  Clear' /\ SessionTyped'
<1>0. th[t].pc # "idle"
  BY DEF Proceed, Ask, Lock, Look, Put, Created, TargetSeen, Find, Enter, Waited, Marked, Seen, Drop, Close,
         Sent, Changed, Removed, OldSeen, DirectorySeen, IntoSeen, NewSeen, Renamed, FlushDirs, UnlockAgain,
         List, Listed, Reread, At, Heard
<1>1. ASSUME \A u \in Threads \ {t} : th'[u] = th[u],
             th'[t].op = th[t].op, th'[t].path = th[t].path, th'[t].to = th[t].to, th'[t].sess = th[t].sess,
             th'[t].rival = th[t].rival
      PROVE  Clear' /\ SessionTyped'
  <2>1. \A u \in Threads : Touches(th'[u]) \subseteq Touches(th[u]) /\ (th[u].rival => th'[u].rival)
    BY <1>0, <1>1, TouchesAlike
  <2>2. SessionTyped'
    BY <1>1 DEF SessionTyped
  <2>. QED  BY <2>1, <2>2, ClearKept
<1>2. CASE GoesOn(t)
  <2>1. PICK q : Go(t, q) /\ Continues(th[t], q)
    BY <1>2 DEF GoesOn
  <2>2. CASE q.pc = "idle"
    BY <1>0, <2>1, <2>2, ClearFinished
  <2>3. CASE q.pc # "idle"
    <3>1. DOMAIN q = Fields /\ CallsAreRecords
      BY <2>1 DEF Continues, DaemonInv
    <3>. QED  BY <1>1, <2>1, <2>3, <3>1, GoOthers, GoSelf DEF Continues, Alongside
  <2>. QED  BY <2>2, <2>3
<1>3. CASE Lock(t)
  <2>1. /\ \A u \in Threads \ {t} : th'[u] = th[u]
        /\ th'[t].op = th[t].op /\ th'[t].path = th[t].path /\ th'[t].to = th[t].to
        /\ th'[t].sess = th[t].sess /\ th'[t].rival = th[t].rival
    BY <1>3, LockIs DEF Alongside
  <2>. QED  BY <1>1, <2>1
<1>4. CASE UNCHANGED <<th, locks>>
  BY <1>1, <1>4
<1>. QED  BY <1>2, <1>3, <1>4, ProceedGoesOn
-----------------------------------------------------------------------------
LEMMA ClearNext ==
  ASSUME DaemonInv, LockInv, SessionTyped, Clear, IPCNext
  PROVE  Clear' /\ SessionTyped'
<1>1. ASSUME NEW h \in Handles, Download(h) PROVE Clear' /\ SessionTyped'
  <2>1. UNCHANGED th
    BY <1>1 DEF Download, DownloadBegins, DownloadEnds, DownloadLost, callVars
  <2>. QED  BY <2>1, ClearKept DEF SessionTyped
<1>2. ASSUME NEW q, th' = Disturbed(q) PROVE Clear' /\ SessionTyped'
  <2>1. \A u \in Threads : th'[u] = th[u] \/ th'[u] = [th[u] EXCEPT !.rival = TRUE]
    BY <1>2 DEF Disturbed
  <2>2. ASSUME NEW u \in Threads
        PROVE  /\ th'[u].op = th[u].op /\ th'[u].path = th[u].path /\ th'[u].to = th[u].to
               /\ th'[u].sess = th[u].sess /\ th'[u].pc = th[u].pc /\ (th[u].rival => th'[u].rival)
    BY <2>1, FieldNames DEF DaemonInv, CallsAreRecords
  <2>3. \A u \in Threads : Touches(th'[u]) \subseteq Touches(th[u])
    BY <2>2, TouchesAlike
  <2>. QED  BY <2>2, <2>3, ClearKept DEF SessionTyped
<1>. QED  BY <1>1, <1>2, ClearBegin, ClearProceed DEF IPCNext

MountClear == MountTyped /\ (front = "daemon" => SessionTyped /\ Clear)

LEMMA InitClear == Init => MountClear
<1>. SUFFICES ASSUME Init PROVE MountClear
  OBVIOUS
<1>1. \A t \in Threads : th[t].sess = NoPath /\ th[t].pc = "idle"
  BY DEF Init, Idle
<1>2. Clear /\ SessionTyped
  BY <1>1 DEF Clear, SessionTyped, Touches, Meet
<1>. QED  BY <1>2, InitTyped DEF MountClear

LEMMA NextClear == MountClear /\ [Next]_vars => MountClear'
<1>. SUFFICES ASSUME MountClear, [Next]_vars PROVE MountClear'
  OBVIOUS
<1>0. MountTyped'
  BY NextTyped DEF MountClear
<1>1. CASE front = "daemon" /\ IPCNext /\ UNCHANGED front
  BY <1>0, <1>1, ClearNext DEF MountClear, MountTyped, MountWaits, MountNames, MountLocks, IPCMountInv
<1>2. CASE front = "direct" /\ UNCHANGED front
  BY <1>0, <1>2 DEF MountClear
<1>3. CASE UNCHANGED vars
  <2>1. UNCHANGED <<th, front>>
    BY <1>3 DEF vars, callVars
  <2>2. front = "daemon" => Clear' /\ SessionTyped'
    BY <2>1, ClearKept DEF MountClear, SessionTyped
  <2>. QED  BY <1>0, <2>1, <2>2 DEF MountClear
<1>. QED  BY <1>1, <1>2, <1>3 DEF Next
-----------------------------------------------------------------------------
(***************************************************************************)
(* What a call asks for and what follows, by how far it has come.          *)
(***************************************************************************)
Changes == {"fs.mkdir", "fs.rename", "fs.remove", "fs.uploadStaged"}
Changers == {"mkdir", "unlink", "rmdir", "rename", "release"}
Lookups == {"old", "dir", "into", "into.dir", "new", "new.dir"}

Shape(q) ==
  /\ q.pc = "ask" /\ q.req \in Changes =>
       /\ q.arg = q.path /\ q.op \in Changers
       /\ (q.req = "fs.rename" => q.op = "rename") /\ (q.req = "fs.mkdir" => q.op = "mkdir")
  /\ q.pc = "ask" /\ q.then = "listed" => q.req = "fs.list" /\ q.arg = q.path
  /\ q.pc \in {"ask", "heard"} /\ q.then = "listed" => q.op = "readdir"
  /\ q.pc \in {"ask", "heard"} /\ q.then \in Lookups \union {"renamed"} => q.op = "rename"
  /\ q.pc \in {"ask", "heard"} /\ q.then = "removed" => q.op \in {"unlink", "rmdir"}
  /\ q.pc \in {"ask", "heard"} /\ q.then = "target" => q.op \in OpensToWrite
  /\ q.pc \in {"lock", "look", "put"} => q.op \notin {"getattr", "readdir"}
  /\ q.pc = "list" => q.op = "readdir"
  /\ q.pc \in {"drop", "close"} => q.op = "release" /\ q.then = "none"

\* The daemon has done what the call is for.
Effects == {"changed", "removed", "renamed", "sent"}
Effected(q) == q.pc = "flush" \/ (q.pc = "heard" /\ q.good /\ q.then \in Effects)

\* What s goes on as, without an answer: only what has been done is told.
Fits(s, q) ==
  /\ DOMAIN q = Fields /\ Shape(q) /\ q.pc # "heard" /\ Continues(s, q)
  /\ q.pc = "flush" => \/ q.op = "release" /\ q.then = "none"
                       \/ Effected(s) /\ q.then = s.then /\ q.raced = s.raced

Fitting(t) == \E q : Go(t, q) /\ Fits(th[t], q)

LEMMA FittingWays ==
  ASSUME NEW q, DOMAIN q = Fields
  PROVE  /\ \A good : Fits(q, Over(q, good))
         /\ \A good : Fits(q, Return(q, good))
         /\ Fits(q, Opened(q)) /\ Fits(q, [Opened(q) EXCEPT !.h = None])
         /\ Effected(q) => Fits(q, [q EXCEPT !.pc = "flush"])
         /\ \A r, w : r \notin Changes /\ w \notin {"listed", "renamed", "removed", "target"} \union Lookups
              => Fits(q, Asking(q, r, q.path, w))
         /\ \A p, w : p \in {q.path, q.to, Parent(q.to)} /\ q.op = "rename" /\ w \in Lookups
              => Fits(q, Asking(q, "fs.stat", p, w))
<1>1. \A good : DOMAIN Over(q, good) = Fields /\ Over(q, good).pc = "idle"
  BY FieldNames DEF Over
<1>2. ASSUME NEW good PROVE DOMAIN Return(q, good) = Fields /\ Return(q, good).pc \in {"idle", "unlock"}
  <2>1. DOMAIN [q EXCEPT !.pc = "unlock", !.good = good] = Fields /\ [q EXCEPT !.pc = "unlock", !.good = good].pc = "unlock"
    BY FieldNames
  <2>. QED  BY <1>1, <2>1 DEF Return
<1>3. DOMAIN Opened(q) = Fields /\ Opened(q).pc \in {"idle", "refind"}
  BY <1>1, FieldNames DEF Opened
<1>4. DOMAIN [Opened(q) EXCEPT !.h = None] = Fields /\ [Opened(q) EXCEPT !.h = None].pc \in {"idle", "refind"}
  BY <1>3, FieldNames
<1>5. /\ \A good : Fits(q, Over(q, good))
      /\ \A good : Fits(q, Return(q, good))
      /\ Fits(q, Opened(q)) /\ Fits(q, [Opened(q) EXCEPT !.h = None])
  <2>1. ASSUME NEW r, DOMAIN r = Fields, r.pc \in {"idle", "unlock", "refind"}, Continues(q, r) PROVE Fits(q, r)
    BY <2>1 DEF Fits, Shape
  <2>. QED  BY <1>1, <1>2, <1>3, <1>4, <2>1, Ways
<1>6. ASSUME Effected(q) PROVE Fits(q, [q EXCEPT !.pc = "flush"])
  <2>. DEFINE r == [q EXCEPT !.pc = "flush"]
  <2>1. DOMAIN r = Fields /\ r.pc = "flush" /\ r.then = q.then /\ r.raced = q.raced
    BY FieldNames
  <2>2. Continues(q, r)
    BY FieldNames DEF Continues
  <2>. HIDE DEF r
  <2>3. Fits(q, r)
    BY <1>6, <2>1, <2>2 DEF Fits, Shape
  <2>. QED  BY <2>3 DEF r
<1>7. ASSUME NEW r, NEW p, NEW w
      PROVE  LET a == Asking(q, r, p, w) IN
             DOMAIN a = Fields /\ a.pc = "ask" /\ a.req = r /\ a.arg = p /\ a.then = w /\ a.op = q.op /\ a.path = q.path
  BY FieldNames DEF Asking
<1>8. ASSUME NEW r, NEW w, r \notin Changes, w \notin {"listed", "renamed", "removed", "target"} \union Lookups
      PROVE  Fits(q, Asking(q, r, q.path, w))
  <2>1. Continues(q, Asking(q, r, q.path, w))
    BY <1>8, Ways
  <2>. QED  BY <1>7, <1>8, <2>1 DEF Fits, Shape
<1>9. ASSUME NEW w, NEW p \in {q.path, q.to, Parent(q.to)}, q.op = "rename", w \in Lookups
      PROVE  Fits(q, Asking(q, "fs.stat", p, w))
  <2>1. Continues(q, Asking(q, "fs.stat", p, w))
    BY <1>9, Ways DEF Lookups
  <2>. QED  BY <1>7, <1>9, <2>1 DEF Fits, Shape, Changes, Lookups
<1>. QED  BY <1>5, <1>6, <1>8, <1>9

LEMMA LookingFits ==
  ASSUME DaemonInv, NEW t \in Threads, Shape(th[t]), Look(t) \/ Put(t) \/ Created(t) \/ TargetSeen(t)
  PROVE  Fitting(t)
<1>0. DOMAIN th[t] = Fields
  BY AtHand
<1>1. CASE Look(t)
  <2>. DEFINE h == files[th[t].path]
              put == [th[t] EXCEPT !.pc = "put"]
              have == [th[t] EXCEPT !.pc = "put", !.h = h]
  <2>1. \/ Go(t, Opened(th[t])) \/ (Go(t, put) /\ ~Writes(th[t])) \/ (Go(t, have) /\ h # None)
        \/ Go(t, Asking(th[t], "fs.create", th[t].path, "created"))
    BY <1>1 DEF Look
  <2>2. th[t].pc = "look"
    BY <1>1 DEF Look, At
  <2>3. ~Writes(th[t]) => Fits(th[t], put)
    BY <1>0, <2>2, FieldNames DEF Continues, Fits, Shape
  <2>4. h # None => Fits(th[t], have)
    BY <1>0, <2>2, FieldNames DEF Continues, Fits, Shape
  <2>5. Fits(th[t], Asking(th[t], "fs.create", th[t].path, "created"))
    BY <1>0, FittingWays DEF Changes, Lookups
  <2>. HIDE DEF put, have
  <2>. QED  BY <1>0, <2>1, <2>3, <2>4, <2>5, FittingWays DEF Fitting
<1>2. CASE Put(t)
  <2>1. Go(t, Opened(th[t])) \/ Go(t, [Opened(th[t]) EXCEPT !.h = None])
    BY <1>2 DEF Put
  <2>. QED  BY <1>0, <2>1, FittingWays DEF Fitting
<1>3. CASE Created(t)
  <2>1. Go(t, Opened(th[t])) \/ Go(t, Over(th[t], FALSE))
    BY <1>3 DEF Created
  <2>. QED  BY <1>0, <2>1, FittingWays DEF Fitting
<1>4. CASE TargetSeen(t)
  <2>1. Go(t, Over(th[t], TRUE)) \/ Go(t, Over(th[t], FALSE))
    BY <1>4 DEF TargetSeen
  <2>. QED  BY <1>0, <2>1, FittingWays DEF Fitting
<1>. QED  BY <1>1, <1>2, <1>3, <1>4

LEMMA HandleFits ==
  ASSUME DaemonInv, NEW t \in Threads, Shape(th[t]), Find(t) \/ Enter(t) \/ Waited(t) \/ Marked(t) \/ Seen(t)
  PROVE  Fitting(t)
<1>0. DOMAIN th[t] = Fields
  BY AtHand
<1>1. CASE Find(t)
  <2>. DEFINE enter == [th[t] EXCEPT !.pc = "enter", !.h = files[th[t].path]]
              lock == [th[t] EXCEPT !.pc = "lock"]
  <2>1. \/ Go(t, enter) \/ (Go(t, lock) /\ th[t].pc = "find" /\ th[t].op \in {"read", "peek", "write"})
        \/ Go(t, Over(th[t], TRUE)) \/ Go(t, Over(th[t], FALSE))
        \/ Go(t, Asking(th[t], "fs.stat", th[t].path, "seen"))
    BY <1>1 DEF Find
  <2>2. Fits(th[t], enter) /\ (th[t].pc = "find" /\ th[t].op \in {"read", "peek", "write"} => Fits(th[t], lock))
    BY <1>0, FieldNames DEF Continues, Fits, Shape
  <2>3. Fits(th[t], Asking(th[t], "fs.stat", th[t].path, "seen"))
    BY <1>0, FittingWays DEF Changes, Lookups
  <2>. HIDE DEF enter, lock
  <2>. QED  BY <1>0, <2>1, <2>2, <2>3, FittingWays DEF Fitting
<1>2. /\ \A saw, good : Fits(th[t], Over([th[t] EXCEPT !.saw = saw], good))
      /\ Fits(th[t], Over([th[t] EXCEPT !.wrote = (th[t].op = "write")], TRUE))
  <2>1. \A saw, good : Fits(th[t], Over([th[t] EXCEPT !.saw = saw], good))
    BY <1>0, FieldNames DEF Continues, Over, Fits, Shape
  <2>2. Fits(th[t], Over([th[t] EXCEPT !.wrote = (th[t].op = "write")], TRUE))
    BY <1>0, FieldNames DEF Continues, Over, Fits, Shape
  <2>. QED  BY <2>1, <2>2
<1>3. ASSUME NEW h, Go(t, Found(th[t], h)) PROVE Fitting(t)
  BY <1>2, <1>3 DEF Fitting, Found
<1>4. CASE Enter(t)
  <2>1. \/ Go(t, [th[t] EXCEPT !.pc = "wait"]) \/ Go(t, Over(th[t], TRUE)) \/ Go(t, Over(th[t], FALSE))
        \/ Go(t, Asking(th[t], "fs.markDirty", th[t].path, "marked"))
        \/ Go(t, Over([th[t] EXCEPT !.wrote = (th[t].op = "write")], TRUE))
        \/ Go(t, Found(th[t], th[t].h))
    BY <1>4 DEF Enter, Uses
  <2>2. Fits(th[t], Asking(th[t], "fs.markDirty", th[t].path, "marked"))
    BY <1>0, FittingWays DEF Changes, Lookups
  <2>3. Fits(th[t], [th[t] EXCEPT !.pc = "wait"])
    BY <1>0, FieldNames DEF Continues, Fits, Shape
  <2>. QED  BY <1>0, <1>2, <1>3, <2>1, <2>2, <2>3, FittingWays DEF Fitting
<1>5. CASE Waited(t)
  BY <1>3, <1>5 DEF Waited
<1>6. CASE Marked(t) \/ Seen(t)
  BY <1>0, <1>6, FittingWays DEF Marked, Seen, Fitting
<1>. QED  BY <1>1, <1>4, <1>5, <1>6

LEMMA ReleaseFits ==
  ASSUME DaemonInv, NEW t \in Threads, Shape(th[t]),
         Drop(t) \/ Close(t) \/ Sent(t) \/ Changed(t) \/ Removed(t) \/ Renamed(t) \/ FlushDirs(t) \/ UnlockAgain(t)
  PROVE  Fitting(t)
<1>0. DOMAIN th[t] = Fields
  BY AtHand
<1>. DEFINE flush == [th[t] EXCEPT !.pc = "flush"]
            close == [th[t] EXCEPT !.pc = "close", !.h = files[th[t].path]]
<1>1. ASSUME Effected(th[t]), Go(t, flush) PROVE Fitting(t)
  BY <1>0, <1>1, FittingWays DEF Fitting
<1>2. ASSUME NEW good, Go(t, Over(th[t], good)) \/ Go(t, Return(th[t], good)) PROVE Fitting(t)
  BY <1>0, <1>2, FittingWays DEF Fitting
<1>3. CASE Drop(t)
  <2>1. th[t].pc = "drop" /\ (Go(t, Over(th[t], TRUE)) \/ Go(t, close))
    BY <1>3 DEF Drop, At
  <2>2. Fits(th[t], close)
    BY <1>0, <2>1, FieldNames DEF Fits, Shape, Continues
  <2>. QED  BY <1>2, <2>1, <2>2 DEF Fitting
<1>4. CASE Close(t)
  <2>1. /\ th[t].pc = "close"
        /\ \/ Go(t, flush) \/ Go(t, Over(th[t], FALSE))
           \/ Go(t, Asking(th[t], "fs.uploadStaged", th[t].path, "sent"))
           \/ Go(t, Asking(th[t], "fs.close", th[t].path, "changed"))
    BY <1>4 DEF Close, At
  <2>2. Fits(th[t], flush)
    BY <1>0, <2>1, FieldNames DEF Fits, Shape, Continues
  <2>3. Fits(th[t], Asking(th[t], "fs.close", th[t].path, "changed"))
    BY <1>0, FittingWays DEF Changes, Lookups
  <2>4. Fits(th[t], Asking(th[t], "fs.uploadStaged", th[t].path, "sent"))
    <3>1. Continues(th[t], Asking(th[t], "fs.uploadStaged", th[t].path, "sent"))
      BY <1>0, Ways
    <3>. QED  BY <1>0, <2>1, <3>1, FieldNames DEF Fits, Shape, Asking, Changes, Changers, Lookups
  <2>. HIDE DEF flush
  <2>. QED  BY <1>2, <2>1, <2>2, <2>3, <2>4 DEF Fitting
<1>5. CASE Sent(t) \/ Changed(t) \/ Removed(t) \/ Renamed(t)
  <2>1. /\ th[t].pc = "heard" /\ th[t].then \in Effects
        /\ \/ Go(t, flush) /\ th[t].good
           \/ \E good : Go(t, Over(th[t], good)) \/ Go(t, Return(th[t], good))
    BY <1>5 DEF Sent, Changed, Removed, Renamed, Heard, At, Effects
  <2>. QED  BY <1>1, <1>2, <2>1 DEF Effected
<1>6. CASE FlushDirs(t) \/ UnlockAgain(t)
  BY <1>2, <1>6 DEF FlushDirs, UnlockAgain
<1>. QED  BY <1>3, <1>4, <1>5, <1>6

LEMMA LookupsFit ==
  ASSUME DaemonInv, NEW t \in Threads, Shape(th[t]),
         OldSeen(t) \/ DirectorySeen(t) \/ IntoSeen(t) \/ NewSeen(t) \/ (\E e \in Expired : List(t, e)) \/ Listed(t)
  PROVE  Fitting(t)
<1>0. DOMAIN th[t] = Fields
  BY AtHand
<1>1. ASSUME NEW p \in {th[t].path, th[t].to, Parent(th[t].to)}, th[t].op = "rename",
             NEW w \in {"dir", "into", "new.dir", "into.dir", "new"}, Go(t, Asking(th[t], "fs.stat", p, w))
      PROVE  Fitting(t)
  <2>1. Fits(th[t], Asking(th[t], "fs.stat", p, w))
    BY <1>0, <1>1, FittingWays DEF Lookups
  <2>. QED  BY <1>1, <2>1 DEF Fitting
<1>2. ASSUME NEW good, Go(t, Over(th[t], good)) PROVE Fitting(t)
  BY <1>0, <1>2, FittingWays DEF Fitting
<1>3. \A w : Heard(t, w) => th[t].pc = "heard" /\ th[t].then = w /\ (w \in Lookups => th[t].op = "rename")
  BY DEF Heard, At, Shape
<1>4. CASE OldSeen(t)
  <2>1. \/ Go(t, Over(th[t], FALSE)) \/ Go(t, Over(th[t], TRUE))
        \/ Go(t, Asking(th[t], "fs.stat", th[t].path, "dir"))
        \/ Go(t, Asking(th[t], "fs.stat", Parent(th[t].to), "into"))
    BY <1>4 DEF OldSeen
  <2>2. th[t].op = "rename"
    BY <1>3, <1>4 DEF OldSeen, Lookups
  <2>. QED  BY <1>1, <1>2, <2>1, <2>2
<1>5. CASE DirectorySeen(t)
  <2>1. \/ Go(t, Over(th[t], FALSE))
        \/ Go(t, Asking(th[t], "fs.stat", th[t].to, "new.dir"))
        \/ Go(t, Asking(th[t], "fs.stat", Parent(th[t].to), "into.dir"))
    BY <1>5 DEF DirectorySeen
  <2>2. th[t].op = "rename"
    BY <1>3, <1>5 DEF DirectorySeen, Lookups
  <2>. QED  BY <1>1, <1>2, <2>1, <2>2
<1>6. CASE IntoSeen(t)
  <2>1. PICK kind \in {<<"into", "new">>, <<"into.dir", "new.dir">>} :
          /\ Heard(t, kind[1])
          /\ Go(t, Over(th[t], FALSE)) \/ Go(t, Asking(th[t], "fs.stat", th[t].to, kind[2]))
    BY <1>6 DEF IntoSeen
  <2>2. kind[2] \in {"new", "new.dir"} /\ th[t].op = "rename"
    BY <1>3, <2>1 DEF Lookups
  <2>. QED  BY <1>1, <1>2, <2>1, <2>2
<1>7. CASE NewSeen(t)
  <2>1. PICK kind \in {<<"new", "renamed">>, <<"new.dir", "changed">>} :
          /\ Heard(t, kind[1])
          /\ Go(t, Over(th[t], FALSE)) \/ Go(t, Asking(th[t], "fs.rename", th[t].path, kind[2]))
    BY <1>7 DEF NewSeen
  <2>2. th[t].pc = "heard" /\ fmode \in 3..8 /\ th[t].op = "rename" /\ kind[2] \in {"renamed", "changed"}
    BY <1>3, <2>1, HeardMode DEF Lookups
  <2>. DEFINE q == Asking(th[t], "fs.rename", th[t].path, kind[2])
  <2>3. Fits(th[t], q)
    <3>1. fmode # FullyWritable
      BY <2>2 DEF FullyWritable
    <3>2. Continues(th[t], q)
      BY <1>0, <2>2, <3>1, FieldNames DEF Continues, Asking
    <3>3. DOMAIN q = Fields /\ q.pc = "ask" /\ q.req = "fs.rename" /\ q.arg = q.path /\ q.op = "rename" /\ q.then = kind[2]
      BY <1>0, <2>2, FieldNames DEF Asking
    <3>. HIDE DEF q
    <3>. QED  BY <2>2, <3>2, <3>3 DEF Fits, Shape, Changers, Lookups
  <2>. HIDE DEF q
  <2>4. Go(t, Over(th[t], FALSE)) \/ Go(t, q)
    BY <2>1 DEF q
  <2>. QED  BY <1>2, <2>3, <2>4 DEF Fitting
<1>8. ASSUME NEW e \in Expired, List(t, e) PROVE Fitting(t)
  <2>1. /\ th[t].pc = "list"
        /\ Go(t, Over(th[t], TRUE)) \/ Go(t, Asking(th[t], "fs.list", th[t].path, "listed"))
    BY <1>8 DEF List, At
  <2>2. Continues(th[t], Asking(th[t], "fs.list", th[t].path, "listed"))
    BY <1>0, Ways
  <2>3. Fits(th[t], Asking(th[t], "fs.list", th[t].path, "listed"))
    BY <1>0, <2>1, <2>2, FieldNames DEF Fits, Shape, Asking, Changes, Changers, Lookups
  <2>. QED  BY <1>2, <2>1, <2>3 DEF Fitting
<1>9. CASE Listed(t)
  <2>1. Go(t, [th[t] EXCEPT !.pc = "reread"]) \/ Go(t, Over(th[t], FALSE))
    BY <1>9 DEF Listed
  <2>2. Fits(th[t], [th[t] EXCEPT !.pc = "reread"])
    BY <1>0, FieldNames DEF Fits, Shape, Continues
  <2>. QED  BY <1>2, <2>1, <2>2 DEF Fitting
<1>. QED  BY <1>4, <1>5, <1>6, <1>7, <1>8, <1>9

LEMMA ProceedFits ==
  ASSUME DaemonInv, NEW t \in Threads, Shape(th[t]), Proceed(t)
  PROVE  Fitting(t) \/ Ask(t) \/ Lock(t) \/ UNCHANGED th
<1>1. CASE Reread(t)
  <2>1. Go(t, Over(th[t], TRUE)) \/ UNCHANGED th
    BY <1>1 DEF Reread
  <2>. QED  BY <2>1, AtHand, FittingWays DEF Fitting
<1>. QED  BY <1>1, LookingFits, HandleFits, ReleaseFits, LookupsFit DEF Proceed

LEMMA AskIs ==
  ASSUME DaemonInv, NEW t \in Threads, Ask(t)
  PROVE  /\ th[t].pc = "ask" /\ \A u \in Threads \ {t} : th'[u] = th[u]
         /\ th'[t].op = th[t].op /\ th'[t].path = th[t].path /\ th'[t].to = th[t].to /\ th'[t].then = th[t].then
         /\ th'[t].sess = th[t].sess /\ th'[t].rival = th[t].rival /\ th'[t].h = th[t].h
         /\ th'[t].writes = th[t].writes /\ th'[t].wrote = th[t].wrote
         /\ \/ /\ th'[t].pc = "ask" /\ th'[t].req = th[t].req /\ th'[t].arg = th[t].arg /\ th'[t].raced = th[t].raced
               /\ UNCHANGED remote
            \/ /\ th'[t].pc = "heard" /\ (~th'[t].raced => ~th[t].raced /\ ~Overtaken(t, th[t]))
               /\ th[t].req = "fs.list" => th'[t].got = Entries(th[t].arg)
               /\ UNCHANGED remote \/ remote' = Served(Asked(th[t])).after
               /\ th'[t].isdir = IsDir(th[t].arg)
               /\ th'[t].good => Served(Asked(th[t])).good /\ remote' = Served(Asked(th[t])).after
<1>0. DOMAIN th[t] = Fields /\ th[t].pc = "ask" /\ CallsAreRecords
  BY AtHand DEF Ask, At, DaemonInv
<1>. DEFINE q == [th[t] EXCEPT !.pc = "heard", !.isdir = IsDir(th[t].arg), !.tries = 0, !.arg = <<>>, !.req = "none",
                            !.got = IF th[t].req = "fs.list" THEN Entries(th[t].arg) ELSE {},
                            !.raced = th[t].raced \/ Overtaken(t, th[t])]
            heard(good) == [q EXCEPT !.good = good]
            again == [th[t] EXCEPT !.tries = 1]
<1>1. \/ Go(t, heard(Served(Asked(th[t])).good)) /\ remote' = Served(Asked(th[t])).after
      \/ Go(t, heard(FALSE)) /\ (UNCHANGED remote \/ remote' = Served(Asked(th[t])).after)
      \/ Go(t, again) /\ UNCHANGED remote
  BY DEF Ask, Answered, LostAnswer
<1>2. ASSUME NEW good, Go(t, heard(good))
      PROVE  /\ \A u \in Threads \ {t} : th'[u] = th[u]
             /\ th'[t].op = th[t].op /\ th'[t].path = th[t].path /\ th'[t].to = th[t].to /\ th'[t].then = th[t].then
             /\ th'[t].sess = th[t].sess /\ th'[t].rival = th[t].rival /\ th'[t].h = th[t].h
             /\ th'[t].writes = th[t].writes /\ th'[t].wrote = th[t].wrote
             /\ th'[t].isdir = IsDir(th[t].arg) /\ th'[t].good = good
             /\ th'[t].pc = "heard" /\ (~th'[t].raced => ~th[t].raced /\ ~Overtaken(t, th[t]))
             /\ th[t].req = "fs.list" => th'[t].got = Entries(th[t].arg)
  <2>. HIDE DEF Entries, Overtaken, IsDir
  <2>1. /\ DOMAIN q = Fields
        /\ q.op = th[t].op /\ q.path = th[t].path /\ q.to = th[t].to /\ q.pc = "heard" /\ q.then = th[t].then
        /\ q.sess = th[t].sess /\ q.rival = th[t].rival /\ q.h = th[t].h
        /\ q.writes = th[t].writes /\ q.wrote = th[t].wrote /\ q.isdir = IsDir(th[t].arg)
        /\ th[t].req = "fs.list" => q.got = Entries(th[t].arg)
    BY <1>0, FieldNames
  <2>2. ~q.raced => ~th[t].raced /\ ~Overtaken(t, th[t])
    BY <1>0, FieldNames
  <2>. HIDE DEF q
  <2>. DEFINE r == heard(good)
  <2>3. /\ DOMAIN r = Fields
        /\ r.op = q.op /\ r.path = q.path /\ r.to = q.to /\ r.pc = q.pc /\ r.then = q.then
        /\ r.sess = q.sess /\ r.rival = q.rival /\ r.raced = q.raced /\ r.got = q.got
        /\ r.h = q.h /\ r.writes = q.writes /\ r.wrote = q.wrote /\ r.isdir = q.isdir /\ r.good = good
    BY <2>1, FieldNames
  <2>4. Go(t, r)
    BY <1>2
  <2>. HIDE DEF r
  <2>. QED  BY <1>0, <2>1, <2>2, <2>3, <2>4, GoOthers, GoSelf DEF Alongside
<1>3. ASSUME Go(t, again)
      PROVE  /\ \A u \in Threads \ {t} : th'[u] = th[u]
             /\ th'[t].op = th[t].op /\ th'[t].path = th[t].path /\ th'[t].to = th[t].to /\ th'[t].then = th[t].then
             /\ th'[t].sess = th[t].sess /\ th'[t].rival = th[t].rival /\ th'[t].h = th[t].h
             /\ th'[t].writes = th[t].writes /\ th'[t].wrote = th[t].wrote
             /\ th'[t].pc = "ask" /\ th'[t].req = th[t].req /\ th'[t].arg = th[t].arg /\ th'[t].raced = th[t].raced
  <2>1. /\ DOMAIN again = Fields
        /\ again.op = th[t].op /\ again.path = th[t].path /\ again.to = th[t].to /\ again.then = th[t].then
        /\ again.sess = th[t].sess /\ again.rival = th[t].rival /\ again.raced = th[t].raced
        /\ again.h = th[t].h /\ again.writes = th[t].writes /\ again.wrote = th[t].wrote
        /\ again.pc = "ask" /\ again.req = th[t].req /\ again.arg = th[t].arg
    BY <1>0, FieldNames
  <2>. HIDE DEF again
  <2>. QED  BY <1>0, <1>3, <2>1, GoOthers, GoSelf DEF Alongside
<1>. HIDE DEF heard, again
<1>. QED  BY <1>0, <1>1, <1>2, <1>3

Shapes == \A t \in Threads : Shape(th[t])

LEMMA ShapeAlike ==
  ASSUME NEW r, NEW s, Shape(s), AlikeCalls(r, s), r.arg = s.arg
  PROVE  Shape(r)
BY DEF AlikeCalls, Shape

LEMMA ShapesNext ==
  ASSUME DaemonInv, Shapes, IPCNext
  PROVE  Shapes'
<1>0. \A u \in Threads : Shape(th[u])
  BY DEF Shapes
<1>1. ASSUME NEW t \in Threads, Shape(th'[t]), \A u \in Threads \ {t} : Aside(th'[u], th[u])
      PROVE  Shapes'
  <2>1. \A u \in Threads : Shape(th'[u])
    BY <1>0, <1>1, ShapeAlike DEF Aside
  <2>. QED  BY <2>1 DEF Shapes, Shape
<1>2. ASSUME NEW t \in Threads, NEW c \in Menu[fmode], Begin(t, c) PROVE Shapes'
  <2>1. \A u \in Threads \ {t} : Aside(th'[u], th[u])
    BY <1>2, BeginAside
  <2>2. CASE BegunBy(t, c)
    <3>1. BegunAs(th'[t], c)
      BY <2>2 DEF BegunBy
    <3>2. /\ (First(c) = "list" => c.op = "readdir") /\ (First(c) = "drop" => c.op = "release")
          /\ First(c) = "lock" => c.op \notin {"getattr", "readdir"}
      BY DEF First, Refused, Asks, Removal
    <3>3. Shape(th'[t])
      BY <3>1, <3>2 DEF BegunAs, Begun, Shape, Changes, Changers, Lookups, OpensToWrite
    <3>. QED  BY <1>1, <2>1, <3>3
  <2>3. CASE RefusedAs(t)
    <3>1. Shape(th'[t])
      BY <2>3 DEF RefusedAs, Shape
    <3>. QED  BY <1>1, <2>1, <3>1
  <2>. QED  BY <1>2, <2>2, <2>3, BeginIs
<1>3. ASSUME NEW t \in Threads, Proceed(t) PROVE Shapes'
  <2>1. CASE Fitting(t)
    <3>1. PICK q : Go(t, q) /\ Fits(th[t], q)
      BY <2>1 DEF Fitting
    <3>2. DOMAIN q = Fields /\ Shape(q) /\ CallsAreRecords
      BY <3>1 DEF Fits, DaemonInv
    <3>3. \A u \in Threads \ {t} : Aside(th'[u], th[u])
      BY <3>1, <3>2, GoOthers
    <3>4. Shape(th'[t])
      <4>1. CASE q.pc = "idle"
        <5>1. th'[t].pc = "idle"
          BY <3>1, <3>2, <4>1, GoSelf
        <5>. QED  BY <5>1 DEF Shape
      <4>2. CASE q.pc # "idle"
        BY <3>1, <3>2, <4>2, GoSelf DEF Shape
      <4>. QED  BY <4>1, <4>2
    <3>. QED  BY <1>1, <3>3, <3>4
  <2>2. CASE Ask(t)
    <3>1. Shape(th'[t])
      BY <1>0, <2>2, AskIs DEF Shape
    <3>2. \A u \in Threads \ {t} : th'[u] = th[u]
      BY <2>2, AskIs
    <3>. QED  BY <1>1, <3>1, <3>2 DEF Aside, AlikeCalls
  <2>3. CASE Lock(t)
    <3>0. /\ th'[t].op = th[t].op /\ LockedAs(th'[t], th[t]) /\ th[t].op \notin {"getattr", "readdir"}
      BY <1>0, <2>3, LockIs DEF Shape, Lock, At
    <3>1. Shape(th'[t])
      BY <3>0 DEF LockedAs, Shape, Changes, Changers, Lookups, OpensToWrite
    <3>2. \A u \in Threads \ {t} : th'[u] = th[u]
      BY <2>3, LockIs
    <3>. QED  BY <1>1, <3>1, <3>2 DEF Aside, AlikeCalls
  <2>4. CASE UNCHANGED th
    BY <2>4 DEF Shapes, Shape
  <2>. QED  BY <1>0, <1>3, <2>1, <2>2, <2>3, <2>4, ProceedFits
<1>4. ASSUME NEW h \in Handles, Download(h) PROVE Shapes'
  <2>1. UNCHANGED th
    BY <1>4 DEF Download, DownloadBegins, DownloadEnds, DownloadLost, callVars
  <2>. QED  BY <2>1 DEF Shapes, Shape
<1>5. ASSUME NEW q, th' = Disturbed(q) PROVE Shapes'
  <2>1. \A u \in Threads : Aside(th'[u], th[u])
    BY <1>5, DisturbedAside DEF DaemonInv
  <2>2. \A u \in Threads : Shape(th'[u])
    BY <1>0, <2>1, ShapeAlike DEF Aside
  <2>. QED  BY <2>2 DEF Shapes, Shape
<1>. QED  BY <1>2, <1>3, <1>4, <1>5 DEF IPCNext
-----------------------------------------------------------------------------
\* A listing of p's directory that is in a Readdir's hands, and what it must say.
Listing(u, p) ==
  th[u].op = "readdir" /\ th[u].pc = "heard" /\ th[u].then = "listed" /\ th[u].path = Parent(p)
Right(p) == \A u \in Threads : Listing(u, p) => (p \in th[u].got <=> There(p))

\* Not only the listings that are cached say so, but also those on their way into the cache.
ToldInv ==
  /\ <<>> \notin told /\ OwnChangesListed
  /\ \A p \in told : Right(p)
  /\ \A t \in Threads : Effected(th[t]) /\ ~th[t].rival /\ ~th[t].raced => \A p \in Brought(th[t]) : Right(p)

\* What changes at the remote is at or below a path that the request names.
LEMMA ServedTouches ==
  ASSUME IsRemote(remote), NEW r, NEW p \in Paths, (Served(r).after)[p] # remote[p]
  PROVE  /\ r.req \in Changes
         /\ \E x \in (IF r.req = "fs.rename" THEN Named(r.path, r.to) ELSE {r.path}) : Below(p, x)
<1>1. remote = [x \in Paths |-> remote[x]] /\ p \in Seq(Names) /\ Below(p, p)
  BY PathsAre, PathFacts DEF IsRemote
<1>2. Served(r).after # remote
  OBVIOUS
<1>3. CASE r.req = "fs.mkdir"
  <2>1. Served(r).after = WithNode(r.path, Directory)
    BY <1>2, <1>3 DEF Served, Only, Done, Failed
  <2>2. p = r.path
    BY <1>1, <2>1 DEF WithNode
  <2>. QED  BY <1>1, <1>3, <2>2 DEF Changes
<1>4. CASE r.req = "fs.uploadStaged"
  <2>1. Served(r).after = WithNode(r.path, File(r.text))
    BY <1>2, <1>4 DEF Served, Only, Done, Failed
  <2>2. p = r.path
    BY <1>1, <2>1 DEF WithNode
  <2>. QED  BY <1>1, <1>4, <2>2 DEF Changes
<1>5. CASE r.req = "fs.remove"
  <2>1. Served(r).after = Without(r.path)
    BY <1>2, <1>5 DEF Served, Only, Done, Failed
  <2>2. Below(p, r.path)
    BY <1>1, <2>1 DEF Without
  <2>. QED  BY <1>5, <2>2 DEF Changes
<1>6. CASE r.req = "fs.rename"
  <2>1. Served(r).after = MovedTo(r.path, RenamesTo(r)) /\ r.to # <<>>
    BY <1>2, <1>6 DEF Served, Only, Done, Failed, CanRename
  <2>2. Below(p, r.path) \/ Below(p, RenamesTo(r))
    <3>1. SUFFICES ASSUME ~Below(p, r.path), ~Below(p, RenamesTo(r)) PROVE MovedTo(r.path, RenamesTo(r))[p] = remote[p]
      BY <2>1
    <3>. QED  BY <3>1 DEF MovedTo
  <2>3. r.path \in Named(r.path, r.to) /\ RenamesTo(r) \in Named(r.path, r.to)
    BY <2>1 DEF Named, RenamesTo
  <2>. QED  BY <1>6, <2>2, <2>3 DEF Changes
<1>7. CASE r.req \notin Changes
  <2>1. Served(r).after = remote
    BY <1>7 DEF Served, Only, Done, Failed, Changes
  <2>. QED  BY <1>2, <2>1
<1>. QED  BY <1>3, <1>4, <1>5, <1>6, <1>7 DEF Changes

LEMMA BroughtIs ==
  ASSUME NEW q
  PROVE  /\ <<>> \notin Brought(q)
         /\ q.op \notin Changers => Brought(q) = {}
         /\ q.op = "release" /\ q.then # "sent" => Brought(q) = {}
         /\ q.pc # "idle" => Brought(q) \subseteq Touches(q)
         /\ \A p \in Brought(q) : Parent(p) \in Flushed(q)
<1>1. <<>> \notin Brought(q)
  BY DEF Brought
<1>2. CASE q.op \in {"mkdir", "unlink", "rmdir"}
  BY <1>1, <1>2 DEF Brought, Touches, Concerns, Flushed, Changers
<1>3. CASE q.op = "rename"
  BY <1>1, <1>3 DEF Brought, Touches, Concerns, Named, Flushed, Changers
<1>4. CASE q.op = "release"
  BY <1>1, <1>4 DEF Brought, Touches, Concerns, Flushed, Changers
<1>5. CASE q.op \notin Changers
  BY <1>5 DEF Brought, Changers
<1>. QED  BY <1>1, <1>2, <1>3, <1>4, <1>5 DEF Changers

\* Apart from a request, only a late one changes the remote.
LEMMA RemoteStays ==
  ASSUME NEW t \in Threads, Proceed(t), ~Ask(t)
  PROVE  UNCHANGED remote
BY DEF Proceed, Lock, Look, Put, Created, TargetSeen, Find, Enter, Uses, Waited, Marked, Seen, Drop, Close, Sent,
       Changed, Removed, OldSeen, DirectorySeen, IntoSeen, NewSeen, Renamed, FlushDirs, UnlockAgain, List, Listed,
       Reread, Quiet, daemonVars

\* What a listing says of p stays right as long as p neither comes nor goes.
LEMMA RightKept ==
  ASSUME DaemonInv, Shapes, IPCNext, NEW p \in Paths, p # <<>>, Right(p), There(p)' <=> There(p)
  PROVE  Right(p)'
<1>0. \A u \in Threads : Listing(u, p) => (p \in th[u].got <=> There(p)')
  BY DEF Right
<1>1. ASSUME NEW t \in Threads, \A u \in Threads \ {t} : Aside(th'[u], th[u]),
             Listing(t, p)' => (p \in th'[t].got <=> There(p)')
      PROVE  Right(p)'
  <2>1. ASSUME NEW u \in Threads \ {t} PROVE Listing(u, p)' => (p \in th'[u].got <=> There(p)')
    BY <1>0, <1>1 DEF Aside, AlikeCalls, Listing
  <2>2. \A u \in Threads : Listing(u, p)' => (p \in th'[u].got <=> There(p)')
    BY <1>1, <2>1
  <2>. QED  BY <2>2 DEF Right
<1>2. ASSUME NEW t \in Threads, NEW c \in Menu[fmode], Begin(t, c) PROVE Right(p)'
  <2>1. th'[t].pc # "heard"
    BY <1>2, BeginIs DEF BegunBy, BegunAs, RefusedAs
  <2>. QED  BY <1>1, <1>2, <2>1, BeginAside DEF Listing
<1>3. ASSUME NEW t \in Threads, Proceed(t) PROVE Right(p)'
  <2>0. Shape(th[t])
    BY DEF Shapes
  <2>1. CASE Fitting(t)
    <3>1. PICK q : Go(t, q) /\ Fits(th[t], q)
      BY <2>1 DEF Fitting
    <3>2. DOMAIN q = Fields /\ q.pc # "heard" /\ CallsAreRecords
      BY <3>1 DEF Fits, DaemonInv
    <3>3. \A u \in Threads \ {t} : Aside(th'[u], th[u])
      BY <3>1, <3>2, GoOthers
    <3>4. th'[t].pc # "heard"
      BY <3>1, <3>2, GoSelf
    <3>. QED  BY <1>1, <3>3, <3>4 DEF Listing
  <2>2. CASE Ask(t)
    <3>1. \A u \in Threads \ {t} : Aside(th'[u], th[u])
      BY <2>2, AskIs DEF Aside, AlikeCalls
    <3>2. ASSUME Listing(t, p)' PROVE p \in th'[t].got <=> There(p)'
      <4>1. /\ th[t].pc = "ask" /\ th[t].then = "listed" /\ th[t].path = Parent(p)
            /\ (th[t].req = "fs.list" => th'[t].got = Entries(th[t].arg))
        BY <2>2, <3>2, AskIs DEF Listing
      <4>2. th[t].req = "fs.list" /\ th[t].arg = Parent(p)
        BY <2>0, <4>1 DEF Shape
      <4>3. th'[t].got = Entries(Parent(p))
        BY <4>1, <4>2
      <4>. QED  BY <4>3 DEF Entries
    <3>. QED  BY <1>1, <3>1, <3>2
  <2>3. CASE Lock(t)
    <3>1. \A u \in Threads \ {t} : Aside(th'[u], th[u])
      BY <2>3, LockIs DEF Aside, AlikeCalls
    <3>2. th'[t].pc # "heard"
      BY <2>3, LockIs DEF LockedAs
    <3>. QED  BY <1>1, <3>1, <3>2 DEF Listing
  <2>4. CASE UNCHANGED th
    BY <1>0, <2>4 DEF Right, Listing
  <2>. QED  BY <1>3, <2>0, <2>1, <2>2, <2>3, <2>4, ProceedFits
<1>4. ASSUME NEW h \in Handles, Download(h) PROVE Right(p)'
  <2>1. UNCHANGED th
    BY <1>4 DEF Download, DownloadBegins, DownloadEnds, DownloadLost, callVars
  <2>. QED  BY <1>0, <2>1 DEF Right, Listing
<1>5. ASSUME NEW q, th' = Disturbed(q) PROVE Right(p)'
  <2>1. \A u \in Threads : Aside(th'[u], th[u])
    BY <1>5, DisturbedAside DEF DaemonInv
  <2>2. \A u \in Threads : Listing(u, p)' => (p \in th'[u].got <=> There(p)')
    BY <1>0, <2>1 DEF Aside, AlikeCalls, Listing
  <2>. QED  BY <2>2 DEF Right
<1>. QED  BY <1>2, <1>3, <1>4, <1>5 DEF IPCNext

\* What t's call has brought about before the step, unknown to nobody.
Before(t, p) == Effected(th[t]) /\ ~th[t].rival /\ ~th[t].raced /\ p \in Brought(th[t])

LEMMA BroughtAlike ==
  ASSUME NEW r, NEW s, r.op = s.op, r.path = s.path, r.to = s.to, r.then = s.then
  PROVE  Brought(r) = Brought(s)
BY DEF Brought

\* A call's request changes nothing but what is at or below the paths the call names.
LEMMA AskReaches ==
  ASSUME DaemonInv, IsRemote(remote), NEW u \in Threads, Shape(th[u]), Ask(u),
         NEW p \in Paths, remote'[p] # remote[p]
  PROVE  \E x \in Concerns(th[u]) : Below(p, x)
<1>. DEFINE r == Asked(th[u])
<1>1. th[u].pc = "ask" /\ (Served(r).after)[p] # remote[p]
  BY AskIs
<1>2. r.req = th[u].req /\ r.path = th[u].arg /\ r.to = th[u].to
  BY DEF Asked
<1>. HIDE DEF r
<1>3. /\ r.req \in Changes
      /\ \E x \in (IF r.req = "fs.rename" THEN Named(r.path, r.to) ELSE {r.path}) : Below(p, x)
  BY <1>1, ServedTouches
<1>4. th[u].arg = th[u].path /\ th[u].op \in Changers /\ (th[u].req = "fs.rename" => th[u].op = "rename")
  BY <1>1, <1>2, <1>3 DEF Shape
<1>5. CASE th[u].op = "rename"
  <2>1. Concerns(th[u]) = Named(th[u].path, th[u].to)
    BY <1>5 DEF Concerns
  <2>2. th[u].path \in Named(th[u].path, th[u].to)
    BY DEF Named
  <2>. QED  BY <1>2, <1>3, <1>4, <2>1, <2>2
<1>6. CASE th[u].op # "rename"
  <2>1. Concerns(th[u]) = {th[u].path}
    BY <1>4, <1>6 DEF Concerns, Changers
  <2>. QED  BY <1>2, <1>3, <1>4, <1>6, <2>1
<1>. QED  BY <1>5, <1>6

\* A call knows whoever changes what it has brought about, and was told in time of
\* every listing that might not say so.
LEMMA EffectsKept ==
  ASSUME DaemonInv, Clear, Shapes, ToldInv, IsRemote(remote), IPCNext,
         NEW t \in Threads, Effected(th'[t]), ~th'[t].rival, ~th'[t].raced, NEW p \in Brought(th'[t]), p \in Paths
  PROVE  Right(p)'
<1>0. p # <<>>
  BY BroughtIs
<1>1. ASSUME Before(t, p), There(p)' <=> There(p) PROVE Right(p)'
  BY <1>0, <1>1, RightKept DEF ToldInv, Before
<1>2. ASSUME AlikeCalls(th'[t], th[t]), th[t].rival => th'[t].rival, th'[t].raced = th[t].raced PROVE Before(t, p)
  <2>1. Effected(th[t]) /\ ~th[t].rival /\ ~th[t].raced
    BY <1>2 DEF Effected, AlikeCalls
  <2>2. Brought(th'[t]) = Brought(th[t])
    BY <1>2, BroughtAlike DEF AlikeCalls
  <2>. QED  BY <2>1, <2>2 DEF Before
<1>3. ASSUME UNCHANGED remote PROVE There(p)' <=> There(p)
  BY <1>3 DEF There
<1>4. ASSUME NEW u \in Threads, NEW c \in Menu[fmode], Begin(u, c) PROVE Right(p)'
  <2>1. UNCHANGED remote
    BY <1>4 DEF Begin, daemonVars
  <2>2. CASE t = u
    <3>1. ~Effected(th'[t])
      BY <1>4, <2>2, BeginIs DEF BegunBy, BegunAs, RefusedAs, Effected
    <3>. QED  BY <3>1
  <2>3. CASE t # u
    <3>1. AlikeCalls(th'[t], th[t])
      BY <1>4, <2>3, BeginAside DEF Aside
    <3>2. (th[t].rival => th'[t].rival) /\ th'[t].raced = th[t].raced
      BY <1>4, <2>3, BeginIs DEF BegunBy, BegunFrom, RefusedAs
    <3>. QED  BY <1>1, <1>2, <1>3, <2>1, <3>1, <3>2
  <2>. QED  BY <2>2, <2>3
<1>5. ASSUME NEW u \in Threads, Proceed(u) PROVE Right(p)'
  <2>0. Shape(th[u])
    BY DEF Shapes
  <2>1. CASE Ask(u)
    <3>1. CASE t = u
      <4>1. /\ ~Overtaken(u, th[u]) /\ th'[u].pc = "heard" /\ th'[u].op = th[u].op /\ th'[u].path = th[u].path
            /\ th'[u].to = th[u].to /\ th'[u].then = th[u].then
            /\ \A v \in Threads \ {u} : th'[v] = th[v]
        <5>1. th'[u].pc = "heard"
          BY <2>1, <3>1, AskIs DEF Effected
        <5>. QED  BY <2>1, <3>1, <5>1, AskIs
      <4>2. p \in Brought(th[u])
        BY <3>1, <4>1, BroughtAlike
      <4>3. th[u].op # "readdir" /\ Parent(p) \in Flushed(th[u])
        BY <4>2, BroughtIs DEF Changers
      <4>4. \A v \in Threads : ~Listing(v, p)'
        BY <4>1, <4>3 DEF Listing, Overtaken
      <4>. QED  BY <4>4 DEF Right
    <3>2. CASE t # u
      <4>1. /\ th'[t] = th[t] /\ th[u].pc = "ask"
            /\ UNCHANGED remote \/ remote' = Served(Asked(th[u])).after
        BY <2>1, <3>2, AskIs
      <4>2. Before(t, p)
        BY <1>2, <4>1 DEF AlikeCalls
      <4>3. ASSUME ~(There(p)' <=> There(p)) PROVE FALSE
        <5>5. Concerns(th[u]) \subseteq Touches(th[u])
          BY <4>1 DEF Touches
        <5>6. \E x \in Concerns(th[u]) : Below(p, x)
          BY <2>0, <2>1, <4>3, AskReaches DEF There
        <5>7. p \in Touches(th[t])
          BY <4>2, BroughtIs DEF Before, Effected
        <5>8. Meet(Touches(th[t]), Touches(th[u]))
          BY <5>5, <5>6, <5>7 DEF Meet
        <5>. QED  BY <3>2, <4>2, <5>8 DEF Clear, Before
      <4>. QED  BY <1>1, <4>2, <4>3
    <3>. QED  BY <3>1, <3>2
  <2>2. CASE Fitting(u) /\ ~Ask(u)
    <3>1. PICK q : Go(u, q) /\ Fits(th[u], q)
      BY <2>2 DEF Fitting
    <3>2. DOMAIN q = Fields /\ q.pc # "heard" /\ CallsAreRecords /\ Continues(th[u], q)
      BY <3>1 DEF Fits, DaemonInv
    <3>3. There(p)' <=> There(p)
      BY <1>3, <1>5, <2>2, RemoteStays
    <3>4. CASE t # u
      BY <1>1, <1>2, <3>1, <3>2, <3>3, <3>4, GoOthers DEF Aside, Alongside
    <3>5. CASE t = u
      <4>1. q.pc # "idle"
        BY <3>1, <3>2, <3>5, GoSelf DEF Effected
      <4>2. /\ th'[t].pc = q.pc /\ th'[t].op = q.op /\ th'[t].path = q.path /\ th'[t].to = q.to
            /\ Alongside(th'[t], q) /\ th'[t].then = q.then
        BY <3>1, <3>2, <3>5, <4>1, GoSelf
      <4>3. q.pc = "flush" /\ Brought(q) = Brought(th'[t])
        BY <3>2, <4>2, BroughtAlike DEF Effected
      <4>4. ~(q.op = "release" /\ q.then = "none")
        BY <4>3, BroughtIs
      <4>5. Effected(th[u]) /\ q.then = th[u].then /\ q.raced = th[u].raced
        BY <3>1, <4>3, <4>4 DEF Fits
      <4>6. /\ q.op = th[u].op /\ q.path = th[u].path /\ q.to = th[u].to /\ q.rival = th[u].rival
        BY <3>2 DEF Continues
      <4>7. Brought(q) = Brought(th[u])
        BY <4>5, <4>6, BroughtAlike
      <4>8. Before(t, p)
        BY <3>5, <4>2, <4>3, <4>5, <4>6, <4>7 DEF Before, Alongside
      <4>. QED  BY <1>1, <3>3, <4>8
    <3>. QED  BY <3>4, <3>5
  <2>3. CASE Lock(u) /\ ~Ask(u)
    <3>1. There(p)' <=> There(p)
      BY <1>3, <1>5, <2>3, RemoteStays
    <3>2. CASE t = u
      BY <2>3, <3>2, LockIs DEF LockedAs, Effected
    <3>3. CASE t # u
      BY <1>1, <1>2, <2>3, <3>1, <3>3, LockIs DEF AlikeCalls
    <3>. QED  BY <3>2, <3>3
  <2>4. CASE UNCHANGED th /\ ~Ask(u)
    <3>1. There(p)' <=> There(p)
      BY <1>3, <1>5, <2>4, RemoteStays
    <3>. QED  BY <1>1, <1>2, <2>4, <3>1 DEF AlikeCalls
  <2>. QED  BY <1>5, <2>0, <2>1, <2>2, <2>3, <2>4, ProceedFits
<1>6. ASSUME NEW h \in Handles, Download(h) PROVE Right(p)'
  <2>1. UNCHANGED <<th, remote>>
    BY <1>6 DEF Download, DownloadBegins, DownloadEnds, DownloadLost, callVars
  <2>. QED  BY <1>1, <1>2, <1>3, <2>1 DEF AlikeCalls
<1>7. ASSUME NEW q \in late, Late(q), th' = Disturbed(q) PROVE Right(p)'
  <2>. DEFINE paths == IF q.req = "fs.rename" THEN Named(q.path, q.to) ELSE {q.path}
  <2>1. th'[t] = IF Meet(paths, Touches(th[t])) THEN [th[t] EXCEPT !.rival = TRUE] ELSE th[t]
    BY <1>7 DEF Disturbed
  <2>2. DOMAIN th[t] = Fields
    BY AtHand
  <2>3. ~Meet(paths, Touches(th[t])) /\ th'[t] = th[t]
    <3>. HIDE DEF paths
    <3>1. [th[t] EXCEPT !.rival = TRUE].rival
      BY <2>2, FieldNames
    <3>. QED  BY <2>1, <3>1
  <2>4. Before(t, p)
    BY <1>2, <2>3 DEF AlikeCalls
  <2>5. p \in Touches(th[t])
    BY <2>4, BroughtIs DEF Before, Effected
  <2>6. UNCHANGED remote \/ remote' = Served(q).after
    BY <1>7 DEF Late
  <2>7. ASSUME ~(There(p)' <=> There(p)) PROVE FALSE
    <3>1. ~((Served(q).after)[p].kind # "none" <=> remote[p].kind # "none")
      BY <2>6, <2>7 DEF There
    <3>2. \E x \in paths : Below(p, x)
      BY <3>1, ServedTouches
    <3>. HIDE DEF paths
    <3>. QED  BY <2>3, <2>5, <3>2 DEF Meet
  <2>. QED  BY <1>1, <2>4, <2>7
<1>. QED  BY <1>4, <1>5, <1>6, <1>7 DEF IPCNext

\* Who tells has flushed the listings, and the listings change in these steps only.
LEMMA WhoTells ==
  ASSUME DaemonInv, Shapes, IPCNext
  PROVE  /\ \A t \in Threads : Tells(t) => FlushDirs(t)
         /\ UNCHANGED dirs \/ \E t \in Threads : FlushDirs(t) \/ Listed(t)
<1>1. ASSUME NEW u \in Threads, NEW c \in Menu[fmode], Begin(u, c)
      PROVE  UNCHANGED dirs /\ \A t \in Threads : ~Tells(t)
  <2>1. th[u].pc = "idle" /\ \A t \in Threads \ {u} : th'[t].pc = th[t].pc
    BY <1>1, BeginAside DEF Aside, AlikeCalls
  <2>2. UNCHANGED dirs
    BY <1>1 DEF Begin, Leave, Table
  <2>. QED  BY <2>1, <2>2 DEF Tells
<1>2. ASSUME NEW u \in Threads, Proceed(u)
      PROVE  /\ \A t \in Threads : Tells(t) => FlushDirs(t)
             /\ UNCHANGED dirs \/ FlushDirs(u) \/ Listed(u)
  <2>1. \A t \in Threads \ {u} : th'[t].pc = th[t].pc
    <3>1. CASE Fitting(u)
      <4>1. PICK q : Go(u, q) /\ Fits(th[u], q)
        BY <3>1 DEF Fitting
      <4>2. DOMAIN q = Fields /\ CallsAreRecords
        BY <4>1 DEF Fits, DaemonInv
      <4>. QED  BY <4>1, <4>2, GoOthers DEF Aside, AlikeCalls
    <3>2. CASE Ask(u)
      BY <3>2, AskIs
    <3>3. CASE Lock(u)
      BY <3>3, LockIs
    <3>4. CASE UNCHANGED th
      BY <3>4
    <3>. QED  BY <1>2, <3>1, <3>2, <3>3, <3>4, ProceedFits DEF Shapes
  <2>2. th[u].pc = "flush" => FlushDirs(u)
    BY <1>2 DEF Proceed, Ask, Lock, Look, Put, Created, TargetSeen, Find, Enter, Waited, Marked, Seen, Drop, Close,
         Sent, Changed, Removed, OldSeen, DirectorySeen, IntoSeen, NewSeen, Renamed, UnlockAgain,
         List, Listed, Reread, At, Heard
  <2>3. UNCHANGED dirs \/ FlushDirs(u) \/ Listed(u)
    BY <1>2 DEF Proceed, Ask, Lock, Look, Put, Created, TargetSeen, Find, Enter, Uses, Waited, Marked, Seen,
         Drop, Close, Sent, Changed, Removed, OldSeen, DirectorySeen, IntoSeen, NewSeen, Renamed, UnlockAgain,
         List, Reread, Leave, Table
  <2>. QED  BY <2>1, <2>2, <2>3 DEF Tells
<1>3. ASSUME NEW h \in Handles, Download(h) PROVE UNCHANGED dirs /\ \A t \in Threads : ~Tells(t)
  BY <1>3 DEF Download, DownloadBegins, DownloadEnds, DownloadLost, callVars, Tells
<1>4. ASSUME NEW q, th' = Disturbed(q), UNCHANGED dirs PROVE UNCHANGED dirs /\ \A t \in Threads : ~Tells(t)
  <2>1. \A u \in Threads : th'[u].pc = th[u].pc
    BY <1>4, DisturbedAside DEF DaemonInv, Aside, AlikeCalls
  <2>. QED  BY <1>4, <2>1 DEF Tells
<1>. QED  BY <1>1, <1>2, <1>3, <1>4 DEF IPCNext

LEMMA ToldNext ==
  ASSUME DaemonInv, Clear, Shapes, ToldInv, IsRemote(remote), IPCNext, Told, DaemonInv', LockInv'
  PROVE  ToldInv'
<1>. DEFINE brings(t, p) == FlushDirs(t) /\ Before(t, p)
<1>1. /\ \A p \in told' : /\ p \in Paths /\ (remote'[p].kind # "none" <=> remote[p].kind # "none")
                          /\ p \in told \/ \E t \in Threads : brings(t, p)
      /\ UNCHANGED dirs \/ \E t \in Threads : FlushDirs(t) \/ Listed(t)
  <2>1. \A p \in told' : /\ p \in Paths /\ (remote'[p].kind # "none" <=> remote[p].kind # "none")
                         /\ p \in told \/ \E t \in Threads : Tells(t) /\ p \in Brought(th[t])
    BY DEF Told
  <2>2. \A t \in Threads, p \in Paths : Tells(t) /\ p \in Brought(th[t]) => brings(t, p)
    BY WhoTells DEF Tells, Before, Effected
  <2>. QED  BY <2>1, <2>2, WhoTells
<1>2. ASSUME NEW p \in told' PROVE p # <<>> /\ Right(p)
  <2>1. ASSUME NEW t \in Threads, brings(t, p) PROVE p # <<>> /\ Right(p)
    BY <2>1, BroughtIs DEF ToldInv, Before
  <2>2. CASE p \in told
    BY <2>2 DEF ToldInv
  <2>. QED  BY <1>1, <2>1, <2>2
<1>3. ASSUME NEW p \in told' PROVE Right(p)'
  <2>1. p \in Paths /\ (There(p)' <=> There(p))
    BY <1>1 DEF There
  <2>. QED  BY <1>2, <2>1, RightKept
<1>4. ASSUME NEW p \in told', Parent(p) \in DOMAIN dirs'
      PROVE  p \in dirs'[Parent(p)] <=> There(p)'
  <2>1. p \in Paths /\ (There(p)' <=> There(p))
    BY <1>1 DEF There
  <2>2. ASSUME NEW t \in Threads, brings(t, p) PROVE FALSE
    <3>1. dirs' = DropListings(Flushed(th[t])) /\ Parent(p) \in Flushed(th[t])
      BY <2>2, BroughtIs DEF FlushDirs, Before
    <3>. QED  BY <1>4, <3>1 DEF DropListings
  <2>3. p \in told
    BY <1>1, <2>2
  <2>4. Parent(p) \in DOMAIN dirs => (p \in dirs[Parent(p)] <=> There(p))
    BY <2>3 DEF ToldInv, OwnChangesListed
  <2>5. CASE UNCHANGED dirs
    BY <1>4, <2>1, <2>4, <2>5
  <2>6. ASSUME NEW t \in Threads, FlushDirs(t) PROVE p \in dirs'[Parent(p)] <=> There(p)'
    <3>1. dirs' = DropListings(Flushed(th[t]))
      BY <2>6 DEF FlushDirs
    <3>2. Parent(p) \in DOMAIN dirs /\ dirs'[Parent(p)] = dirs[Parent(p)]
      BY <1>4, <3>1 DEF DropListings
    <3>. QED  BY <2>1, <2>4, <3>2
  <2>7. ASSUME NEW t \in Threads, Listed(t), ~UNCHANGED dirs PROVE p \in dirs'[Parent(p)] <=> There(p)'
    <3>1. dirs' = Store(th[t].path, th[t].got) /\ th[t].pc = "heard" /\ th[t].then = "listed"
      BY <2>7 DEF Listed, Heard, At
    <3>2. th[t].op = "readdir"
      BY <3>1 DEF Shapes, Shape
    <3>3. CASE Parent(p) = th[t].path
      <4>1. p \in th[t].got <=> There(p)
        BY <1>2, <3>1, <3>2, <3>3 DEF Right, Listing
      <4>2. dirs'[Parent(p)] = th[t].got
        BY <3>1, <3>3 DEF Store
      <4>. QED  BY <2>1, <4>1, <4>2
    <3>4. CASE Parent(p) # th[t].path
      <4>1. Parent(p) \in DOMAIN dirs /\ dirs'[Parent(p)] = dirs[Parent(p)]
        BY <1>4, <3>1, <3>4 DEF Store
      <4>. QED  BY <2>1, <2>4, <4>1
    <3>. QED  BY <3>3, <3>4
  <2>. QED  BY <1>1, <2>5, <2>6, <2>7
<1>5. ASSUME NEW t \in Threads, Effected(th'[t]), ~th'[t].rival, ~th'[t].raced, NEW p \in Brought(th'[t])
      PROVE  Right(p)'
  <2>1. th'[t].path \in Paths /\ th'[t].to \in Paths
    BY <1>5 DEF Effected, DaemonInv, LockInv
  <2>2. p \in Paths
    BY <1>5, <2>1 DEF Brought
  <2>. QED  BY <1>5, <2>2, EffectsKept
<1>. QED  BY <1>2, <1>3, <1>4, <1>5 DEF ToldInv, OwnChangesListed

\* The read-only mount brings nothing about.
MountListings ==
  /\ MountClear
  /\ front = "daemon" => Shapes /\ ToldInv
  /\ front = "direct" => told = {}

LEMMA InitListings == Init => MountListings
<1>. SUFFICES ASSUME Init PROVE MountListings
  OBVIOUS
<1>1. told = {} /\ \A t \in Threads : th[t].pc = "idle"
  BY DEF Init, Idle
<1>2. Shapes /\ ToldInv
  BY <1>1 DEF Shapes, Shape, ToldInv, OwnChangesListed, Effected
<1>. QED  BY <1>1, <1>2, InitClear DEF MountListings

LEMMA NextListings == MountListings /\ [Next]_vars => MountListings'
<1>. SUFFICES ASSUME MountListings, [Next]_vars PROVE MountListings'
  OBVIOUS
<1>0. MountClear' /\ front \in {"daemon", "direct"}
  BY NextClear DEF MountListings, MountClear, MountTyped, Fixed
<1>1. CASE front = "daemon" /\ IPCNext /\ Told /\ UNCHANGED front
  <2>1. /\ DaemonInv /\ Clear /\ Shapes /\ ToldInv /\ IsRemote(remote)
        /\ DaemonInv' /\ LockInv'
    BY <1>0, <1>1 DEF MountListings, MountClear, MountTyped, MountWaits, MountNames, MountLocks, IPCMountInv, Daemons
  <2>. QED  BY <1>0, <1>1, <2>1, ShapesNext, ToldNext DEF MountListings
<1>2. CASE front = "direct" /\ Told /\ UNCHANGED front
  <2>1. \A t \in Threads : th[t].pc # "flush"
    BY <1>2 DEF MountListings, MountClear, MountTyped, MountWaits, MountInv, DirectInvMore, Elsewhere
  <2>2. told' = {}
    BY <1>2, <2>1 DEF Told, Tells, MountListings
  <2>. QED  BY <1>0, <1>2, <2>2 DEF MountListings
<1>3. CASE UNCHANGED vars
  <2>1. UNCHANGED <<th, front, told, dirs, remote>>
    BY <1>3 DEF vars, callVars, daemonVars
  <2>2. front = "daemon" => Shapes'
    BY <2>1 DEF MountListings, Shapes, Shape
  <2>3. front = "daemon" => ToldInv'
    BY <2>1 DEF MountListings, ToldInv, OwnChangesListed, Right, Listing, There, Effected, Brought
  <2>. QED  BY <1>0, <2>1, <2>2, <2>3 DEF MountListings
<1>. QED  BY <1>0, <1>1, <1>2, <1>3 DEF Next

LEMMA MountListingsHold == Spec => []MountListings
BY InitListings, NextListings, PTL DEF Spec

\* Whatever calls, renames and failures go on, once a call that met no rival has reported
\* its change, no cached listing contradicts it until it is changed again
\* (ipcfs.go flushDirCacheFor and its callers, Readdir).
THEOREM OwnChangesAreListed == Spec => []OwnChangesListed
<1>1. MountListings => OwnChangesListed
  BY DEF MountListings, MountClear, MountTyped, Fixed, ToldInv, OwnChangesListed
<1>. QED  BY <1>1, MountListingsHold, PTL
-----------------------------------------------------------------------------
(***************************************************************************)
(* Where what a session has written is, in every step of its calls.        *)
(***************************************************************************)

\* Who writes has a session to write in, and has opened it to write.
Writing(q) ==
  /\ q.writes => q.sess # NoPath
  /\ q.wrote => q.writes
  /\ q.pc # "idle" /\ q.op = "write" => q.writes
Writings == \A t \in Threads : Writing(th[t])

\* A restricted mount unlocks only what it has locked.
Unlocking == fmode # FullyWritable => fault # "stolen" /\ \A t \in Threads : th[t].pc # "unlock"

\* Calls that change a handle's text or send it.
Handlers == {"write", "truncate", "release"}
Alone(t, h) == \A u \in Threads \ {t} : th[u].h = h => th[u].op \notin Handlers

\* A staged file not sent yet, which holds what t has written.
Bright(t, h) ==
  /\ h \in Handles /\ handle[h].staged /\ ~handle[h].committed
  /\ th[t].wrote => t \in handle[h].text

\* The entry of path p is t's alone.
Staged(t, p) == Bright(t, files[p]) /\ Alone(t, files[p]) /\ ~IsDir(p)

\* How far a call in a session that may write, q, can have come in the copy-upload mode.
Requested(q) == q.pc \in {"ask", "heard"}
Way(q) ==
  CASE q.op \in {"read", "write", "truncate", "flush"} -> q.pc \in {"find", "enter", "wait"}
    [] q.op = "unlink" -> q.pc \in {"lock", "flush"} \/ (Requested(q) /\ q.then = "removed")
    [] q.op = "rename" -> q.pc = "flush" \/ (Requested(q) /\ q.then \in {"old", "into", "new", "renamed"})
    [] q.op = "release" -> q.pc \in {"drop", "close", "flush"} \/ (Requested(q) /\ q.then = "sent")
    [] OTHER -> FALSE

\* The entry of the session's file is gone from the table, or goes by its new name.
Gone(q) ==
  \/ q.op = "unlink" /\ q.pc = "flush"
  \/ q.op = "release" /\ q.pc \in {"close", "ask", "heard", "flush"}
Where(q) == IF q.op = "rename" /\ q.pc = "flush" THEN q.to ELSE q.sess

InSess(t) ==
  LET q == th[t] IN
  /\ q.pc # "idle" => q.path = q.sess /\ Way(q)
  /\ ~Gone(q) => Staged(t, Where(q))
  /\ q.pc \in {"enter", "wait"} => q.h = files[q.sess]

\* A rename leads to another path, of something that is no directory.
Renaming(t) ==
  LET q == th[t] IN
  q.op = "rename" =>
    /\ Requested(q) /\ q.then # "old" => q.path # q.to
    /\ q.pc = "ask" /\ q.then = "old" => q.arg = q.path
    /\ q.pc = "heard" /\ q.then = "old" /\ q.good => ~q.isdir
    /\ q.pc = "ask" /\ q.then = "renamed" => q.req = "fs.rename"
    /\ q.pc = "heard" /\ q.then = "renamed" /\ q.good => ~IsDir(q.to)

\* A release has the handle to itself until the text is at the remote.
Releasing(t) ==
  LET q == th[t] IN
  q.op = "release" =>
    /\ q.pc \in {"close", "ask"} => /\ q.h \in Handles /\ Alone(t, q.h) /\ \A p \in Paths : files[p] # q.h
                                    /\ q.wrote => t \in handle[q.h].text
    /\ q.pc = "close" => Bright(t, q.h)
    /\ q.pc = "ask" => q.req = "fs.uploadStaged"
    /\ (q.pc = "heard" /\ q.good) \/ q.pc = "flush" => (q.wrote => t \in remote[q.path].text)

Session(t) == InSess(t) /\ Renaming(t) /\ Releasing(t)

\* A call that makes a session that may write.
Opening(t) ==
  LET q == th[t] IN
  /\ q.sess = NoPath /\ ~IsDir(q.path)
  /\ q.pc = "lock" \/ (Requested(q) /\ q.then = "target")

Makes(q) == q.pc # "idle" /\ q.op \in OpensToWrite
Account(t) == ~th[t].rival => (th[t].writes => Session(t)) /\ (Makes(th[t]) => Opening(t))
Accounts == fmode = 8 /\ dmode = 8 /\ fault = "none" => \A t \in Threads : Account(t)
-----------------------------------------------------------------------------
\* Whatever is above something that is there is there, too.
LEMMA AboveIsThere ==
  ASSUME IsRemote(remote), NEW p \in Paths, There(p), NEW x \in Seq(Names), Below(p, x)
  PROVE  There(x)
<1>1. p \in Seq(Names) /\ Len(p) \in Nat /\ Len(x) \in Nat /\ Len(x) <= Len(p) /\ Prefix(p, Len(x)) = x
  BY PathsAre, LenProperties DEF Below
<1>. DEFINE S == {n \in Len(x)..Len(p) : Prefix(p, n) \in Paths /\ There(Prefix(p, n))}
            f == [n \in S |-> -n]
<1>2. Prefix(p, Len(p)) = p
  <2>1. \A i \in 1..Len(p) : p[i] \in Names
    BY <1>1, ElementOfSeq
  <2>2. /\ SubSeq(p, 1, Len(p)) \in Seq(Names) /\ Len(SubSeq(p, 1, Len(p))) = Len(p)
        /\ \A i \in 1..Len(p) : SubSeq(p, 1, Len(p))[i] = p[i]
    BY <1>1, <2>1, SubSeqProperties
  <2>. QED  BY <1>1, <2>2, SeqEqual DEF Prefix
<1>3. ASSUME NEW n \in Len(x)..Len(p), n > Len(x), Prefix(p, n) \in Paths, There(Prefix(p, n))
      PROVE  Prefix(p, n - 1) \in Paths /\ There(Prefix(p, n - 1))
  <2>. DEFINE r == Prefix(p, n)
  <2>1. \A i \in 1..n : p[i] \in Names
    BY <1>1, ElementOfSeq
  <2>2. /\ r \in Seq(Names) /\ Len(r) = n /\ \A i \in 1..n : r[i] = p[i]
        /\ r \in Paths /\ There(r)
    BY <1>1, <1>3, <2>1, SubSeqProperties DEF Prefix
  <2>3. /\ Prefix(p, n - 1) \in Seq(Names) /\ Len(Prefix(p, n - 1)) = n - 1
        /\ \A i \in 1..n - 1 : Prefix(p, n - 1)[i] = p[i]
    BY <1>1, <1>3, <2>1, SubSeqProperties DEF Prefix
  <2>. HIDE DEF r
  <2>4. r # <<>>
    BY <1>1, <1>3, <2>2
  <2>5. Parent(r) \in Seq(Names) /\ Len(Parent(r)) = n - 1 /\ \A i \in 1..n - 1 : Parent(r)[i] = r[i]
    BY <2>2, <2>4, ParentIs
  <2>6. Parent(r) = Prefix(p, n - 1)
    <3>1. ASSUME NEW i \in 1..n - 1 PROVE Parent(r)[i] = Prefix(p, n - 1)[i]
      <4>1. i \in 1..n
        BY <1>1, <3>1
      <4>. QED  BY <2>2, <2>3, <2>5, <3>1, <4>1
    <3>. QED  BY <2>3, <2>5, <3>1, SeqEqual
  <2>7. There(Parent(r)) /\ Parent(r) \in Paths
    BY <2>2, PathsAre DEF IsRemote, There
  <2>. QED  BY <2>6, <2>7 DEF r
<1>4. SUFFICES ASSUME ~There(x) PROVE FALSE
  OBVIOUS
<1>5. ASSUME NEW n \in S PROVE n - 1 \in S /\ f[n] < f[n - 1]
  <2>1. n \in Len(x)..Len(p) /\ n # Len(x) /\ n > Len(x)
    BY <1>1, <1>4, <1>5
  <2>2. n - 1 \in S
    BY <1>1, <1>3, <1>5, <2>1
  <2>. QED  BY <1>1, <2>1, <2>2
<1>6. IsFiniteSet(S)
  <2>1. IsFiniteSet(Len(x)..Len(p))
    BY <1>1, FS_Interval
  <2>. QED  BY <2>1, FS_Subset
<1>7. \A n \in S : f[n] \in Int
  BY <1>1
<1>8. Len(p) \in S
  BY <1>1, <1>2
<1>. HIDE DEF S, f
<1>9. \A n \in S : \E m \in S : f[n] < f[m]
  BY <1>5
<1>. QED  BY <1>6, <1>7, <1>8, <1>9, NoEndlessRise

\* No request but fs.mkdir makes a directory of the path it names.
LEMMA NoDirectoryMade ==
  ASSUME IsRemote(remote), NEW r, r.path \in Paths, r.req # "fs.mkdir", ~IsDir(r.path)
  PROVE  (Served(r).after)[r.path].kind # "dir"
<1>1. remote = [p \in Paths |-> remote[p]] /\ r.path \in Seq(Names) /\ Below(r.path, r.path)
  BY PathsAre, PathFacts DEF IsRemote
<1>2. CASE Served(r).after = remote
  BY <1>2 DEF IsDir
<1>3. CASE Served(r).after # remote /\ r.req = "fs.remove"
  <2>1. Served(r).after = Without(r.path)
    BY <1>3 DEF Served, Only, Done, Failed
  <2>. QED  BY <1>1, <2>1 DEF Without, Nothing
<1>4. CASE Served(r).after # remote /\ r.req = "fs.uploadStaged"
  <2>1. Served(r).after = WithNode(r.path, File(r.text))
    BY <1>4 DEF Served, Only, Done, Failed
  <2>. QED  BY <1>1, <2>1 DEF WithNode, File
<1>5. CASE Served(r).after # remote /\ r.req = "fs.rename"
  <2>. DEFINE new == RenamesTo(r)
  <2>1. /\ Served(r).after = MovedTo(r.path, new) /\ new \in Paths /\ There(r.path)
        /\ ~There(new)
    BY <1>5 DEF Served, Only, Done, Failed, CanRename
  <2>. HIDE DEF new
  <2>2. ~Below(r.path, new)
    BY <2>1, AboveIsThere, PathsAre
  <2>. QED  BY <1>1, <2>1, <2>2 DEF MovedTo, Nothing
<1>6. CASE Served(r).after # remote /\ r.req \notin {"fs.remove", "fs.uploadStaged", "fs.rename"}
  <2>1. Served(r).after = remote
    BY <1>6 DEF Served, Only, Done, Failed
  <2>. QED  BY <1>6, <2>1
<1>. QED  BY <1>2, <1>3, <1>4, <1>5, <1>6
-----------------------------------------------------------------------------
(***************************************************************************)
(* What a step of another's call does to the table and to the handles.     *)
(***************************************************************************)
SameText(h) ==
  /\ handle'[h].staged = handle[h].staged /\ handle'[h].committed = handle[h].committed
  /\ handle'[h].text = handle[h].text
HandleSteady(u, h) == SameText(h) \/ (th[u].h = h /\ th[u].op \in Handlers)

LEMMA FieldChanged ==
  ASSUME DaemonInv, NEW g, NEW f \in {"dl", "again", "dirty", "disk", "path"}, NEW x, handle' = [handle EXCEPT ![g][f] = x]
  PROVE  \A h \in Handles : SameText(h)
<1>1. ASSUME NEW h \in Handles PROVE SameText(h)
  <2>1. DOMAIN handle[h] = DOMAIN NewHandle
    BY <1>1 DEF DaemonInv, HandlesAreRecords
  <2>2. handle'[h] = handle[h] \/ handle'[h] = [handle[h] EXCEPT ![f] = x]
    BY <1>1 DEF DaemonInv, HandlesAreRecords
  <2>. QED  BY <2>1, <2>2, HandleFields DEF SameText
<1>. QED  BY <1>1

\* The paths at which u's step changes the table are those u has to do with, and no
\* handle comes into it that somebody has in hand.
TableOf(u) ==
  /\ \A p \in Paths : files'[p] # files[p] => p \in Concerns(th[u])
  /\ \A p \in Paths : files'[p] \in {None} \union Unused \union InTable
  /\ \A h \in Handles \ Unused : HandleSteady(u, h)

LEMMA TableStays ==
  ASSUME DaemonInv, UNCHANGED files, NEW u, \A h \in Handles \ Unused : HandleSteady(u, h)
  PROVE  TableOf(u)
BY DEF TableOf, InTable

LEMMA EntryMade ==
  ASSUME DaemonInv, NEW u, NEW h \in Unused, NEW new, NEW p, p \in Concerns(th[u]),
         files' = [files EXCEPT ![p] = h], handle' = [handle EXCEPT ![h] = new]
  PROVE  TableOf(u)
<1>1. \A x \in Paths : files'[x] = IF x = p THEN h ELSE files[x]
  BY DEF DaemonInv, HandlesAreRecords
<1>2. \A g \in Handles : g # h => handle'[g] = handle[g]
  BY DEF DaemonInv, HandlesAreRecords
<1>3. \A g \in Handles \ Unused : SameText(g)
  BY <1>2 DEF SameText
<1>. QED  BY <1>1, <1>3 DEF TableOf, InTable, HandleSteady

LEMMA EntryGone ==
  ASSUME DaemonInv, NEW u, NEW p, p \in Concerns(th[u]), files' = [files EXCEPT ![p] = None], UNCHANGED handle
  PROVE  TableOf(u)
<1>1. \A x \in Paths : files'[x] = IF x = p THEN None ELSE files[x]
  BY DEF DaemonInv, HandlesAreRecords
<1>. QED  BY <1>1 DEF TableOf, InTable, HandleSteady, SameText

LEMMA OtherTable ==
  ASSUME DaemonInv, Shapes, fmode = 8, NEW u \in Threads, Proceed(u)
  PROVE  TableOf(u)
<1>0. /\ DOMAIN th[u] = Fields /\ Lawful(fmode, th[u]) /\ Shape(th[u]) /\ fmode # FullyWritable
      /\ th[u].op \notin {"getattr", "readdir"} => th[u].path \in Concerns(th[u])
      /\ th[u].op = "rename" => th[u].to \in Concerns(th[u])
  BY AtHand DEF Shapes, Concerns, Named, FullyWritable
<1>1. UNCHANGED <<files, handle>> => TableOf(u)
  BY TableStays DEF HandleSteady, SameText
<1>2. ASSUME NEW g, NEW f \in {"dl", "again", "dirty", "disk", "path"}, NEW x,
             UNCHANGED files, handle' = [handle EXCEPT ![g][f] = x]
      PROVE  TableOf(u)
  BY <1>2, FieldChanged, TableStays DEF HandleSteady
<1>3. CASE Look(u)
  <2>1. \/ UNCHANGED <<files, handle>>
        \/ UNCHANGED files /\ handle' = [handle EXCEPT ![files[th[u].path]].dirty = TRUE]
    BY <1>3 DEF Look, Leave, Table
  <2>. QED  BY <1>1, <1>2, <2>1
<1>4. CASE Put(u)
  <2>1. ~Writes(th[u]) /\ th[u].op \notin {"getattr", "readdir"}
    BY <1>0, <1>4 DEF Put, At, Lawful, Writes, Shape
  <2>2. \E h \in Unused : \E new :
           files' = [files EXCEPT ![th[u].path] = h] /\ handle' = [handle EXCEPT ![h] = new]
    BY <1>4, <2>1 DEF Put, Table
  <2>. QED  BY <1>0, <2>1, <2>2, EntryMade
<1>5. CASE Created(u)
  BY <1>0, <1>5 DEF Created, Heard, At, Lawful
<1>6. CASE TargetSeen(u)
  <2>1. th[u].op \in {"openw", "create"}
    BY <1>0, <1>6 DEF TargetSeen, Heard, At, Shape, OpensToWrite
  <2>2. \/ UNCHANGED <<files, handle>>
        \/ \E h \in Unused : \E new :
              files' = [files EXCEPT ![th[u].path] = h] /\ handle' = [handle EXCEPT ![h] = new]
    BY <1>6 DEF TargetSeen, Leave, Table
  <2>. QED  BY <1>0, <1>1, <2>1, <2>2, EntryMade
<1>7. CASE Enter(u)
  <2>. DEFINE text(old) == IF th[u].op = "write" THEN old \union {u} ELSE {}
  <2>1. \/ UNCHANGED <<files, handle>>
        \/ th[u].op \in {"write", "truncate"} /\ UNCHANGED files /\ handle' = [handle EXCEPT ![th[u].h].text = text(@)]
        \/ UNCHANGED files /\ handle' = [handle EXCEPT ![th[u].h].dirty = TRUE]
    BY <1>7 DEF Enter, Uses, Leave, Table
  <2>. HIDE DEF text
  <2>2. CASE th[u].op \in {"write", "truncate"} /\ UNCHANGED files /\ handle' = [handle EXCEPT ![th[u].h].text = text(@)]
    <3>1. \A h \in Handles : h # th[u].h => handle'[h] = handle[h]
      BY <2>2 DEF DaemonInv, HandlesAreRecords
    <3>2. \A h \in Handles : HandleSteady(u, h)
      BY <2>2, <3>1 DEF HandleSteady, SameText, Handlers
    <3>. QED  BY <2>2, <3>2, TableStays
  <2>. QED  BY <1>1, <1>2, <2>1, <2>2
<1>8. CASE Marked(u)
  <2>1. \/ UNCHANGED <<files, handle>>
        \/ UNCHANGED files /\ handle' = [handle EXCEPT ![th[u].h].dirty = FALSE]
    BY <1>8 DEF Marked, Table
  <2>. QED  BY <1>1, <1>2, <2>1
<1>9. CASE Close(u)
  <2>1. \/ UNCHANGED <<files, handle>>
        \/ UNCHANGED files /\ handle' = [handle EXCEPT ![th[u].h].committed = TRUE]
    BY <1>9 DEF Close, Leave, Table
  <2>2. th[u].op = "release"
    BY <1>0, <1>9 DEF Close, At, Shape
  <2>3. CASE UNCHANGED files /\ handle' = [handle EXCEPT ![th[u].h].committed = TRUE]
    <3>1. \A h \in Handles : h # th[u].h => handle'[h] = handle[h]
      BY <2>3 DEF DaemonInv, HandlesAreRecords
    <3>2. \A h \in Handles : HandleSteady(u, h)
      BY <2>2, <3>1 DEF HandleSteady, SameText, Handlers
    <3>. QED  BY <2>3, <3>2, TableStays
  <2>. QED  BY <1>1, <2>1, <2>3
<1>10. CASE Sent(u)
  <2>1. UNCHANGED files /\ handle' = [handle EXCEPT ![th[u].h].disk = FALSE]
    BY <1>10 DEF Sent, Table
  <2>. QED  BY <1>2, <2>1
<1>11. CASE Drop(u)
  <2>1. th[u].op = "release" /\ files' = [files EXCEPT ![th[u].path] = None] /\ UNCHANGED handle
    BY <1>0, <1>11 DEF Drop, At, Shape, Table
  <2>. QED  BY <1>0, <2>1, EntryGone
<1>12. CASE Removed(u)
  <2>1. \/ UNCHANGED <<files, handle>>
        \/ th[u].op = "unlink" /\ files' = [files EXCEPT ![th[u].path] = None] /\ UNCHANGED handle
    BY <1>12 DEF Removed, Table
  <2>. QED  BY <1>0, <1>1, <2>1, EntryGone
<1>13. CASE Renamed(u)
  <2>1. \/ UNCHANGED <<files, handle>>
        \/ files' = EntryMoved(th[u]) /\ handle' = [handle EXCEPT ![files[th[u].path]].path = th[u].to]
    BY <1>13 DEF Renamed, Leave, Table
  <2>2. CASE files' = EntryMoved(th[u]) /\ handle' = [handle EXCEPT ![files[th[u].path]].path = th[u].to]
    <3>1. th[u].op = "rename" /\ th[u].path \in Paths
      BY <1>0, <1>13, AtHand DEF Renamed, Heard, At, Shape, DaemonInv
    <3>2. \A p \in Paths : files'[p] = IF p = th[u].path THEN None
                                       ELSE IF p = th[u].to THEN files[th[u].path] ELSE files[p]
      BY <2>2, <3>1 DEF EntryMoved, DaemonInv, HandlesAreRecords
    <3>3. \A h \in Handles : SameText(h)
      BY <2>2, FieldChanged
    <3>4. \A p \in Paths : files'[p] # files[p] => p \in Concerns(th[u])
      BY <1>0, <3>1, <3>2
    <3>5. \A p \in Paths : files'[p] \in {None} \union InTable
      BY <3>1, <3>2 DEF InTable
    <3>. QED  BY <3>3, <3>4, <3>5 DEF TableOf, HandleSteady
  <2>. QED  BY <1>1, <2>1, <2>2
<1>14. ASSUME \/ Ask(u) \/ Lock(u) \/ Find(u) \/ Waited(u) \/ Seen(u) \/ Changed(u) \/ OldSeen(u) \/ DirectorySeen(u)
              \/ IntoSeen(u) \/ NewSeen(u) \/ UnlockAgain(u) \/ (\E e \in Expired : List(u, e)) \/ Reread(u)
              \/ FlushDirs(u) \/ Listed(u)
       PROVE  TableOf(u)
  <2>1. UNCHANGED <<files, handle>>
    BY <1>14 DEF Ask, Lock, Find, Waited, Seen, Changed, OldSeen, DirectorySeen, IntoSeen, NewSeen, UnlockAgain, List,
                 Reread, FlushDirs, Listed, Leave, Table
  <2>. QED  BY <1>1, <2>1
<1>. QED  BY <1>3, <1>4, <1>5, <1>6, <1>7, <1>8, <1>9, <1>10, <1>11, <1>12, <1>13, <1>14 DEF Proceed
-----------------------------------------------------------------------------
(***************************************************************************)
(* Steps of others do not touch the file of a session that knows no rival. *)
(***************************************************************************)
Alike(r, s) == Aside(r, s) /\ Alongside(r, s) /\ r.sess = s.sess

\* Every entry of handle h in the table is at a path of t's.
Near2(t, h) == \A p \in Paths : files[p] = h => p \in Touches(th[t])

Untouched(t) ==
  /\ Alike(th'[t], th[t])
  /\ \A p \in Paths : p \in Touches(th[t]) => files'[p] = files[p] /\ remote'[p] = remote[p]
  /\ \A h \in Handles \ Unused : Alone(t, h) /\ Near2(t, h) => SameText(h) /\ Alone(t, h)'
  /\ \A p \in Paths : files'[p] \in {None} \union Unused \union InTable

LEMMA AwayFrom ==
  ASSUME Clear, NEW t \in Threads, NEW u \in Threads \ {t}, ~th[t].rival,
         NEW x \in Touches(th[t]), NEW y \in Touches(th[u])
  PROVE  ~Below(x, y) /\ ~Below(y, x) /\ (x \in Paths => x # y)
<1>1. ~Below(x, y) /\ ~Below(y, x)
  BY DEF Clear, Meet
<1>. QED  BY <1>1, PathFacts, PathsAre

\* Who goes on has a call under way.
LEMMA ProceedBusy ==
  ASSUME NEW u \in Threads, Proceed(u)
  PROVE  th[u].pc # "idle" /\ ~Dead
BY DEF Proceed, Ask, Lock, Look, Put, Created, TargetSeen, Find, Enter, Waited, Marked, Seen, Drop, Close, Sent, Changed,
       Removed, OldSeen, DirectorySeen, IntoSeen, NewSeen, Renamed, FlushDirs, UnlockAgain, List, Listed, Reread, At, Heard

\* The handle somebody goes on with is the one it had, or comes from its entry.
LEMMA HandNext ==
  ASSUME DaemonInv, Shapes, NEW u \in Threads, Proceed(u), NEW h \in Handles, th'[u].h = h
  PROVE  /\ th'[u].op = th[u].op
         /\ th[u].h = h \/ (files[th[u].path] = h /\ th[u].path \in Paths /\ th[u].pc # "idle")
<1>0. h # None /\ CallsAreRecords
  BY IPCAssumption DEF None, DaemonInv
<1>1. ASSUME NEW q, Go(u, q), Continues(th[u], q) PROVE th'[u].op = th[u].op /\ th'[u].h \in {None, th[u].h, files[th[u].path]}
  <2>0. DOMAIN q = Fields
    BY <1>1 DEF Continues
  <2>1. q.pc # "idle"
    BY <1>0, <1>1, <2>0, GoAside DEF Blank
  <2>. QED  BY <1>0, <1>1, <2>0, <2>1, GoSelf DEF Continues
<1>2. th'[u].op = th[u].op /\ th'[u].h \in {None, th[u].h, files[th[u].path]}
  <2>1. CASE GoesOn(u)
    BY <1>1, <2>1 DEF GoesOn
  <2>2. CASE Lock(u)
    BY <2>2, LockIs
  <2>. QED  BY <2>1, <2>2, ProceedGoesOn
<1>3. th[u].pc # "idle"
  BY ProceedBusy
<1>. QED  BY <1>0, <1>2, <1>3 DEF DaemonInv

LEMMA OtherAlike ==
  ASSUME DaemonInv, Clear, Shapes, NEW t \in Threads, NEW u \in Threads \ {t}, Proceed(u), ~th[t].rival
  PROVE  /\ Alike(th'[t], th[t]) /\ \A v \in Threads \ {u} : Aside(th'[v], th[v])
<1>1. th[u].pc # "idle" /\ CallsAreRecords
  BY ProceedBusy DEF DaemonInv
<1>2. CASE Fitting(u)
  <2>1. PICK q : Go(u, q) /\ DOMAIN q = Fields /\ q.op = th[u].op /\ q.path = th[u].path
    BY <1>2 DEF Fitting, Fits, Continues
  <2>2. \A v \in Threads \ {u} : Aside(th'[v], th[v]) /\ Alongside(th'[v], th[v])
    BY <1>1, <2>1, GoOthers
  <2>3. th'[t] = th[t] \/ th'[t].sess = Followed(q, th[t].sess)
    BY <1>1, <2>1, GoOthers
  <2>4. ~Follows(q, th[t].sess)
    <3>1. SUFFICES ASSUME Follows(q, th[t].sess) PROVE FALSE
      OBVIOUS
    <3>2. th[u].path \in Touches(th[u])
      BY <1>1, <2>1, <3>1 DEF Follows, Touches, Concerns, Named
    <3>3. th[t].sess \in Touches(th[t])
      BY <3>1 DEF Follows, Touches
    <3>. QED  BY <2>1, <3>1, <3>2, <3>3, AwayFrom DEF Follows
  <2>. QED  BY <2>2, <2>3, <2>4 DEF Followed, Alike
<1>3. CASE Ask(u)
  BY <1>3, AskIs DEF Alike, Aside, AlikeCalls, Alongside
<1>4. CASE Lock(u)
  BY <1>4, LockIs DEF Alike, Aside, AlikeCalls, Alongside
<1>5. CASE UNCHANGED th
  BY <1>5 DEF Alike, Aside, AlikeCalls, Alongside
<1>. QED  BY <1>2, <1>3, <1>4, <1>5, ProceedFits DEF Shapes

LEMMA OtherProceeds ==
  ASSUME DaemonInv, Clear, Shapes, IsRemote(remote), fmode = 8, NEW t \in Threads, NEW u \in Threads \ {t}, Proceed(u),
         ~th[t].rival
  PROVE  Untouched(t)
<1>1. th[u].pc # "idle" /\ Concerns(th[u]) \subseteq Touches(th[u]) /\ TableOf(u)
  BY ProceedBusy, OtherTable DEF Touches
<1>2. \A p \in Paths : p \in Touches(th[t]) => p \notin Concerns(th[u])
  BY <1>1, AwayFrom
<1>3. ASSUME NEW p \in Paths, p \in Touches(th[t]) PROVE files'[p] = files[p] /\ remote'[p] = remote[p]
  <2>1. files'[p] = files[p]
    BY <1>1, <1>2, <1>3 DEF TableOf
  <2>2. ASSUME remote'[p] # remote[p] PROVE FALSE
    <3>1. Ask(u)
      BY <2>2, RemoteStays
    <3>2. PICK x \in Concerns(th[u]) : Below(p, x)
      BY <2>2, <3>1, AskReaches DEF Shapes
    <3>. QED  BY <1>1, <1>3, <3>2, AwayFrom
  <2>. QED  BY <2>1, <2>2
<1>4. ASSUME NEW h \in Handles \ Unused, Alone(t, h), Near2(t, h) PROVE SameText(h) /\ Alone(t, h)'
  <2>1. SameText(h)
    BY <1>1, <1>4 DEF TableOf, HandleSteady, Alone
  <2>2. ASSUME NEW v \in Threads \ {t}, th'[v].h = h, th'[v].op \in Handlers PROVE FALSE
    <3>1. CASE v # u
      BY <1>4, <2>2, <3>1, OtherAlike DEF Alone, Aside, AlikeCalls
    <3>2. CASE v = u
      <4>1. th[u].op \in Handlers /\ (th[u].h = h \/ (files[th[u].path] = h /\ th[u].path \in Paths))
        BY <1>4, <2>2, <3>2, HandNext
      <4>2. th[u].path \in Concerns(th[u])
        BY <4>1 DEF Concerns, Handlers
      <4>. QED  BY <1>2, <1>4, <4>1, <4>2 DEF Alone, Near2
    <3>. QED  BY <3>1, <3>2
  <2>. QED  BY <2>1, <2>2 DEF Alone
<1>. QED  BY <1>1, <1>3, <1>4, OtherAlike DEF Untouched, TableOf

\* The table, the remote and the handles as they are.
LEMMA NothingTouched ==
  ASSUME NEW t \in Threads, Alike(th'[t], th[t]), UNCHANGED <<files, handle>>,
         \A p \in Paths : p \in Touches(th[t]) => remote'[p] = remote[p],
         \A v \in Threads \ {t} : \A h \in Handles :
           th'[v].h = h /\ th'[v].op \in Handlers => th[v].h = h /\ th[v].op \in Handlers
  PROVE  Untouched(t)
<1>1. \A h \in Handles : Alone(t, h) => SameText(h) /\ Alone(t, h)'
  BY DEF Alone, SameText
<1>. QED  BY <1>1 DEF Untouched, InTable

LEMMA OtherBegins ==
  ASSUME DaemonInv, NEW t \in Threads, NEW u \in Threads \ {t}, NEW c \in Menu[fmode], Begin(u, c), ~th'[t].rival
  PROVE  Untouched(t)
<1>0. /\ UNCHANGED <<files, handle, remote>> /\ DOMAIN th[u] = Fields
      /\ \A h \in Handles : h # None
  BY AtHand, IPCAssumption DEF Begin, Leave, Table, daemonVars, None
<1>1. /\ \A v \in Threads \ {u} : Aside(th'[v], th[v])
      /\ Begun(th'[u], c) \/ Aside(th'[u], [th[u] EXCEPT !.good = FALSE])
  BY BeginAside
<1>2. Alike(th'[t], th[t])
  BY <1>1, BeginIs DEF BegunBy, BegunFrom, RefusedAs, Alike, Alongside
<1>3. ASSUME NEW v \in Threads \ {t}, NEW h \in Handles, th'[v].h = h, th'[v].op \in Handlers
      PROVE  th[v].h = h /\ th[v].op \in Handlers
  <2>1. CASE v # u
    BY <1>1, <1>3, <2>1 DEF Aside, AlikeCalls
  <2>2. CASE v = u
    <3>1. Aside(th'[u], [th[u] EXCEPT !.good = FALSE])
      BY <1>0, <1>1, <1>3, <2>2 DEF Begun
    <3>. QED  BY <1>0, <1>3, <2>2, <3>1, FieldNames DEF Aside, AlikeCalls
  <2>. QED  BY <2>1, <2>2
<1>. QED  BY <1>0, <1>2, <1>3, NothingTouched

LEMMA LateAside ==
  ASSUME DaemonInv, IsRemote(remote), NEW t \in Threads, NEW q \in late, Late(q), th' = Disturbed(q), UNCHANGED ipcVars,
         ~th'[t].rival
  PROVE  Untouched(t)
<1>. DEFINE paths == IF q.req = "fs.rename" THEN Named(q.path, q.to) ELSE {q.path}
<1>1. /\ UNCHANGED <<files, handle>> /\ DOMAIN th[t] = Fields
      /\ \A v \in Threads : Aside(th'[v], th[v])
  BY AtHand, DisturbedAside DEF ipcVars, DaemonInv
<1>2. ~Meet(paths, Touches(th[t])) /\ th'[t] = th[t]
  <2>1. th'[t] = IF Meet(paths, Touches(th[t])) THEN [th[t] EXCEPT !.rival = TRUE] ELSE th[t]
    BY DEF Disturbed
  <2>. HIDE DEF paths
  <2>2. [th[t] EXCEPT !.rival = TRUE].rival
    BY <1>1, FieldNames
  <2>. QED  BY <2>1, <2>2
<1>3. ASSUME NEW p \in Paths, p \in Touches(th[t]), remote'[p] # remote[p] PROVE FALSE
  <2>1. (Served(q).after)[p] # remote[p]
    BY <1>3 DEF Late
  <2>2. \E x \in paths : Below(p, x)
    BY <2>1, ServedTouches
  <2>. HIDE DEF paths
  <2>. QED  BY <1>2, <1>3, <2>2 DEF Meet
<1>4. Alike(th'[t], th[t])
  BY <1>2 DEF Alike, Aside, AlikeCalls, Alongside
<1>. QED  BY <1>1, <1>3, <1>4, NothingTouched DEF Aside, AlikeCalls

LEMMA DownloadAside ==
  ASSUME DaemonInv, NEW t \in Threads, NEW g \in Handles, Download(g)
  PROVE  Untouched(t)
<1>1. UNCHANGED <<th, files, remote>>
  BY DEF Download, DownloadBegins, DownloadEnds, DownloadLost, callVars
<1>2. ASSUME NEW h \in Handles PROVE SameText(h)
  <2>1. DOMAIN handle[h] = DOMAIN NewHandle /\ handle = [x \in Handles |-> handle[x]]
    BY DEF DaemonInv, HandlesAreRecords
  <2>2. \/ \E x : handle' = [handle EXCEPT ![g].dl = x]
        \/ \E x : handle' = [handle EXCEPT ![g].dl = x, ![g].again = TRUE]
    BY DEF Download, DownloadBegins, DownloadEnds, DownloadLost
  <2>3. ASSUME NEW x, handle' = [handle EXCEPT ![g].dl = x] PROVE SameText(h)
    BY <2>3, FieldChanged
  <2>4. ASSUME NEW x, handle' = [handle EXCEPT ![g].dl = x, ![g].again = TRUE] PROVE SameText(h)
    <3>1. handle'[h] = handle[h] \/ handle'[h] = [handle[h] EXCEPT !.dl = x, !.again = TRUE]
      BY <2>1, <2>4
    <3>. QED  BY <2>1, <3>1, HandleFields DEF SameText
  <2>. QED  BY <2>2, <2>3, <2>4
<1>3. \A h \in Handles : Alone(t, h) => Alone(t, h)'
  BY <1>1 DEF Alone
<1>4. Alike(th'[t], th[t])
  BY <1>1 DEF Alike, Aside, AlikeCalls, Alongside
<1>. QED  BY <1>1, <1>2, <1>3, <1>4 DEF Untouched, InTable

\* What is known of t's call and session, known rivals aside, outlasts such a step.
LEMMA StagedKept ==
  ASSUME DaemonInv, NamesAgree, NEW t \in Threads, Untouched(t), NEW p \in Paths, p \in Touches(th[t]), Staged(t, p)
  PROVE  Staged(t, p)'
<1>. DEFINE h == files[p]
<1>1. h \in Handles /\ files'[p] = h /\ remote'[p] = remote[p] /\ h # None
  BY IPCAssumption DEF Untouched, Staged, Bright, None
<1>2. h \notin Unused
  BY <1>1 DEF Unused, InTable
<1>3. Near2(t, h)
  BY <1>1 DEF NamesAgree, Near2
<1>4. SameText(h) /\ Alone(t, h)' /\ th'[t].wrote = th[t].wrote
  BY <1>1, <1>2, <1>3 DEF Untouched, Staged, Alike, Alongside
<1>. QED  BY <1>1, <1>4 DEF Staged, Bright, SameText, Alone, IsDir

LEMMA AccountKept ==
  ASSUME DaemonInv, LockInv, SessionTyped, Writings, NamesAgree, NEW t \in Threads, Untouched(t), Account(t)
  PROVE  Account(t)'
<1>. DEFINE q == th[t]
            r == th'[t]
<1>1. SUFFICES ASSUME ~r.rival PROVE (r.writes => Session(t)') /\ (Makes(r) => Opening(t)')
  BY DEF Account
<1>2. /\ r.op = q.op /\ r.path = q.path /\ r.to = q.to /\ r.pc = q.pc /\ r.good = q.good
      /\ r.req = q.req /\ r.then = q.then /\ r.h = q.h /\ r.arg = q.arg
      /\ r.sess = q.sess /\ r.writes = q.writes /\ r.wrote = q.wrote /\ r.rival = q.rival /\ r.isdir = q.isdir
  BY DEF Untouched, Alike, Aside, AlikeCalls, Alongside
<1>3. /\ q.pc # "idle" => Concerns(q) \subseteq Touches(q) /\ q.path \in Paths /\ q.to \in Paths
      /\ q.op = "rename" => q.to \in Concerns(q)
      /\ q.op \in {"release"} \union OpensToWrite => q.path \in Concerns(q)
  BY DEF DaemonInv, LockInv, Touches, Concerns, Named, OpensToWrite
<1>4. ASSUME r.writes PROVE Session(t)'
  <2>1. Session(t) /\ q.sess \in Paths /\ q.sess \in Touches(q)
    BY <1>1, <1>2, <1>4 DEF Account, Writings, Writing, SessionTyped, Touches
  <2>2. InSess(t)'
    <3>1. Gone(r) = Gone(q) /\ Way(r) = Way(q) /\ Where(r) = Where(q)
      BY <1>2 DEF Gone, Way, Where, Requested
    <3>2. Where(q) \in Paths /\ Where(q) \in Touches(q)
      BY <1>3, <2>1 DEF Where
    <3>3. ASSUME NEW p, p = Where(q), ~Gone(q) PROVE Staged(t, p)'
      BY <2>1, <3>2, <3>3, StagedKept DEF Session, InSess
    <3>4. files'[q.sess] = files[q.sess]
      BY <2>1 DEF Untouched
    <3>5. ~Gone(r) => Staged(t, Where(q))'
      BY <3>1, <3>3 DEF Staged, Bright, Alone, IsDir
    <3>. QED  BY <1>2, <2>1, <3>1, <3>4, <3>5 DEF Session, InSess
  <2>3. Renaming(t)'
    <3>1. q.op = "rename" /\ q.pc = "heard" => remote'[q.to] = remote[q.to]
      BY <1>3 DEF Untouched
    <3>. QED  BY <1>2, <2>1, <3>1 DEF Session, Renaming, Requested, IsDir
  <2>4. Releasing(t)'
    <3>0. SUFFICES ASSUME q.op = "release" PROVE Releasing(t)'
      BY <1>2 DEF Releasing
    <3>1. q.pc # "idle" => remote'[q.path] = remote[q.path]
      BY <1>3, <3>0 DEF Untouched
    <3>2. ASSUME q.pc \in {"close", "ask"}, NEW h, h = q.h
          PROVE  h \in Handles /\ SameText(h) /\ Alone(t, h)' /\ \A p \in Paths : files'[p] # h
      <4>1. h \in Handles /\ h # None /\ Alone(t, h) /\ \A p \in Paths : files[p] # h
        BY <2>1, <3>0, <3>2, IPCAssumption DEF Session, Releasing, None
      <4>2. h \notin Unused /\ h \notin InTable
        BY <3>2, <4>1 DEF Unused, Held, InTable
      <4>. QED  BY <4>1, <4>2 DEF Untouched, Near2
    <3>. QED  BY <1>2, <2>1, <3>0, <3>1, <3>2 DEF Session, Releasing, Bright, SameText, Alone
  <2>. QED  BY <2>2, <2>3, <2>4 DEF Session
<1>5. ASSUME Makes(r) PROVE Opening(t)'
  <2>1. Makes(q) /\ Opening(t)
    BY <1>1, <1>2, <1>5 DEF Makes, Account
  <2>2. remote'[q.path] = remote[q.path]
    BY <1>3, <2>1 DEF Untouched, Makes
  <2>. QED  BY <1>2, <2>1, <2>2 DEF Opening, Requested, IsDir
<1>. QED  BY <1>4, <1>5
-----------------------------------------------------------------------------
(***************************************************************************)
(* The steps of the session's own thread.                                  *)
(***************************************************************************)
\* The copy-upload mode, and what has been proved of it.
Copying ==
  /\ DaemonInv /\ LockInv /\ SessionTyped /\ Clear /\ Shapes /\ Writings /\ NamesAgree
  /\ IsRemote(remote) /\ fmode = 8 /\ dmode = 8

\* Staged, of a call that has written or not.
Ready(t, p, wrote) ==
  /\ files[p] \in Handles /\ handle[files[p]].staged /\ ~handle[files[p]].committed
  /\ wrote => t \in handle[files[p]].text
  /\ Alone(t, files[p]) /\ ~IsDir(p)

Owner(t) == th[t].writes /\ ~th[t].rival /\ Session(t) /\ th[t].pc # "idle"

LEMMA OwnerHas ==
  ASSUME Copying, NEW t \in Threads, Owner(t)
  PROVE  /\ DOMAIN th[t] = Fields /\ CallsAreRecords /\ fmode # FullyWritable
         /\ th[t].sess \in Paths /\ th[t].path = th[t].sess /\ th[t].to \in Paths /\ th[t].sess # NoPath
         /\ Way(th[t]) /\ th[t].op \notin Opens /\ th[t].op \notin OpensToWrite
         /\ ~Gone(th[t]) => Staged(t, Where(th[t]))
<1>1. th[t].sess \in Paths /\ th[t].sess # NoPath
  BY DEF Copying, Owner, Writings, Writing, SessionTyped
<1>2. th[t].path = th[t].sess /\ Way(th[t]) /\ (~Gone(th[t]) => Staged(t, Where(th[t])))
  BY DEF Owner, Session, InSess
<1>3. th[t].op \notin Opens /\ th[t].op \notin OpensToWrite
  BY <1>2 DEF Way, Opens, OpensToWrite
<1>. QED  BY <1>1, <1>2, <1>3, AtHand DEF Copying, Owner, DaemonInv, LockInv, FullyWritable

LEMMA ReadyStays ==
  ASSUME NEW t \in Threads, NEW p, NEW w, Staged(t, p), \A u \in Threads \ {t} : Aside(th'[u], th[u]),
         files'[p] = files[p], handle'[files[p]].staged = handle[files[p]].staged,
         handle'[files[p]].committed = handle[files[p]].committed,
         w => t \in handle'[files[p]].text, remote'[p].kind = "dir" => IsDir(p)
  PROVE  Ready(t, p, w)'
BY DEF Staged, Bright, Ready, Alone, Aside, AlikeCalls, IsDir

\* The call is over: the session's file is as the session has left it.
LEMMA OwnEnds ==
  ASSUME CallsAreRecords, NEW t \in Threads, NEW q, DOMAIN q = Fields, Go(t, q), q.pc = "idle",
         NEW p, p = Followed(q, SessionAfter(q)),
         ~q.rival /\ SessionAfter(q) # NoPath /\ (q.writes \/ q.op \in OpensToWrite)
           /\ ~(q.op = "unlink" /\ q.good) => Ready(t, p, q.wrote)'
  PROVE  Account(t)'
<1>. DEFINE r == th'[t]
<1>1. r = Finished(t, q)[t] /\ r.pc = "idle"
  BY GoSelf
<1>2. /\ r.sess = p
      /\ IF SessionAfter(q) = NoPath THEN ~r.writes /\ ~r.wrote
         ELSE /\ r.rival = q.rival
              /\ r.writes = ((q.writes \/ q.op \in OpensToWrite) /\ ~(q.op = "unlink" /\ q.good))
              /\ r.wrote = (q.wrote /\ ~(q.op = "unlink" /\ q.good))
  BY <1>1, FinishedIs
<1>3. ASSUME ~r.rival, r.writes PROVE Session(t)'
  <2>1. Ready(t, p, q.wrote)' /\ (r.wrote => q.wrote)
    BY <1>2, <1>3
  <2>2. Staged(t, p)'
    BY <2>1 DEF Ready, Staged, Bright, Alone, IsDir
  <2>. QED  BY <1>1, <1>2, <2>2 DEF Session, InSess, Renaming, Releasing, Gone, Where, Requested, Staged, Bright, Alone, IsDir
<1>. QED  BY <1>1, <1>3 DEF Account, Makes

\* ... and nothing of it has changed.
LEMMA EndsAlike ==
  ASSUME Copying, NEW t \in Threads, Owner(t), NEW q, Go(t, q), Continues(th[t], q), q.pc = "idle",
         UNCHANGED <<files, handle, remote>>, q.wrote => th[t].wrote,
         q.op = "release" \/ (~Gone(th[t]) /\ Where(th[t]) = th[t].sess), ~(q.op = "rename" /\ q.good)
  PROVE  Account(t)'
<1>1. /\ DOMAIN q = Fields /\ q.op = th[t].op /\ q.sess = th[t].sess
  BY DEF Continues
<1>2. \A u \in Threads \ {t} : Aside(th'[u], th[u])
  BY <1>1, OwnerHas, GoAside
<1>3. /\ SessionAfter(q) = IF q.op = "release" THEN NoPath ELSE th[t].sess
      /\ Followed(q, SessionAfter(q)) = SessionAfter(q)
  BY <1>1, OwnerHas DEF SessionAfter, Opens, Followed, Follows
<1>4. ASSUME NEW p, p = SessionAfter(q), p # NoPath PROVE Ready(t, p, q.wrote)'
  <2>1. Staged(t, p)
    BY <1>3, <1>4, OwnerHas
  <2>. QED  BY <1>2, <2>1, ReadyStays DEF Staged, Bright, IsDir
<1>5. PICK p : p = SessionAfter(q)
  OBVIOUS
<1>. QED  BY <1>1, <1>3, <1>4, <1>5, OwnerHas, OwnEnds

\* The call goes on, and nothing of the table has changed.
LEMMA GoesAlike ==
  ASSUME Copying, NEW t \in Threads, Owner(t), ~Gone(th[t]), Where(th[t]) = th[t].sess,
         \A u \in Threads \ {t} : Aside(th'[u], th[u]),
         UNCHANGED <<files, handle>>, remote'[th[t].sess].kind = "dir" => IsDir(th[t].sess),
         th'[t].wrote => th[t].wrote, th'[t].sess = th[t].sess, th'[t].path = th[t].path, th'[t].op = th[t].op,
         Way(th'[t]), ~(th'[t].op = "rename" /\ th'[t].pc = "flush"),
         th'[t].pc \in {"enter", "wait"} => th'[t].h = files[th[t].sess],
         Renaming(t)', Releasing(t)'
  PROVE  Account(t)'
<1>1. ASSUME NEW p, p = th[t].sess PROVE Staged(t, p)'
  <2>1. Staged(t, p)
    BY <1>1, OwnerHas
  <2>2. Ready(t, p, th[t].wrote)'
    BY <1>1, <2>1, ReadyStays DEF Staged, Bright
  <2>. QED  BY <2>2 DEF Ready, Staged, Bright, Alone, IsDir
<1>2. th'[t].path = th'[t].sess /\ Where(th'[t]) = th[t].sess
  BY OwnerHas DEF Where
<1>3. InSess(t)'
  BY <1>1, <1>2 DEF InSess, Staged, Bright, Alone, IsDir
<1>4. ~Makes(th'[t])
  BY OwnerHas DEF Makes
<1>. QED  BY <1>3, <1>4 DEF Account, Session

LEMMA OwnerSteps ==
  ASSUME Copying, NEW t \in Threads, Owner(t), Proceed(t)
  PROVE  \/ Ask(t) \/ Lock(t) \/ Find(t) \/ Enter(t) \/ Waited(t) \/ Drop(t) \/ Close(t) \/ Sent(t) \/ Removed(t)
         \/ OldSeen(t) \/ IntoSeen(t) \/ NewSeen(t) \/ Renamed(t) \/ FlushDirs(t)
<1>1. Way(th[t])
  BY OwnerHas
<1>. QED  BY <1>1 DEF Proceed, Look, Put, Created, TargetSeen, Marked, Seen, Changed, DirectorySeen, UnlockAgain, List,
               Listed, Reread, Heard, At, Way, Requested

LEMMA OverIs ==
  ASSUME NEW q, DOMAIN q = Fields, NEW good
  PROVE  /\ Continues(q, Over(q, good)) /\ Over(q, good).pc = "idle" /\ Over(q, good).good = good
         /\ Over(q, good).op = q.op /\ Over(q, good).wrote = q.wrote
BY Ways, FieldNames DEF Over

LEMMA OverWell ==
  ASSUME NEW q, DOMAIN q = Fields, NEW r, r = Over(q, TRUE)
  PROVE  Continues(q, r) /\ r.pc = "idle" /\ r.good /\ r.op = q.op /\ r.wrote = q.wrote
<1>1. Over(q, TRUE).good = TRUE /\ Continues(q, Over(q, TRUE)) /\ Over(q, TRUE).pc = "idle"
  BY OverIs
<1>2. Over(q, TRUE).op = q.op /\ Over(q, TRUE).wrote = q.wrote
  BY OverIs
<1>. QED  BY <1>1, <1>2

LEMMA OverBadly ==
  ASSUME NEW q, DOMAIN q = Fields, NEW r, r = Over(q, FALSE)
  PROVE  Continues(q, r) /\ r.pc = "idle" /\ ~r.good /\ r.op = q.op /\ r.wrote = q.wrote
<1>1. Over(q, FALSE).good = FALSE /\ Continues(q, Over(q, FALSE)) /\ Over(q, FALSE).pc = "idle"
  BY OverIs
<1>2. Over(q, FALSE).op = q.op /\ Over(q, FALSE).wrote = q.wrote
  BY OverIs
<1>. QED  BY <1>1, <1>2

\* The file is found ...
LEMMA OwnFinds ==
  ASSUME Copying, NEW t \in Threads, Owner(t), Find(t)
  PROVE  Account(t)'
<1>. DEFINE enter == [th[t] EXCEPT !.pc = "enter", !.h = files[th[t].sess]]
<1>1. th[t].op \in {"read", "write", "truncate", "flush"} /\ th[t].pc = "find"
  BY OwnerHas DEF Find, Way, Requested
<1>2. ~Gone(th[t]) /\ Where(th[t]) = th[t].sess /\ Staged(t, th[t].sess)
  BY <1>1, OwnerHas DEF Gone, Where
<1>3. /\ Go(t, enter) \/ Go(t, Over(th[t], TRUE))
      /\ UNCHANGED <<files, handle, remote>>
  <2>1. May(th[t], files[th[t].path]) /\ handle[files[th[t].path]].staged /\ files[th[t].path] # None
    BY <1>2, OwnerHas, IPCAssumption DEF May, Staged, Bright, None
  <2>. QED  BY <1>1, <2>1, OwnerHas DEF Find, Leave, Table, Quiet, daemonVars, Restricted
<1>4. CASE Go(t, enter)
  <2>1. /\ DOMAIN enter = Fields /\ enter.pc = "enter" /\ enter.h = files[th[t].sess] /\ enter.op = th[t].op
        /\ enter.path = th[t].path /\ enter.sess = th[t].sess /\ enter.wrote = th[t].wrote
    BY OwnerHas, FieldNames
  <2>. HIDE DEF enter
  <2>2. th'[t] = enter /\ \A u \in Threads \ {t} : Aside(th'[u], th[u])
    BY <1>4, <2>1, OwnerHas, GoAside
  <2>3. Way(th'[t]) /\ Renaming(t)' /\ Releasing(t)'
    BY <1>1, <2>1, <2>2 DEF Way, Renaming, Releasing
  <2>. QED  BY <1>1, <1>2, <1>3, <2>1, <2>2, <2>3, GoesAlike DEF IsDir
<1>5. CASE Go(t, Over(th[t], TRUE))
  <2>1. /\ Continues(th[t], Over(th[t], TRUE)) /\ Over(th[t], TRUE).pc = "idle"
        /\ Over(th[t], TRUE).wrote = th[t].wrote /\ Over(th[t], TRUE).op = th[t].op
    BY OwnerHas, OverIs
  <2>. QED  BY <1>1, <1>2, <1>3, <1>5, <2>1, EndsAlike
<1>. QED  BY <1>3, <1>4, <1>5

\* ... and used: a write adds to it.
LEMMA OwnFound ==
  ASSUME Copying, NEW t \in Threads, Owner(t), Go(t, Found(th[t], th[t].h)), UNCHANGED <<files, handle, remote>>,
         th[t].op \in {"read", "write", "truncate", "flush"}
  PROVE  Account(t)'
<1>1. ~Gone(th[t]) /\ Where(th[t]) = th[t].sess
  BY DEF Gone, Where
<1>2. PICK saw, good : Found(th[t], th[t].h) = Over([th[t] EXCEPT !.saw = saw], good)
  BY DEF Found
<1>. DEFINE q == Over([th[t] EXCEPT !.saw = saw], good)
<1>3. Continues(th[t], q) /\ q.pc = "idle" /\ q.wrote = th[t].wrote /\ q.op = th[t].op
  BY OwnerHas, FieldNames DEF Continues, Over
<1>. HIDE DEF q
<1>. QED  BY <1>1, <1>2, <1>3, EndsAlike DEF q

LEMMA OwnWrites ==
  ASSUME Copying, NEW t \in Threads, Owner(t), ~Gone(th[t]), Where(th[t]) = th[t].sess,
         th[t].op \in {"write", "truncate"}, th[t].h = files[th[t].sess],
         Go(t, Over([th[t] EXCEPT !.wrote = (th[t].op = "write")], TRUE)),
         UNCHANGED <<files, remote>>, NEW text, th[t].op = "write" => t \in text,
         handle' = [handle EXCEPT ![th[t].h].text = text]
  PROVE  Account(t)'
<1>0. PICK q : q = Over([th[t] EXCEPT !.wrote = (th[t].op = "write")], TRUE)
  OBVIOUS
<1>1. /\ DOMAIN q = Fields /\ q.pc = "idle" /\ q.op = th[t].op /\ q.sess = th[t].sess /\ (q.wrote => th[t].op = "write")
      /\ Go(t, q)
  BY <1>0, OwnerHas, FieldNames DEF Over
<1>2. PICK p : p = th[t].sess
  OBVIOUS
<1>3. /\ Staged(t, p) /\ p = SessionAfter(q) /\ p = Followed(q, SessionAfter(q))
      /\ \A u \in Threads \ {t} : Aside(th'[u], th[u])
  BY <1>1, <1>2, OwnerHas, GoAside DEF SessionAfter, Followed, Follows, Opens
<1>4. PICK h \in Handles : h = files[p]
  BY <1>3 DEF Staged, Bright
<1>5. handle = [g \in Handles |-> handle[g]] /\ DOMAIN handle[h] = DOMAIN NewHandle /\ th[t].h = h
  BY <1>2, <1>4 DEF Copying, DaemonInv, HandlesAreRecords
<1>6. handle'[h] = [handle[h] EXCEPT !.text = text]
  BY <1>5
<1>7. handle'[h].staged = handle[h].staged /\ handle'[h].committed = handle[h].committed /\ handle'[h].text = text
  BY <1>5, <1>6, HandleFields
<1>8. Ready(t, p, q.wrote)'
  <2>1. remote'[p].kind = "dir" => IsDir(p)
    BY DEF IsDir
  <2>2. PICK w : w = q.wrote
    OBVIOUS
  <2>3. Ready(t, p, w)'
    BY <1>1, <1>3, <1>4, <1>7, <2>1, <2>2, ReadyStays
  <2>. QED  BY <2>2, <2>3
<1>9. CallsAreRecords /\ q.op \notin {"unlink"}
  BY <1>1, OwnerHas
<1>. QED  BY <1>1, <1>3, <1>8, <1>9, OwnEnds

LEMMA OwnEnters ==
  ASSUME Copying, NEW t \in Threads, Owner(t), Enter(t)
  PROVE  Account(t)'
<1>. DEFINE wait == [th[t] EXCEPT !.pc = "wait"]
            text == IF th[t].op = "write" THEN handle[th[t].h].text \union {t} ELSE {}
<1>1. th[t].op \in {"read", "write", "truncate", "flush"} /\ th[t].h = files[th[t].sess]
  BY OwnerHas DEF Enter, At, Way, Requested, Owner, Session, InSess
<1>2. ~Gone(th[t]) /\ Where(th[t]) = th[t].sess /\ Staged(t, th[t].sess)
  BY <1>1, OwnerHas DEF Gone, Where
<1>3. handle[th[t].h].staged /\ ~handle[th[t].h].dirty
  BY <1>1, <1>2, OwnerHas DEF Staged, Bright, Copying, DaemonInv, HandlesAreLawful
<1>4. /\ UNCHANGED <<files, remote>>
      /\ \/ Go(t, wait) /\ UNCHANGED handle
         \/ (\E good : Go(t, Over(th[t], good))) /\ UNCHANGED handle
         \/ Go(t, Found(th[t], th[t].h)) /\ UNCHANGED handle
         \/ /\ th[t].op \in {"write", "truncate"} /\ handle' = [handle EXCEPT ![th[t].h].text = text]
            /\ Go(t, Over([th[t] EXCEPT !.wrote = (th[t].op = "write")], TRUE))
  BY <1>1, <1>3 DEF Enter, Uses, Leave, Table, Quiet, daemonVars
<1>5. CASE Go(t, wait) /\ UNCHANGED handle
  <2>1. /\ DOMAIN wait = Fields /\ wait.pc = "wait" /\ wait.h = th[t].h /\ wait.op = th[t].op
        /\ wait.path = th[t].path /\ wait.sess = th[t].sess /\ wait.wrote = th[t].wrote
    BY OwnerHas, FieldNames
  <2>. HIDE DEF wait
  <2>2. th'[t] = wait /\ \A u \in Threads \ {t} : Aside(th'[u], th[u])
    BY <1>5, <2>1, OwnerHas, GoAside
  <2>3. Way(th'[t]) /\ Renaming(t)' /\ Releasing(t)'
    BY <1>1, <2>1, <2>2 DEF Way, Renaming, Releasing
  <2>. QED  BY <1>1, <1>2, <1>4, <1>5, <2>1, <2>2, <2>3, GoesAlike DEF IsDir
<1>6. ASSUME NEW good, Go(t, Over(th[t], good)), UNCHANGED handle PROVE Account(t)'
  <2>1. /\ Continues(th[t], Over(th[t], good)) /\ Over(th[t], good).pc = "idle"
        /\ Over(th[t], good).wrote = th[t].wrote /\ Over(th[t], good).op = th[t].op
    BY OwnerHas, OverIs
  <2>. QED  BY <1>1, <1>2, <1>4, <1>6, <2>1, EndsAlike
<1>7. CASE /\ th[t].op \in {"write", "truncate"} /\ handle' = [handle EXCEPT ![th[t].h].text = text]
           /\ Go(t, Over([th[t] EXCEPT !.wrote = (th[t].op = "write")], TRUE))
  <2>1. PICK added : added = text
    OBVIOUS
  <2>2. (th[t].op = "write" => t \in added) /\ handle' = [handle EXCEPT ![th[t].h].text = added]
    BY <1>7, <2>1
  <2>. HIDE DEF text
  <2>. QED  BY <1>1, <1>2, <1>4, <1>7, <2>2, OwnWrites
<1>. QED  BY <1>1, <1>4, <1>5, <1>6, <1>7, OwnFound

\* The call goes on, and the entry is gone.
LEMMA GoesOff ==
  ASSUME Copying, NEW t \in Threads, Owner(t),
         th'[t].sess = th[t].sess, th'[t].path = th[t].path, th'[t].op = th[t].op,
         Way(th'[t]), Gone(th'[t]), Releasing(t)'
  PROVE  Account(t)'
<1>1. th'[t].path = th'[t].sess /\ th'[t].op \in {"unlink", "release"} /\ th'[t].pc \notin {"enter", "wait"}
  BY OwnerHas DEF Gone
<1>2. InSess(t)' /\ Renaming(t)'
  BY <1>1 DEF InSess, Renaming
<1>3. ~Makes(th'[t])
  BY <1>1 DEF Makes, OpensToWrite
<1>. QED  BY <1>2, <1>3 DEF Account, Session

LEMMA EndsReleased ==
  ASSUME Copying, NEW t \in Threads, Owner(t), NEW q, Go(t, q), Continues(th[t], q), q.pc = "idle", th[t].op = "release"
  PROVE  Account(t)'
<1>1. DOMAIN q = Fields /\ q.op = "release" /\ CallsAreRecords
  BY OwnerHas DEF Continues
<1>2. SessionAfter(q) = NoPath
  BY <1>1 DEF SessionAfter, Opens
<1>. QED  BY <1>1, <1>2, OwnEnds

\* A release: the entry goes, and the handle is the call's alone ...
LEMMA OwnDrop ==
  ASSUME Copying, NEW t \in Threads, Owner(t), Drop(t)
  PROVE  Account(t)'
<1>1. th[t].op = "release" /\ th[t].pc = "drop"
  BY OwnerHas DEF Drop, At, Way, Requested
<1>2. PICK h : h = files[th[t].sess]
  OBVIOUS
<1>3. PICK q : q = [th[t] EXCEPT !.pc = "close", !.h = h]
  OBVIOUS
<1>4. Staged(t, th[t].sess) /\ h \in Handles /\ h # None
  BY <1>1, <1>2, OwnerHas, IPCAssumption DEF Gone, Where, Staged, Bright, None
<1>5. /\ DOMAIN q = Fields /\ q.pc = "close" /\ q.h = h /\ q.op = "release" /\ q.path = th[t].path
      /\ q.sess = th[t].sess /\ q.wrote = th[t].wrote
  BY <1>1, <1>3, OwnerHas, FieldNames
<1>6. Go(t, q) /\ files' = [files EXCEPT ![th[t].sess] = None] /\ UNCHANGED handle
  BY <1>2, <1>3, <1>4, OwnerHas DEF Drop, Table
<1>7. th'[t] = q /\ \A u \in Threads \ {t} : Aside(th'[u], th[u])
  BY <1>5, <1>6, OwnerHas, GoAside
<1>8. \A p \in Paths : files'[p] # h
  <2>1. \A p \in Paths : files'[p] = IF p = th[t].sess THEN None ELSE files[p]
    BY <1>6 DEF Copying, DaemonInv, HandlesAreRecords
  <2>2. \A p \in Paths : files[p] = h => p = th[t].sess
    BY <1>2, <1>4, OwnerHas DEF Copying, NamesAgree
  <2>. QED  BY <1>4, <2>1, <2>2
<1>9. Bright(t, h)' /\ Alone(t, h)'
  BY <1>2, <1>4, <1>5, <1>6, <1>7 DEF Staged, Bright, Alone, Aside, AlikeCalls
<1>10. Releasing(t)'
  BY <1>4, <1>5, <1>7, <1>8, <1>9 DEF Releasing, Bright, Alone
<1>. QED  BY <1>1, <1>5, <1>7, <1>10, GoesOff DEF Way, Gone

\* ... is sent ...
LEMMA OwnClose ==
  ASSUME Copying, NEW t \in Threads, Owner(t), Close(t)
  PROVE  Account(t)'
<1>1. th[t].op = "release" /\ th[t].pc = "close"
  BY OwnerHas DEF Close, At, Way, Requested
<1>2. PICK h \in Handles : h = th[t].h /\ Bright(t, h) /\ Alone(t, h) /\ \A p \in Paths : files[p] # h
  BY <1>1 DEF Owner, Session, Releasing
<1>3. PICK q : q = Asking(th[t], "fs.uploadStaged", th[t].path, "sent")
  OBVIOUS
<1>4. /\ DOMAIN q = Fields /\ q.pc = "ask" /\ q.then = "sent" /\ q.req = "fs.uploadStaged" /\ q.h = h /\ q.op = "release"
      /\ q.path = th[t].path /\ q.sess = th[t].sess /\ q.wrote = th[t].wrote
  BY <1>1, <1>2, <1>3, OwnerHas, FieldNames DEF Asking
<1>5. /\ Go(t, q) \/ Go(t, Over(th[t], FALSE))
      /\ UNCHANGED files /\ handle' = [handle EXCEPT ![h].committed = TRUE]
  BY <1>2, <1>3 DEF Close, Table, Bright
<1>6. CASE Go(t, q)
  <2>1. th'[t] = q /\ \A u \in Threads \ {t} : Aside(th'[u], th[u])
    BY <1>4, <1>6, OwnerHas, GoAside
  <2>2. handle'[h].text = handle[h].text
    <3>1. handle = [g \in Handles |-> handle[g]] /\ DOMAIN handle[h] = DOMAIN NewHandle
      BY DEF Copying, DaemonInv, HandlesAreRecords
    <3>2. handle'[h] = [handle[h] EXCEPT !.committed = TRUE]
      BY <1>5, <3>1
    <3>. QED  BY <3>1, <3>2, HandleFields
  <2>3. Alone(t, h)'
    BY <1>2, <2>1 DEF Alone, Aside, AlikeCalls
  <2>4. Releasing(t)'
    BY <1>2, <1>4, <1>5, <2>1, <2>2, <2>3 DEF Releasing, Bright, Alone
  <2>. QED  BY <1>1, <1>4, <2>1, <2>4, GoesOff DEF Way, Gone, Requested
<1>7. CASE Go(t, Over(th[t], FALSE))
  <2>1. DOMAIN th[t] = Fields
    BY OwnerHas
  <2>2. PICK r : r = Over(th[t], FALSE)
    OBVIOUS
  <2>3. Continues(th[t], r) /\ r.pc = "idle" /\ ~r.good
    BY <2>1, <2>2, OverBadly
  <2>. QED  BY <1>1, <1>7, <2>2, <2>3, OwnerHas, EndsReleased
<1>. QED  BY <1>5, <1>6, <1>7

LEMMA OwnSent ==
  ASSUME Copying, NEW t \in Threads, Owner(t), Sent(t)
  PROVE  Account(t)'
<1>1. th[t].op = "release" /\ th[t].pc = "heard"
  BY OwnerHas DEF Sent, Heard, At, Way, Requested
<1>2. PICK q : q = [th[t] EXCEPT !.pc = "flush"]
  OBVIOUS
<1>3. /\ DOMAIN q = Fields /\ q.pc = "flush" /\ q.op = "release" /\ q.path = th[t].path
      /\ q.sess = th[t].sess /\ q.wrote = th[t].wrote
  BY <1>1, <1>2, OwnerHas, FieldNames
<1>4. CASE th[t].good
  <2>1. Go(t, q) /\ UNCHANGED remote
    BY <1>2, <1>4 DEF Sent, Quiet, daemonVars
  <2>2. th'[t] = q
    BY <1>3, <2>1, OwnerHas, GoAside
  <2>3. Releasing(t)'
    BY <1>1, <1>3, <1>4, <2>1, <2>2 DEF Releasing, Owner, Session
  <2>. QED  BY <1>1, <1>3, <2>2, <2>3, GoesOff DEF Way, Gone
<1>5. CASE ~th[t].good
  <2>1. Go(t, Over(th[t], FALSE))
    BY <1>5 DEF Sent
  <2>2. PICK r : r = Over(th[t], FALSE)
    OBVIOUS
  <2>3. DOMAIN th[t] = Fields
    BY OwnerHas
  <2>4. Continues(th[t], r) /\ r.pc = "idle" /\ ~r.good
    BY <2>2, <2>3, OverBadly
  <2>. QED  BY <1>1, <2>1, <2>2, <2>4, OwnerHas, EndsReleased
<1>. QED  BY <1>4, <1>5

\* A removal.
LEMMA OwnRemoved ==
  ASSUME Copying, NEW t \in Threads, Owner(t), Removed(t)
  PROVE  Account(t)'
<1>1. th[t].op = "unlink" /\ th[t].pc = "heard"
  BY OwnerHas DEF Removed, Heard, At, Way, Requested
<1>2. PICK q : q = [th[t] EXCEPT !.pc = "flush"]
  OBVIOUS
<1>3. /\ DOMAIN q = Fields /\ q.pc = "flush" /\ q.op = "unlink" /\ q.path = th[t].path
      /\ q.sess = th[t].sess
  BY <1>1, <1>2, OwnerHas, FieldNames
<1>4. CASE th[t].good
  <2>1. Go(t, q)
    BY <1>2, <1>4 DEF Removed
  <2>2. th'[t] = q
    BY <1>3, <2>1, OwnerHas, GoAside
  <2>3. Releasing(t)'
    BY <1>3, <2>2 DEF Releasing
  <2>. QED  BY <1>1, <1>3, <2>2, <2>3, GoesOff DEF Way, Gone
<1>5. CASE ~th[t].good
  <2>1. Go(t, Over(th[t], FALSE)) /\ UNCHANGED <<files, handle, remote>>
    BY <1>5 DEF Removed, Table, Quiet, daemonVars
  <2>2. ~Gone(th[t]) /\ Where(th[t]) = th[t].sess
    BY <1>1 DEF Gone, Where
  <2>3. /\ Continues(th[t], Over(th[t], FALSE)) /\ Over(th[t], FALSE).pc = "idle"
        /\ Over(th[t], FALSE).wrote = th[t].wrote /\ Over(th[t], FALSE).op = th[t].op
    BY OwnerHas, OverIs
  <2>. QED  BY <1>1, <2>1, <2>2, <2>3, EndsAlike
<1>. QED  BY <1>4, <1>5

LEMMA OwnLock ==
  ASSUME Copying, NEW t \in Threads, Owner(t), Lock(t)
  PROVE  Account(t)'
<1>1. th[t].op = "unlink" /\ th[t].pc = "lock"
  BY OwnerHas DEF Lock, At, Way, Requested
<1>2. /\ \A u \in Threads \ {t} : Aside(th'[u], th[u])
      /\ th'[t].op = "unlink" /\ th'[t].path = th[t].path /\ th'[t].sess = th[t].sess /\ th'[t].wrote = th[t].wrote
      /\ th'[t].pc = "lock" \/ (th'[t].pc = "ask" /\ th'[t].then = "removed")
  BY <1>1, LockIs DEF Copying, LockedAs, Aside, AlikeCalls, Alongside, OpensToWrite
<1>3. UNCHANGED <<files, handle, remote>>
  BY DEF Lock, Quiet, Leave, Table, daemonVars
<1>4. Way(th'[t]) /\ Renaming(t)' /\ Releasing(t)'
  BY <1>2 DEF Way, Requested, Renaming, Releasing
<1>5. ~Gone(th[t]) /\ Where(th[t]) = th[t].sess
  BY <1>1 DEF Gone, Where
<1>. QED  BY <1>1, <1>2, <1>3, <1>4, <1>5, GoesAlike DEF IsDir

\* What is asked of the daemon: the session's file does not become a directory ...
LEMMA OwnAskSafe ==
  ASSUME Copying, NEW t \in Threads, Owner(t), Ask(t), ~Gone(th[t]), Where(th[t]) = th[t].sess
  PROVE  remote'[th[t].sess].kind # "dir"
<1>. DEFINE p == th[t].sess
            r == Asked(th[t])
<1>1. p \in Paths /\ p = th[t].path /\ ~IsDir(p)
  BY OwnerHas DEF Staged
<1>2. CASE remote'[p] = remote[p]
  BY <1>1, <1>2 DEF IsDir
<1>3. CASE remote'[p] # remote[p]
  <2>1. th[t].pc = "ask" /\ remote' = Served(r).after
    BY <1>3, AskIs DEF Copying
  <2>2. r.path = th[t].arg /\ r.req = th[t].req
    BY DEF Asked
  <2>. HIDE DEF r
  <2>3. (Served(r).after)[p] # remote[p]
    BY <1>3, <2>1
  <2>4. r.req \in Changes
    BY <1>1, <2>3, ServedTouches DEF Copying
  <2>5. r.path = p /\ r.req # "fs.mkdir"
    <3>1. Shape(th[t]) /\ th[t].op # "mkdir"
      BY OwnerHas DEF Copying, Shapes, Way
    <3>. QED  BY <1>1, <2>1, <2>2, <2>4, <3>1 DEF Shape
  <2>6. (Served(r).after)[p].kind # "dir"
    BY <1>1, <2>5, NoDirectoryMade DEF Copying
  <2>. QED  BY <2>1, <2>6
<1>. QED  BY <1>2, <1>3

\* ... a rename that succeeds leads to what is no directory, as the old path was ...
LEMMA OwnAskRenames ==
  ASSUME Copying, NEW t \in Threads, Owner(t), Ask(t), th[t].op = "rename", th[t].then = "renamed", th'[t].pc = "heard", th'[t].good
  PROVE  remote'[th[t].to].kind # "dir"
<1>. DEFINE p == th[t].path
            n == th[t].to
            r == Asked(th[t])
<1>1. /\ th[t].pc = "ask" /\ Served(r).good /\ remote' = Served(r).after
  BY AskIs DEF Copying
<1>2. /\ th[t].req = "fs.rename" /\ p # n /\ p \in Paths /\ n \in Paths /\ ~IsDir(p)
  <2>1. th[t].req = "fs.rename" /\ p # n
    BY <1>1 DEF Owner, Session, Renaming, Requested
  <2>2. ~Gone(th[t]) /\ Where(th[t]) = th[t].sess
    BY <1>1 DEF Gone, Where
  <2>. QED  BY <2>1, <2>2, OwnerHas DEF Staged
<1>3. /\ r.path = p /\ r.to = n /\ r.req = "fs.rename"
  <2>1. Shape(th[t])
    BY DEF Copying, Shapes
  <2>2. th[t].arg = p
    BY <1>1, <1>2, <2>1 DEF Shape, Changes
  <2>. QED  BY <1>2, <2>2 DEF Asked
<1>. HIDE DEF r
<1>4. RenamesTo(r) = n
  BY <1>3 DEF RenamesTo, Copying, FullyWritable
<1>5. remote' = MovedTo(p, n)
  BY <1>1, <1>2, <1>3, <1>4 DEF Served, Only, Done, Failed
<1>6. Below(n, n) /\ Rebased(n, n, p) = p
  BY <1>2, PathsAre, PathFacts, RebasedFacts
<1>7. remote'[n] = remote[p]
  BY <1>2, <1>5, <1>6 DEF MovedTo
<1>. QED  BY <1>2, <1>7 DEF IsDir

\* ... and what is sent is there.
LEMMA OwnAskSends ==
  ASSUME Copying, NEW t \in Threads, Owner(t), Ask(t), th[t].op = "release", th'[t].pc = "heard", th'[t].good, th[t].wrote
  PROVE  t \in remote'[th[t].path].text
<1>. DEFINE p == th[t].path
            r == Asked(th[t])
<1>1. /\ th[t].pc = "ask" /\ Served(r).good /\ remote' = Served(r).after
  BY AskIs DEF Copying
<1>2. th[t].req = "fs.uploadStaged" /\ th[t].h \in Handles /\ t \in handle[th[t].h].text
  BY <1>1 DEF Owner, Session, Releasing
<1>3. r.path = p /\ r.req = "fs.uploadStaged" /\ t \in r.text /\ p \in Paths
  <2>1. Shape(th[t])
    BY DEF Copying, Shapes
  <2>2. th[t].arg = p
    BY <1>1, <1>2, <2>1 DEF Shape, Changes
  <2>3. th[t].h # None
    BY <1>2, IPCAssumption DEF None
  <2>. QED  BY <1>2, <2>2, <2>3, OwnerHas DEF Asked
<1>. HIDE DEF r
<1>4. remote' = WithNode(p, File(r.text))
  BY <1>1, <1>3 DEF Served, Only, Done, Failed
<1>5. remote = [x \in Paths |-> remote[x]]
  BY DEF Copying, IsRemote
<1>. QED  BY <1>3, <1>4, <1>5 DEF WithNode, File

LEMMA OwnAsk ==
  ASSUME Copying, NEW t \in Threads, Owner(t), Ask(t)
  PROVE  Account(t)'
<1>1. /\ th[t].pc = "ask" /\ UNCHANGED <<files, handle>>
      /\ \A u \in Threads \ {t} : Aside(th'[u], th[u])
      /\ th'[t].op = th[t].op /\ th'[t].path = th[t].path /\ th'[t].to = th[t].to /\ th'[t].then = th[t].then
      /\ th'[t].sess = th[t].sess /\ th'[t].h = th[t].h /\ th'[t].wrote = th[t].wrote
      /\ \/ th'[t].pc = "ask" /\ th'[t].req = th[t].req /\ th'[t].arg = th[t].arg
         \/ th'[t].pc = "heard" /\ th'[t].isdir = IsDir(th[t].arg)
  BY AskIs DEF Copying, Ask, Leave, Table, Aside, AlikeCalls
<1>2. Way(th[t]) /\ Requested(th[t]) /\ Requested(th'[t]) /\ Way(th'[t]) /\ th[t].op \in {"unlink", "rename", "release"}
  BY <1>1, OwnerHas DEF Way, Requested
<1>3. CASE th[t].op \in {"unlink", "rename"}
  <2>1. ~Gone(th[t]) /\ Where(th[t]) = th[t].sess
    BY <1>1, <1>3 DEF Gone, Where
  <2>2. Renaming(t)'
    <3>1. CASE th[t].op = "unlink"
      BY <1>1, <3>1 DEF Renaming
    <3>2. CASE th[t].op = "rename"
      <4>1. Renaming(t) /\ ~IsDir(th[t].path)
        BY <2>1, OwnerHas DEF Owner, Session, Staged
      <4>2. th[t].then = "old" /\ th'[t].pc = "heard" => ~th'[t].isdir
        BY <1>1, <3>2, <4>1 DEF Renaming
      <4>3. th[t].then = "renamed" /\ th'[t].pc = "heard" /\ th'[t].good => remote'[th[t].to].kind # "dir"
        BY <3>2, OwnAskRenames
      <4>. QED  BY <1>1, <1>2, <4>1, <4>2, <4>3 DEF Renaming, Requested, IsDir
    <3>. QED  BY <1>3, <3>1, <3>2
  <2>3. Releasing(t)'
    BY <1>1, <1>3 DEF Releasing
  <2>4. th'[t].pc \notin {"enter", "wait", "flush"}
    BY <1>1
  <2>. QED  BY <1>1, <1>2, <2>1, <2>2, <2>3, <2>4, OwnAskSafe, GoesAlike
<1>4. CASE th[t].op = "release"
  <2>1. PICK h \in Handles : h = th[t].h /\ Alone(t, h) /\ (\A p \in Paths : files[p] # h)
                             /\ (th[t].wrote => t \in handle[h].text) /\ th[t].req = "fs.uploadStaged"
    BY <1>1, <1>4 DEF Owner, Session, Releasing
  <2>2. Alone(t, h)'
    BY <1>1, <2>1 DEF Alone, Aside, AlikeCalls
  <2>3. Releasing(t)'
    BY <1>1, <1>4, <2>1, <2>2, OwnAskSends DEF Releasing, Alone
  <2>4. Gone(th'[t])
    BY <1>1, <1>4 DEF Gone
  <2>. QED  BY <1>1, <1>2, <2>3, <2>4, GoesOff
<1>. QED  BY <1>2, <1>3, <1>4

\* A rename that succeeds: the session goes on under the new name.
LEMMA EndsRenamed ==
  ASSUME Copying, NEW t \in Threads, Owner(t), NEW q, Go(t, q), Continues(th[t], q), q.pc = "idle", q.good,
         th[t].op = "rename", q.wrote => th[t].wrote, UNCHANGED <<files, handle, remote>>, Staged(t, th[t].to)
  PROVE  Account(t)'
<1>1. /\ DOMAIN q = Fields /\ q.op = "rename" /\ q.sess = th[t].sess /\ q.path = th[t].path /\ q.to = th[t].to
      /\ CallsAreRecords
  BY OwnerHas DEF Continues
<1>2. \A u \in Threads \ {t} : Aside(th'[u], th[u])
  BY <1>1, GoAside
<1>3. SessionAfter(q) = th[t].sess
  BY <1>1 DEF SessionAfter, Opens
<1>4. Followed(q, th[t].sess) = th[t].to
  <2>1. Below(th[t].sess, th[t].path) /\ Rebased(th[t].sess, th[t].path, th[t].to) = th[t].to
    BY OwnerHas, PathsAre, PathFacts, RebasedFacts
  <2>. QED  BY <1>1, <2>1, OwnerHas DEF Followed, Follows
<1>5. PICK p, w : p = th[t].to /\ w = q.wrote
  OBVIOUS
<1>6. Ready(t, p, w)'
  BY <1>2, <1>5, ReadyStays DEF Staged, Bright, IsDir
<1>. QED  BY <1>1, <1>3, <1>4, <1>5, <1>6, OwnEnds

\* ... and on its way to it.
LEMMA AsksOn ==
  ASSUME Copying, NEW t \in Threads, Owner(t), th[t].op = "rename", th[t].pc = "heard", NEW req, NEW p, NEW w,
         Go(t, Asking(th[t], req, p, w)), w \in {"into", "new", "renamed"}, w = "renamed" => req = "fs.rename",
         th[t].path # th[t].to, UNCHANGED <<files, handle, remote>>
  PROVE  Account(t)'
<1>1. PICK q : q = Asking(th[t], req, p, w)
  OBVIOUS
<1>2. /\ DOMAIN q = Fields /\ q.pc = "ask" /\ q.then = w /\ q.req = req /\ q.op = "rename"
      /\ q.path = th[t].path /\ q.sess = th[t].sess /\ q.wrote = th[t].wrote /\ q.to = th[t].to
  BY <1>1, OwnerHas, FieldNames DEF Asking
<1>3. th'[t] = q /\ \A u \in Threads \ {t} : Aside(th'[u], th[u])
  BY <1>1, <1>2, OwnerHas, GoAside
<1>4. Way(th'[t]) /\ Renaming(t)' /\ Releasing(t)'
  BY <1>2, <1>3 DEF Way, Requested, Renaming, Releasing
<1>5. ~Gone(th[t]) /\ Where(th[t]) = th[t].sess
  BY DEF Gone, Where
<1>. QED  BY <1>2, <1>3, <1>4, <1>5, GoesAlike DEF IsDir

\* A call that fails leaves all as it was.
LEMMA FailsAlike ==
  ASSUME Copying, NEW t \in Threads, Owner(t), th[t].op = "rename", th[t].pc = "heard", Go(t, Over(th[t], FALSE)),
         UNCHANGED <<files, handle, remote>>
  PROVE  Account(t)'
<1>1. PICK q : q = Over(th[t], FALSE)
  OBVIOUS
<1>2. /\ Continues(th[t], q) /\ q.pc = "idle" /\ ~q.good /\ q.wrote = th[t].wrote
  <2>1. DOMAIN th[t] = Fields
    BY OwnerHas
  <2>. QED  BY <1>1, <2>1, OverBadly
<1>3. ~Gone(th[t]) /\ Where(th[t]) = th[t].sess
  BY DEF Gone, Where
<1>. QED  BY <1>1, <1>2, <1>3, EndsAlike

LEMMA OwnLooks ==
  ASSUME Copying, NEW t \in Threads, Owner(t), OldSeen(t) \/ IntoSeen(t) \/ NewSeen(t)
  PROVE  Account(t)'
<1>1. /\ th[t].op = "rename" /\ th[t].pc = "heard" /\ th[t].then \in {"old", "into", "new"}
      /\ UNCHANGED <<files, handle, remote>>
  <2>1. UNCHANGED <<files, handle, remote>>
    BY DEF OldSeen, IntoSeen, NewSeen, Quiet, Leave, Table, daemonVars
  <2>2. th[t].pc = "heard" /\ th[t].then \in {"old", "into", "into.dir", "new", "new.dir"}
    <3>1. CASE OldSeen(t)
      BY <3>1 DEF OldSeen, Heard, At
    <3>2. CASE IntoSeen(t)
      BY <3>2 DEF IntoSeen, Heard, At
    <3>3. CASE NewSeen(t)
      BY <3>3 DEF NewSeen, Heard, At
    <3>. QED  BY <3>1, <3>2, <3>3
  <2>3. Way(th[t])
    BY OwnerHas
  <2>. QED  BY <2>1, <2>2, <2>3 DEF Way, Requested
<1>2. Renaming(t)
  BY DEF Owner, Session
<1>3. CASE OldSeen(t)
  <2>1. \/ Go(t, Over(th[t], FALSE))
        \/ Go(t, Over(th[t], TRUE)) /\ th[t].path = th[t].to
        \/ Go(t, Asking(th[t], "fs.stat", Parent(th[t].to), "into")) /\ th[t].path # th[t].to
    BY <1>1, <1>2, <1>3 DEF OldSeen, Heard, Renaming
  <2>2. CASE Go(t, Over(th[t], TRUE)) /\ th[t].path = th[t].to
    <3>1. PICK q : q = Over(th[t], TRUE)
      OBVIOUS
    <3>2. Continues(th[t], q) /\ q.pc = "idle" /\ q.good /\ q.wrote = th[t].wrote
      <4>1. DOMAIN th[t] = Fields
        BY OwnerHas
      <4>. QED  BY <3>1, <4>1, OverWell
    <3>3. Staged(t, th[t].to)
      <4>1. ~Gone(th[t]) /\ Where(th[t]) = th[t].sess
        BY <1>1 DEF Gone, Where
      <4>2. th[t].to = th[t].sess
        BY <2>2, OwnerHas
      <4>. QED  BY <4>1, <4>2, OwnerHas
    <3>. QED  BY <1>1, <2>2, <3>1, <3>2, <3>3, EndsRenamed
  <2>3. CASE Go(t, Asking(th[t], "fs.stat", Parent(th[t].to), "into")) /\ th[t].path # th[t].to
    BY <1>1, <2>3, AsksOn
  <2>. QED  BY <1>1, <2>1, <2>2, <2>3, FailsAlike
<1>4. CASE IntoSeen(t)
  <2>1. \/ Go(t, Over(th[t], FALSE))
        \/ Go(t, Asking(th[t], "fs.stat", th[t].to, "new"))
    <3>1. PICK kind \in {<<"into", "new">>, <<"into.dir", "new.dir">>} :
            /\ th[t].then = kind[1]
            /\ Go(t, IF ~th[t].good \/ ~th[t].isdir \/ (kind[1] = "into.dir" /\ Below(th[t].to, th[t].path)) THEN Over(th[t], FALSE)
                     ELSE Asking(th[t], "fs.stat", th[t].to, kind[2]))
      BY <1>4 DEF IntoSeen, Heard
    <3>2. kind[2] = "new"
      BY <1>1, <3>1
    <3>. QED  BY <3>1, <3>2
  <2>2. th[t].path # th[t].to
    BY <1>1, <1>2, <1>4 DEF IntoSeen, Heard, Renaming, Requested
  <2>. QED  BY <1>1, <2>1, <2>2, FailsAlike, AsksOn
<1>5. CASE NewSeen(t)
  <2>1. \/ Go(t, Over(th[t], FALSE))
        \/ Go(t, Asking(th[t], "fs.rename", th[t].path, "renamed"))
    <3>1. PICK kind \in {<<"new", "renamed">>, <<"new.dir", "changed">>} :
            /\ th[t].then = kind[1]
            /\ Go(t, IF th[t].good THEN Over(th[t], FALSE) ELSE Asking(th[t], "fs.rename", th[t].path, kind[2]))
      BY <1>5 DEF NewSeen, Heard
    <3>2. kind[2] = "renamed"
      BY <1>1, <3>1
    <3>. QED  BY <3>1, <3>2
  <2>2. th[t].path # th[t].to
    BY <1>1, <1>2, <1>5 DEF NewSeen, Heard, Renaming, Requested
  <2>. QED  BY <1>1, <2>1, <2>2, FailsAlike, AsksOn
<1>. QED  BY <1>3, <1>4, <1>5

LEMMA OwnRenamed ==
  ASSUME Copying, NEW t \in Threads, Owner(t), Renamed(t)
  PROVE  Account(t)'
<1>1. /\ th[t].op = "rename" /\ th[t].pc = "heard" /\ th[t].then = "renamed" /\ UNCHANGED remote
  BY OwnerHas DEF Renamed, Heard, At, Way, Requested, Quiet, daemonVars
<1>2. /\ th[t].path = th[t].sess /\ th[t].sess \in Paths /\ th[t].to \in Paths /\ th[t].path # th[t].to
      /\ th[t].good => ~IsDir(th[t].to)
  BY <1>1, OwnerHas DEF Owner, Session, Renaming, Requested
<1>3. PICK h \in Handles : h = files[th[t].sess] /\ h # None /\ Bright(t, h) /\ Alone(t, h)
  BY <1>1, OwnerHas, IPCAssumption DEF Gone, Where, Staged, Bright, None
<1>4. CASE ~th[t].good
  <2>1. Go(t, Over(th[t], FALSE)) /\ UNCHANGED <<files, handle>>
    BY <1>4, OwnerHas DEF Renamed, Return, Restricted, Leave, Table
  <2>. QED  BY <1>1, <2>1, FailsAlike
<1>5. CASE th[t].good
  <2>1. PICK q, n : q = [th[t] EXCEPT !.pc = "flush"] /\ n = th[t].to
    OBVIOUS
  <2>2. /\ DOMAIN q = Fields /\ q.pc = "flush" /\ q.op = "rename" /\ q.path = th[t].path /\ q.to = n
        /\ q.sess = th[t].sess /\ q.wrote = th[t].wrote
    BY <1>1, <2>1, OwnerHas, FieldNames
  <2>3. Go(t, q) /\ files' = EntryMoved(th[t]) /\ handle' = [handle EXCEPT ![h].path = n]
    BY <1>2, <1>3, <1>5, <2>1 DEF Renamed, Table
  <2>4. th'[t] = q /\ \A u \in Threads \ {t} : Aside(th'[u], th[u])
    BY <2>2, <2>3, OwnerHas, GoAside
  <2>5. files'[n] = h
    BY <1>2, <1>3, <2>1, <2>3 DEF EntryMoved, Copying, DaemonInv, HandlesAreRecords
  <2>6. SameText(h)
    BY <2>3, FieldChanged DEF Copying
  <2>7. Bright(t, h)' /\ Alone(t, h)'
    BY <1>3, <2>2, <2>4, <2>6 DEF Bright, SameText, Alone, Aside, AlikeCalls
  <2>8. ~IsDir(n)'
    BY <1>1, <1>2, <1>5, <2>1 DEF IsDir
  <2>9. Staged(t, n)'
    BY <2>5, <2>7, <2>8 DEF Staged, Bright, Alone
  <2>10. InSess(t)'
    BY <1>2, <2>2, <2>4, <2>9 DEF InSess, Way, Gone, Where, Staged, Bright, Alone, IsDir
  <2>11. Renaming(t)' /\ Releasing(t)' /\ ~Makes(th'[t])
    BY <2>2, <2>4 DEF Renaming, Requested, Releasing, Makes, OpensToWrite
  <2>. QED  BY <2>10, <2>11 DEF Account, Session
<1>. QED  BY <1>4, <1>5

\* The listings are dropped, and the call is over.
LEMMA OwnFlushes ==
  ASSUME Copying, NEW t \in Threads, Owner(t), FlushDirs(t)
  PROVE  Account(t)'
<1>1. /\ th[t].pc = "flush" /\ th[t].op \in {"unlink", "rename", "release"} /\ UNCHANGED <<files, handle, remote>>
  <2>1. th[t].pc = "flush" /\ UNCHANGED <<files, handle, remote>>
    BY DEF FlushDirs, At, Quiet, daemonVars
  <2>2. Way(th[t])
    BY OwnerHas
  <2>. QED  BY <2>1, <2>2 DEF Way, Requested
<1>2. PICK q : q = Over(th[t], TRUE)
  OBVIOUS
<1>3. Continues(th[t], q) /\ q.pc = "idle" /\ q.good /\ q.wrote = th[t].wrote /\ q.op = th[t].op
  <2>1. DOMAIN th[t] = Fields
    BY OwnerHas
  <2>. QED  BY <1>2, <2>1, OverWell
<1>4. Go(t, q)
  BY <1>2, OwnerHas DEF FlushDirs, Return, Restricted
<1>5. CASE th[t].op = "unlink"
  <2>1. DOMAIN q = Fields /\ CallsAreRecords
    BY <1>3, OwnerHas DEF Continues
  <2>2. PICK p : p = Followed(q, SessionAfter(q))
    OBVIOUS
  <2>. QED  BY <1>3, <1>4, <1>5, <2>1, <2>2, OwnEnds
<1>6. CASE th[t].op = "rename"
  <2>1. Staged(t, th[t].to)
    BY <1>1, <1>6, OwnerHas DEF Gone, Where
  <2>. QED  BY <1>1, <1>3, <1>4, <1>6, <2>1, EndsRenamed
<1>7. CASE th[t].op = "release"
  BY <1>3, <1>4, <1>7, EndsReleased
<1>. QED  BY <1>1, <1>5, <1>6, <1>7

\* So the session's own steps keep account of it.
LEMMA OwnerKeeps ==
  ASSUME Copying, NEW t \in Threads, Owner(t), Proceed(t)
  PROVE  Account(t)'
<1>1. ASSUME Waited(t) PROVE Account(t)'
  <2>1. th[t].op \in {"read", "write", "truncate", "flush"}
    BY <1>1, OwnerHas DEF Waited, At, Way, Requested
  <2>2. Go(t, Found(th[t], th[t].h)) /\ UNCHANGED <<files, handle, remote>>
    BY <1>1 DEF Waited, Quiet, Leave, Table, daemonVars
  <2>. QED  BY <2>1, <2>2, OwnFound
<1>. QED  BY <1>1, OwnerSteps, OwnAsk, OwnLock, OwnFinds, OwnEnters, OwnDrop, OwnClose, OwnSent, OwnRemoved, OwnLooks,
             OwnRenamed, OwnFlushes
-----------------------------------------------------------------------------
(***************************************************************************)
(* A call goes on, and begins.                                             *)
(***************************************************************************)
LEMMA OwnGoing ==
  ASSUME DaemonInv, Writings, NEW t \in Threads, Proceed(t)
  PROVE  /\ th'[t].writes => th[t].writes \/ th[t].op \in OpensToWrite
         /\ Makes(th'[t]) => th[t].op \in OpensToWrite
         /\ th'[t].writes \/ Makes(th'[t]) => th'[t].rival = th[t].rival
         /\ Writing(th'[t])
<1>. DEFINE r == th'[t]
<1>0. CallsAreRecords /\ Writing(th[t]) /\ th[t].pc # "idle"
  BY ProceedBusy DEF DaemonInv, Writings
<1>1. ASSUME r.op = th[t].op, r.sess = th[t].sess, r.writes = th[t].writes, r.rival = th[t].rival,
             r.wrote => th[t].wrote \/ th[t].op = "write"
      PROVE  /\ r.writes => th[t].writes \/ th[t].op \in OpensToWrite
             /\ Makes(r) => th[t].op \in OpensToWrite
             /\ r.writes \/ Makes(r) => r.rival = th[t].rival
             /\ Writing(r)
  BY <1>0, <1>1 DEF Writing, Makes
<1>2. ASSUME NEW q, Go(t, q), Continues(th[t], q)
      PROVE  /\ r.writes => th[t].writes \/ th[t].op \in OpensToWrite
             /\ Makes(r) => th[t].op \in OpensToWrite
             /\ r.writes \/ Makes(r) => r.rival = th[t].rival
             /\ Writing(r)
  <2>1. /\ DOMAIN q = Fields /\ q.op = th[t].op /\ q.sess = th[t].sess /\ q.writes = th[t].writes /\ q.rival = th[t].rival
        /\ q.wrote => th[t].wrote \/ th[t].op = "write"
    BY <1>2 DEF Continues
  <2>2. CASE q.pc # "idle"
    BY <1>0, <1>1, <1>2, <2>1, <2>2, GoSelf DEF Alongside
  <2>3. CASE q.pc = "idle"
    <3>1. r = Finished(t, q)[t] /\ r.pc = "idle"
      BY <1>0, <1>2, <2>1, <2>3, GoSelf
    <3>2. /\ r.sess = Followed(q, SessionAfter(q))
          /\ IF SessionAfter(q) = NoPath THEN ~r.writes /\ ~r.wrote
             ELSE /\ r.rival = q.rival
                  /\ r.writes = ((q.writes \/ q.op \in OpensToWrite) /\ ~(q.op = "unlink" /\ q.good))
                  /\ r.wrote = (q.wrote /\ ~(q.op = "unlink" /\ q.good))
      BY <1>0, <3>1, FinishedIs
    <3>3. SessionAfter(q) # NoPath => r.sess # NoPath
      BY <3>2, MountAssumption DEF Followed, Follows
    <3>4. Writing(r)
      BY <1>0, <2>1, <3>1, <3>2, <3>3 DEF Writing
    <3>. QED  BY <2>1, <3>1, <3>2, <3>4 DEF Makes
  <2>. QED  BY <2>2, <2>3
<1>3. CASE GoesOn(t)
  BY <1>2, <1>3 DEF GoesOn
<1>4. CASE Lock(t)
  BY <1>1, <1>4, LockIs DEF Alongside
<1>5. CASE UNCHANGED th
  BY <1>1, <1>5
<1>. QED  BY <1>3, <1>4, <1>5, ProceedGoesOn

\* A session that may write is opened.
LEMMA OpeningKeeps ==
  ASSUME Copying, NEW t \in Threads, Makes(th[t]), Opening(t), ~th[t].writes, Proceed(t)
  PROVE  Account(t)'
<1>0. /\ CallsAreRecords /\ DOMAIN th[t] = Fields /\ th[t].op \in OpensToWrite /\ th[t].path \in Paths
      /\ th[t].sess = NoPath /\ ~IsDir(th[t].path) /\ ~th[t].wrote
      /\ th[t].pc = "lock" \/ (Requested(th[t]) /\ th[t].then = "target")
  BY AtHand DEF Copying, Makes, Opening, DaemonInv, Writings, Writing
<1>1. Lock(t) \/ Ask(t) \/ TargetSeen(t)
  <2>1. th[t].pc \in {"lock", "ask", "heard"} /\ (th[t].pc = "heard" => th[t].then = "target")
    BY <1>0 DEF Requested
  <2>2. ~IntoSeen(t) /\ ~NewSeen(t)
    <3>1. ASSUME IntoSeen(t) PROVE FALSE
      <4>1. PICK kind \in {<<"into", "new">>, <<"into.dir", "new.dir">>} : th[t].pc = "heard" /\ th[t].then = kind[1]
        BY <3>1 DEF IntoSeen, Heard, At
      <4>. QED  BY <2>1, <4>1
    <3>2. ASSUME NewSeen(t) PROVE FALSE
      <4>1. PICK kind \in {<<"new", "renamed">>, <<"new.dir", "changed">>} : th[t].pc = "heard" /\ th[t].then = kind[1]
        BY <3>2 DEF NewSeen, Heard, At
      <4>. QED  BY <2>1, <4>1
    <3>. QED  BY <3>1, <3>2
  <2>. QED  BY <2>1, <2>2 DEF Proceed, Look, Put, Created, Find, Enter, Waited, Marked, Seen, Drop, Close, Sent, Changed,
              Removed, OldSeen, DirectorySeen, Renamed, FlushDirs, UnlockAgain, List, Listed, Reread, Heard, At
<1>2. ASSUME th'[t].writes = th[t].writes, th'[t].sess = th[t].sess, th'[t].path = th[t].path,
             th'[t].pc = "lock" \/ (Requested(th'[t]) /\ th'[t].then = "target"),
             remote'[th[t].path] = remote[th[t].path]
      PROVE  Account(t)'
  BY <1>0, <1>2 DEF Account, Opening, IsDir
<1>3. CASE Lock(t)
  <2>1. UNCHANGED remote
    BY <1>3 DEF Lock, Quiet, daemonVars
  <2>2. th[t].pc = "lock"
    BY <1>3 DEF Lock, At
  <2>3. th'[t].pc = "lock" \/ (th'[t].pc = "ask" /\ th'[t].then = "target")
    BY <1>0, <1>3, LockIs DEF Copying, LockedAs, OpensToWrite, Restricted, FullyWritable
  <2>. QED  BY <1>2, <1>3, <2>1, <2>3, LockIs DEF Copying, Alongside, Requested
<1>4. CASE Ask(t)
  <2>1. th[t].pc = "ask" /\ (UNCHANGED remote \/ remote' = Served(Asked(th[t])).after)
    BY <1>4, AskIs DEF Copying
  <2>2. th[t].req \notin Changes
    BY <1>0, <2>1 DEF Copying, Shapes, Shape, Changers, OpensToWrite
  <2>3. remote'[th[t].path] = remote[th[t].path]
    <3>1. Asked(th[t]).req = th[t].req
      BY DEF Asked
    <3>. QED  BY <1>0, <2>1, <2>2, <3>1, ServedTouches DEF Copying
  <2>4. th[t].then = "target"
    BY <1>0, <2>1
  <2>. QED  BY <1>2, <1>4, <2>3, <2>4, AskIs DEF Copying, Requested
<1>5. CASE TargetSeen(t)
  <2>1. \/ Go(t, Over(th[t], FALSE))
        \/ \E h \in Unused : \E new :
             /\ Go(t, Over(th[t], TRUE)) /\ files' = [files EXCEPT ![th[t].path] = h]
             /\ handle' = [handle EXCEPT ![h] = new] /\ new.staged /\ ~new.committed /\ UNCHANGED remote
    <3>1. CASE th[t].good /\ ~(th[t].op = "openw" /\ th[t].over)
      BY <1>5, <3>1 DEF TargetSeen
    <3>2. CASE ~(th[t].good /\ ~(th[t].op = "openw" /\ th[t].over))
      <4>1. PICK h \in Unused : 
              /\ Go(t, Over(th[t], TRUE)) /\ files' = [files EXCEPT ![th[t].path] = h]
              /\ handle' = [handle EXCEPT ![h] = [NewHandle EXCEPT !.path = th[t].path, !.staged = TRUE, !.disk = TRUE]]
              /\ UNCHANGED remote
        BY <1>5, <3>2 DEF TargetSeen, Table, Quiet, daemonVars
      <4>2. PICK new : new = [NewHandle EXCEPT !.path = th[t].path, !.staged = TRUE, !.disk = TRUE]
        OBVIOUS
      <4>3. new.staged /\ ~new.committed
        BY <4>2, HandleFields DEF NewHandle
      <4>. QED  BY <4>1, <4>2, <4>3
    <3>. QED  BY <3>1, <3>2
  <2>2. CASE Go(t, Over(th[t], FALSE))
    <3>1. PICK q : q = Over(th[t], FALSE)
      OBVIOUS
    <3>2. /\ DOMAIN q = Fields /\ q.pc = "idle" /\ q.good = FALSE /\ q.op = th[t].op /\ q.sess = NoPath
      BY <1>0, <3>1, FieldNames DEF Over
    <3>3. SessionAfter(q) = NoPath
      BY <1>0, <3>2 DEF SessionAfter
    <3>4. PICK p : p = Followed(q, SessionAfter(q))
      OBVIOUS
    <3>. QED  BY <1>0, <2>2, <3>1, <3>2, <3>3, <3>4, OwnEnds
  <2>3. ASSUME NEW h \in Unused, NEW new, Go(t, Over(th[t], TRUE)), files' = [files EXCEPT ![th[t].path] = h],
               handle' = [handle EXCEPT ![h] = new], new.staged, ~new.committed, UNCHANGED remote
        PROVE  Account(t)'
    <3>1. PICK q : q = Over(th[t], TRUE)
      OBVIOUS
    <3>2. /\ DOMAIN q = Fields /\ q.pc = "idle" /\ q.good = TRUE /\ q.op = th[t].op /\ q.path = th[t].path
          /\ q.wrote = th[t].wrote
      BY <1>0, <3>1, FieldNames DEF Over
    <3>3. PICK p \in Paths : p = th[t].path
      BY <1>0
    <3>4. SessionAfter(q) = p /\ Followed(q, p) = p
      BY <1>0, <3>2, <3>3 DEF SessionAfter, Opens, OpensToWrite, Followed, Follows
    <3>5. h \in Handles /\ files'[p] = h /\ handle'[h] = new
      BY <2>3, <3>3 DEF Unused, Copying, DaemonInv, HandlesAreRecords
    <3>6. \A u \in Threads \ {t} : th'[u].h # h
      <4>1. \A u \in Threads \ {t} : th[u].h # h
        BY <2>3, <3>5, IPCAssumption DEF Unused, Held, None
      <4>2. \A u \in Threads \ {t} : Aside(th'[u], th[u])
        BY <1>0, <2>3, <3>1, <3>2, GoAside
      <4>. QED  BY <4>1, <4>2 DEF Aside, AlikeCalls
    <3>7. ~IsDir(p)'
      BY <1>0, <2>3, <3>3 DEF IsDir
    <3>8. Ready(t, p, FALSE)'
      BY <2>3, <3>5, <3>6, <3>7 DEF Ready, Alone
    <3>9. ~q.wrote
      BY <1>0, <3>2
    <3>10. Ready(t, p, q.wrote)'
      BY <3>8, <3>9 DEF Ready
    <3>. QED  BY <1>0, <2>3, <3>1, <3>2, <3>4, <3>10, OwnEnds
  <2>. QED  BY <2>1, <2>2, <2>3
<1>. QED  BY <1>1, <1>3, <1>4, <1>5

\* A step of one's own call.
LEMMA OwnProceeds ==
  ASSUME Copying, NEW t \in Threads, Account(t), Proceed(t)
  PROVE  Account(t)'
<1>1. SUFFICES ASSUME ~th'[t].rival, th'[t].writes \/ Makes(th'[t]) PROVE Account(t)'
  BY DEF Account
<1>2. ~th[t].rival /\ th[t].pc # "idle"
  BY <1>1, OwnGoing, ProceedBusy DEF Copying
<1>3. CASE th[t].writes
  BY <1>2, <1>3, OwnerKeeps DEF Account, Owner
<1>4. CASE ~th[t].writes
  <2>1. Makes(th[t])
    BY <1>1, <1>2, <1>4, OwnGoing DEF Copying, Makes
  <2>. QED  BY <1>2, <1>4, <2>1, OpeningKeeps DEF Account
<1>. QED  BY <1>3, <1>4

\* A call begins, or is refused.
LEMMA OwnBegins ==
  ASSUME Copying, NEW t \in Threads, Account(t), NEW c \in Menu[fmode], Begin(t, c)
  PROVE  Account(t)'
<1>0. /\ UNCHANGED <<files, handle, remote>> /\ th[t].pc = "idle" /\ Writing(th[t]) /\ MayCall(t, c)
      /\ \A u \in Threads \ {t} : Aside(th'[u], th[u])
  BY BeginAside DEF Copying, Begin, Leave, Table, daemonVars, Writings
<1>1. ASSUME NEW p, p = th[t].sess, th[t].writes, ~th[t].rival, th'[t].wrote = th[t].wrote PROVE Staged(t, p)'
  <2>1. Staged(t, p)
    BY <1>0, <1>1 DEF Account, Session, InSess, Gone, Where
  <2>2. PICK w : w = th[t].wrote
    OBVIOUS
  <2>3. Ready(t, p, w)'
    BY <1>0, <2>1, <2>2, ReadyStays DEF Staged, Bright, IsDir
  <2>. QED  BY <1>1, <2>2, <2>3 DEF Ready, Staged, Bright, Alone, IsDir
<1>2. CASE RefusedAs(t)
  <2>1. /\ th'[t].pc = "idle" /\ th'[t].sess = th[t].sess /\ th'[t].writes = th[t].writes /\ th'[t].wrote = th[t].wrote
        /\ th'[t].rival = th[t].rival
    BY <1>2 DEF RefusedAs, Alongside
  <2>2. ASSUME ~th'[t].rival, th'[t].writes PROVE Session(t)'
    <3>1. PICK p : p = th[t].sess
      OBVIOUS
    <3>2. Staged(t, p)'
      BY <1>1, <2>1, <2>2, <3>1
    <3>3. InSess(t)'
      BY <2>1, <3>1, <3>2 DEF InSess, Gone, Where, Staged, Bright, Alone, IsDir
    <3>. QED  BY <2>1, <3>3 DEF Session, Renaming, Requested, Releasing
  <2>. QED  BY <1>0, <2>1, <2>2 DEF Account, Makes
<1>3. CASE BegunBy(t, c)
  <2>1. /\ th'[t].op = c.op /\ th'[t].path = c.path /\ th'[t].sess = th[t].sess /\ th'[t].writes = th[t].writes
        /\ th'[t].wrote = th[t].wrote
        /\ ~th'[t].rival => ~(th[t].sess # NoPath /\ th[t].rival)
        /\ BegunAs(th'[t], c)
    BY <1>3 DEF BegunBy, BegunFrom, BegunAs, Begun
  <2>2. \/ th'[t].pc = First(c) /\ th'[t].pc \in {"lock", "find", "drop", "list"}
        \/ th'[t].op = "mkdir"
        \/ th'[t].op = "rename" /\ th'[t].pc = "ask" /\ th'[t].then = "old" /\ th'[t].arg = th'[t].path
    BY <2>1 DEF BegunAs, OnlyDirectories, Copying
  <2>3. ASSUME ~th'[t].rival, th'[t].writes PROVE Session(t)'
    <3>1. PICK p : p = th[t].sess
      OBVIOUS
    <3>2. p # NoPath /\ ~th[t].rival
      BY <1>0, <2>1, <2>3, <3>1 DEF Writing
    <3>3. Staged(t, p)'
      BY <1>1, <2>1, <2>3, <3>1, <3>2
    <3>4. c.path = p /\ c.op \in InSession \union {"rename", "unlink"}
      BY <1>0, <3>1, <3>2 DEF MayCall, Open
    <3>5. Way(th'[t]) /\ th'[t].pc \notin {"flush", "close", "heard", "enter", "wait"}
          /\ (th'[t].pc = "ask" => th'[t].op = "rename" /\ th'[t].then = "old" /\ th'[t].arg = th'[t].path)
      BY <2>1, <2>2, <3>4 DEF Way, Requested, InSession, First, Removal, Asks, Refused, Restricted, CopyUpload, FullyWritable, Copying
    <3>6. InSess(t)'
      BY <2>1, <3>1, <3>3, <3>4, <3>5 DEF InSess, Gone, Where, Staged, Bright, Alone, IsDir
    <3>7. Renaming(t)' /\ Releasing(t)'
      BY <3>5 DEF Renaming, Releasing, Requested
    <3>. QED  BY <3>6, <3>7 DEF Session
  <2>4. ASSUME Makes(th'[t]) PROVE Opening(t)'
    <3>1. c.op \in OpensToWrite
      BY <2>1, <2>4 DEF Makes
    <3>2. th[t].sess = NoPath /\ ~IsDir(c.path)
      BY <1>0, <3>1 DEF MayCall, Open, OpensToWrite, InSession
    <3>3. th'[t].pc = "lock"
      BY <2>1, <2>2, <3>1 DEF First, OpensToWrite, CopyUpload, Restricted, Refused, Copying
    <3>. QED  BY <1>0, <2>1, <3>2, <3>3 DEF Opening, IsDir
  <2>. QED  BY <2>3, <2>4 DEF Account
<1>. QED  BY <1>2, <1>3, BeginIs DEF Copying
-----------------------------------------------------------------------------
(***************************************************************************)
(* Put together: every step keeps account of every session.                *)
(***************************************************************************)
LEMMA ModesStay ==
  ASSUME IPCNext
  PROVE  UNCHANGED <<fmode, dmode>>
<1>1. ASSUME NEW t \in Threads, Proceed(t) PROVE UNCHANGED <<fmode, dmode>>
  <2>1. CASE Ask(t)
    BY <2>1 DEF Ask, Answered, LostAnswer, Loses
  <2>2. CASE Look(t)
    BY <2>2 DEF Look, Quiet, daemonVars
  <2>3. CASE Enter(t)
    <3>1. CASE Uses(t)
      BY <3>1 DEF Uses, Quiet, daemonVars
    <3>. QED  BY <2>3, <3>1 DEF Enter, Quiet, daemonVars
  <2>. QED  BY <1>1, <2>1, <2>2, <2>3 DEF Proceed, Lock, Put, Created, TargetSeen, Find, Waited, Marked, Seen, Drop, Close, Sent,
              Changed, Removed, OldSeen, DirectorySeen, IntoSeen, NewSeen, Renamed, FlushDirs, UnlockAgain, List, Listed,
              Reread, Quiet, daemonVars
<1>2. ASSUME NEW t \in Threads, NEW c \in Menu[fmode], Begin(t, c) PROVE UNCHANGED <<fmode, dmode>>
  BY <1>2 DEF Begin, daemonVars
<1>3. ASSUME NEW h \in Handles, Download(h) PROVE UNCHANGED <<fmode, dmode>>
  BY <1>3 DEF Download, DownloadBegins, DownloadEnds, DownloadLost, callVars
<1>4. ASSUME NEW q \in late, Late(q), UNCHANGED fmode PROVE UNCHANGED <<fmode, dmode>>
  BY <1>4 DEF Late
<1>. QED  BY <1>1, <1>2, <1>3, <1>4 DEF IPCNext

\* What a step of u's does to another's session, in every mode.
LEMMA OthersHistory ==
  ASSUME DaemonInv, NEW u \in Threads, Proceed(u), NEW t \in Threads \ {u}
  PROVE  /\ Aside(th'[t], th[t]) /\ Alongside(th'[t], th[t])
         /\ th[t].sess # NoPath => th'[t].sess # NoPath
<1>0. CallsAreRecords
  BY DEF DaemonInv
<1>1. ASSUME th'[t] = th[t]
      PROVE  /\ Aside(th'[t], th[t]) /\ Alongside(th'[t], th[t])
             /\ th[t].sess # NoPath => th'[t].sess # NoPath
  BY <1>1 DEF Aside, AlikeCalls, Alongside
<1>2. ASSUME NEW q, Go(u, q), Continues(th[u], q)
      PROVE  /\ Aside(th'[t], th[t]) /\ Alongside(th'[t], th[t])
             /\ th[t].sess # NoPath => th'[t].sess # NoPath
  <2>1. DOMAIN q = Fields
    BY <1>2 DEF Continues
  <2>2. /\ Aside(th'[t], th[t]) /\ Alongside(th'[t], th[t])
        /\ th'[t] = th[t] \/ th'[t].sess = Followed(q, th[t].sess)
    BY <1>0, <1>2, <2>1, GoOthers
  <2>. QED  BY <2>2, MountAssumption DEF Followed, Follows
<1>3. CASE GoesOn(u)
  BY <1>2, <1>3 DEF GoesOn
<1>. QED  BY <1>1, <1>3, LockIs, ProceedGoesOn

LEMMA WritingAlike ==
  ASSUME NEW t \in Threads, Writing(th[t]), Aside(th'[t], th[t]), th'[t].writes = th[t].writes, th'[t].wrote = th[t].wrote,
         th[t].sess # NoPath => th'[t].sess # NoPath
  PROVE  Writing(th'[t])
BY DEF Writing, Aside, AlikeCalls

LEMMA WritingsNext ==
  ASSUME DaemonInv, Writings, IPCNext
  PROVE  Writings'
<1>1. ASSUME NEW u \in Threads, Proceed(u), NEW t \in Threads PROVE Writing(th'[t])
  <2>1. Writing(th[t])
    BY DEF Writings
  <2>. QED  BY <1>1, <2>1, OwnGoing, OthersHistory, WritingAlike DEF Alongside
<1>2. ASSUME NEW u \in Threads, NEW c \in Menu[fmode], Begin(u, c), NEW t \in Threads PROVE Writing(th'[t])
  <2>1. Writing(th[t]) /\ th[u].pc = "idle" /\ \A v \in Threads \ {u} : Aside(th'[v], th[v])
    BY <1>2, BeginAside DEF Writings
  <2>2. /\ th'[t].sess = th[t].sess /\ th'[t].writes = th[t].writes /\ th'[t].wrote = th[t].wrote
        /\ t = u => th'[t].pc = "idle" \/ th'[t].op = c.op
    BY <1>2, BeginIs DEF BegunBy, BegunFrom, RefusedAs, Alongside
  <2>3. c.op = "write" => th[u].writes
    BY <1>2 DEF Begin, MayCall
  <2>. QED  BY <2>1, <2>2, <2>3, WritingAlike DEF Writing
<1>3. ASSUME NEW h \in Handles, Download(h), NEW t \in Threads PROVE Writing(th'[t])
  BY <1>3 DEF Writings, Download, DownloadBegins, DownloadEnds, DownloadLost, callVars
<1>4. ASSUME NEW q \in late, th' = Disturbed(q), NEW t \in Threads PROVE Writing(th'[t])
  <2>1. DOMAIN th[t] = Fields /\ Writing(th[t])
    BY AtHand DEF Writings
  <2>2. th'[t] = th[t] \/ th'[t] = [th[t] EXCEPT !.rival = TRUE]
    BY <1>4 DEF Disturbed
  <2>. QED  BY <2>1, <2>2, FieldNames DEF Writing
<1>. QED  BY <1>1, <1>2, <1>3, <1>4 DEF IPCNext, Writings

LEMMA UnlockingNext ==
  ASSUME DaemonInv, LockInv, fault \in {"none", "stolen", "dead"}, Unlocking, IPCNext
  PROVE  Unlocking'
<1>0. SUFFICES ASSUME fmode # FullyWritable PROVE fault' # "stolen" /\ \A t \in Threads : th'[t].pc # "unlock"
  BY ModesStay DEF Unlocking
<1>1. fault # "stolen" /\ \A t \in Threads : th[t].pc # "unlock"
  BY <1>0 DEF Unlocking
<1>2. ASSUME NEW u \in Threads, Proceed(u) PROVE fault' # "stolen" /\ \A t \in Threads : th'[t].pc # "unlock"
  <2>0. fault = "none"
    BY <1>1, <1>2, ProceedBusy DEF Dead
  <2>1. ASSUME NEW q, Go(u, q), Continues(th[u], q) PROVE fault' # "stolen" /\ \A t \in Threads : th'[t].pc # "unlock"
    <3>1. DOMAIN q = Fields /\ q.holds = th[u].holds /\ q.pc # "unlock"
      BY <1>0, <2>1 DEF Continues
    <3>2. \A t \in Threads : th'[t].pc # "unlock"
      <4>1. th'[u].pc # "unlock"
        BY <2>1, <3>1, GoSelf DEF DaemonInv
      <4>2. \A t \in Threads \ {u} : th'[t].pc # "unlock"
        <5>1. \A t \in Threads \ {u} : Aside(th'[t], th[t])
          BY <2>1, <3>1, GoAside DEF DaemonInv
        <5>. QED  BY <1>1, <5>1 DEF Aside, AlikeCalls
      <4>. QED  BY <4>1, <4>2
    <3>3. \A p \in q.holds : p \in Paths /\ locks[p] = u
      BY <1>1, <2>0, <3>1 DEF LockInv, HeldIsLocked
    <3>4. fault' = fault
      BY <2>1, <3>3, MountAssumption DEF Go, Unlock
    <3>. QED  BY <2>0, <3>2, <3>4
  <2>2. CASE GoesOn(u)
    BY <2>1, <2>2 DEF GoesOn
  <2>3. CASE Lock(u)
    <3>1. UNCHANGED fault
      BY <2>3 DEF Lock
    <3>2. th'[u].pc # "unlock" /\ \A t \in Threads \ {u} : th'[t] = th[t]
      BY <2>3, LockIs DEF LockedAs
    <3>. QED  BY <1>1, <3>1, <3>2
  <2>4. CASE UNCHANGED th /\ fault' = "dead"
    BY <1>1, <2>4
  <2>. QED  BY <1>2, <2>2, <2>3, <2>4, ProceedGoesOn
<1>3. ASSUME NEW u \in Threads, NEW c \in Menu[fmode], Begin(u, c)
      PROVE  fault' # "stolen" /\ \A t \in Threads : th'[t].pc # "unlock"
  <2>1. /\ UNCHANGED fault /\ \A t \in Threads \ {u} : Aside(th'[t], th[t])
        /\ th[u].pc = "idle" /\ DOMAIN th[u] = Fields
        /\ Begun(th'[u], c) \/ Aside(th'[u], [th[u] EXCEPT !.good = FALSE])
    BY <1>3, BeginAside, AtHand
  <2>2. th'[u].pc # "unlock"
    BY <2>1, FieldNames DEF Begun, Aside, AlikeCalls
  <2>. QED  BY <1>1, <2>1, <2>2 DEF Aside, AlikeCalls
<1>4. ASSUME NEW h \in Handles, Download(h) PROVE fault' # "stolen" /\ \A t \in Threads : th'[t].pc # "unlock"
  BY <1>1, <1>4 DEF Download, DownloadBegins, DownloadEnds, DownloadLost, callVars
<1>5. ASSUME NEW q \in late, th' = Disturbed(q), UNCHANGED ipcVars
      PROVE  fault' # "stolen" /\ \A t \in Threads : th'[t].pc # "unlock"
  BY <1>1, <1>5, DisturbedAside DEF DaemonInv, ipcVars, Aside, AlikeCalls
<1>. QED  BY <1>2, <1>3, <1>4, <1>5 DEF IPCNext

LEMMA AccountsNext ==
  ASSUME DaemonInv, LockInv, SessionTyped, Clear, Shapes, OnceInv, IsRemote(remote), Writings, Accounts, IPCNext
  PROVE  Accounts'
<1>0. SUFFICES ASSUME fmode = 8, dmode = 8, fault' = "none", NEW t \in Threads PROVE Account(t)'
  BY ModesStay DEF Accounts
<1>1. ASSUME fault = "none" PROVE Copying /\ Account(t) /\ NamesAgree
  BY <1>0, <1>1 DEF Accounts, Copying, OnceInv
<1>2. ASSUME fault = "none", Untouched(t) PROVE Account(t)'
  BY <1>1, <1>2, AccountKept
<1>3. ASSUME NEW u \in Threads, Proceed(u) PROVE Account(t)'
  <2>1. fault = "none"
    BY <1>0, <1>3, FaultLasts
  <2>2. CASE u = t
    BY <1>1, <1>3, <2>1, <2>2, OwnProceeds
  <2>3. CASE u # t /\ th[t].rival
    BY <1>3, <2>3, OthersHistory DEF Account, Alongside
  <2>4. CASE u # t /\ ~th[t].rival
    BY <1>0, <1>2, <1>3, <2>1, <2>4, OtherProceeds
  <2>. QED  BY <2>2, <2>3, <2>4
<1>4. ASSUME NEW u \in Threads, NEW c \in Menu[fmode], Begin(u, c) PROVE Account(t)'
  <2>1. fault = "none"
    BY <1>0, <1>4 DEF Begin
  <2>2. CASE u = t
    BY <1>1, <1>4, <2>1, <2>2, OwnBegins
  <2>3. CASE u # t /\ ~th'[t].rival
    BY <1>2, <1>4, <2>1, <2>3, OtherBegins
  <2>. QED  BY <2>2, <2>3 DEF Account
<1>5. ASSUME NEW h \in Handles, Download(h) PROVE Account(t)'
  <2>1. fault = "none"
    BY <1>0, <1>5 DEF Download, DownloadBegins, DownloadEnds, DownloadLost
  <2>. QED  BY <1>2, <1>5, <2>1, DownloadAside
<1>6. ASSUME NEW q \in late, Late(q), th' = Disturbed(q), UNCHANGED ipcVars PROVE Account(t)'
  <2>1. fault = "none"
    BY <1>0, <1>6 DEF ipcVars
  <2>. QED  BY <1>2, <1>6, <2>1, LateAside DEF Account
<1>. QED  BY <1>3, <1>4, <1>5, <1>6 DEF IPCNext

MountWritten == MountListings /\ (front = "daemon" => Writings /\ Unlocking /\ Accounts)

LEMMA InitWritten == Init => MountWritten
<1>. SUFFICES ASSUME Init PROVE MountWritten
  OBVIOUS
<1>1. /\ fault = "none" /\ \A t \in Threads : th[t] = Idle
  BY DEF Init, IPCInit
<1>2. ~Idle.writes /\ ~Idle.wrote /\ Idle.pc = "idle"
  BY DEF Idle
<1>3. Writings /\ Unlocking /\ Accounts
  BY <1>1, <1>2 DEF Writings, Writing, Unlocking, Accounts, Account, Makes
<1>. QED  BY <1>3, InitListings DEF MountWritten

LEMMA NextWritten == MountWritten /\ [Next]_vars => MountWritten'
<1>. SUFFICES ASSUME MountWritten, [Next]_vars PROVE MountWritten'
  OBVIOUS
<1>0. MountListings' /\ front \in {"daemon", "direct"}
  BY NextListings DEF MountWritten, MountListings, MountClear, MountTyped, Fixed
<1>1. CASE front = "daemon" /\ IPCNext /\ UNCHANGED front
  <2>1. /\ DaemonInv /\ LockInv /\ SessionTyped /\ Clear /\ Shapes /\ OnceInv /\ IsRemote(remote)
        /\ fault \in {"none", "stolen", "dead"} /\ Writings /\ Unlocking /\ Accounts
    BY <1>1 DEF MountWritten, MountListings, MountClear, MountTyped, MountWaits, MountNames, MountLocks, IPCMountInv,
                Daemons, Counts
  <2>. QED  BY <1>0, <1>1, <2>1, WritingsNext, UnlockingNext, AccountsNext DEF MountWritten
<1>2. CASE front = "direct" /\ UNCHANGED front
  BY <1>0, <1>2 DEF MountWritten
<1>3. CASE UNCHANGED vars
  <2>1. UNCHANGED <<fmode, dmode, fault, th, files, handle, remote, front>>
    BY <1>3 DEF vars, callVars, ipcVars, daemonVars
  <2>2. front = "daemon" => Writings' /\ Unlocking'
    BY <2>1 DEF MountWritten, Writings, Unlocking
  <2>3. \A t \in Threads : Account(t)' = Account(t)
    BY <2>1 DEF Account, Makes, Opening, Session, InSess, Renaming, Releasing, Staged, Bright, Alone, IsDir
  <2>4. front = "daemon" => Accounts'
    BY <2>1, <2>3 DEF MountWritten, Accounts
  <2>. QED  BY <1>0, <2>1, <2>2, <2>4 DEF MountWritten
<1>. QED  BY <1>0, <1>1, <1>2, <1>3 DEF Next

LEMMA MountWrittenHolds == Spec => []MountWritten
BY InitWritten, NextWritten, PTL DEF Spec

\* A release that ends well has sent what its session wrote.
LEMMA OwnReleased ==
  ASSUME Copying, NEW t \in Threads, Owner(t), Proceed(t), th[t].op = "release", th[t].wrote,
         th'[t].pc = "idle", th'[t].good
  PROVE  t \in remote'[th[t].path].text
<1>0. /\ CallsAreRecords /\ DOMAIN th[t] = Fields
      /\ th[t].pc \in {"drop", "close", "flush"} \/ (Requested(th[t]) /\ th[t].then = "sent")
  BY OwnerHas DEF Way
<1>1. ASSUME NEW q, DOMAIN q = Fields, Go(t, q) PROVE q.pc = "idle" /\ q.good
  <2>1. q.pc = "idle"
    BY <1>0, <1>1, GoSelf
  <2>2. th'[t] = Finished(t, q)[t]
    BY <1>0, <1>1, <2>1, GoSelf
  <2>. QED  BY <1>0, <2>1, <2>2, FinishedIs
<1>2. /\ \A h : LET q == [th[t] EXCEPT !.pc = "close", !.h = h] IN DOMAIN q = Fields /\ q.pc = "close"
      /\ LET q == [th[t] EXCEPT !.pc = "flush"] IN DOMAIN q = Fields /\ q.pc = "flush"
      /\ LET q == Over(th[t], FALSE) IN DOMAIN q = Fields /\ ~q.good
      /\ LET q == Asking(th[t], "fs.uploadStaged", th[t].path, "sent") IN DOMAIN q = Fields /\ q.pc = "ask"
  BY <1>0, FieldNames DEF Over, Asking
<1>3. /\ \A h : ~Go(t, [th[t] EXCEPT !.pc = "close", !.h = h])
      /\ ~Go(t, [th[t] EXCEPT !.pc = "flush"])
      /\ ~Go(t, Over(th[t], FALSE))
      /\ ~Go(t, Asking(th[t], "fs.uploadStaged", th[t].path, "sent"))
  <2>1. ASSUME NEW q, DOMAIN q = Fields, q.pc # "idle" \/ ~q.good PROVE ~Go(t, q)
    BY <1>1, <2>1
  <2>2. ASSUME NEW h PROVE ~Go(t, [th[t] EXCEPT !.pc = "close", !.h = h])
    BY <1>2, <2>1
  <2>3. ~Go(t, [th[t] EXCEPT !.pc = "flush"])
    BY <1>2, <2>1
  <2>4. ~Go(t, Over(th[t], FALSE))
    BY <1>2, <2>1
  <2>5. ~Go(t, Asking(th[t], "fs.uploadStaged", th[t].path, "sent"))
    BY <1>2, <2>1
  <2>. QED  BY <2>2, <2>3, <2>4, <2>5
<1>5. CASE Ask(t)
  BY <1>5, AskIs DEF Copying
<1>6. CASE Drop(t)
  <2>1. Staged(t, th[t].sess) /\ th[t].pc = "drop"
    <3>1. th[t].pc = "drop"
      BY <1>6 DEF Drop, At
    <3>2. ~Gone(th[t]) /\ Where(th[t]) = th[t].sess
      BY <3>1 DEF Gone, Where
    <3>. QED  BY <3>1, <3>2, OwnerHas
  <2>2. files[th[t].path] # None
    BY <2>1, OwnerHas, IPCAssumption DEF Staged, Bright, None
  <2>. QED  BY <1>3, <1>6, <2>2 DEF Drop
<1>7. CASE Close(t)
  <2>1. handle[th[t].h].staged /\ ~handle[th[t].h].committed
    BY <1>7 DEF Close, At, Owner, Session, Releasing, Bright
  <2>. QED  BY <1>3, <1>7, <2>1 DEF Close
<1>8. CASE Sent(t)
  BY <1>3, <1>8 DEF Sent
<1>9. CASE FlushDirs(t)
  <2>1. th[t].pc = "flush" /\ UNCHANGED remote
    BY <1>9 DEF FlushDirs, At, Quiet, daemonVars
  <2>. QED  BY <2>1 DEF Owner, Session, Releasing
<1>10. Ask(t) \/ Drop(t) \/ Close(t) \/ Sent(t) \/ FlushDirs(t)
  <2>1. ~IntoSeen(t) /\ ~NewSeen(t)
    <3>1. ASSUME IntoSeen(t) PROVE FALSE
      <4>1. PICK kind \in {<<"into", "new">>, <<"into.dir", "new.dir">>} : th[t].pc = "heard" /\ th[t].then = kind[1]
        BY <3>1 DEF IntoSeen, Heard, At
      <4>. QED  BY <1>0, <4>1 DEF Requested
    <3>2. ASSUME NewSeen(t) PROVE FALSE
      <4>1. PICK kind \in {<<"new", "renamed">>, <<"new.dir", "changed">>} : th[t].pc = "heard" /\ th[t].then = kind[1]
        BY <3>2 DEF NewSeen, Heard, At
      <4>. QED  BY <1>0, <4>1 DEF Requested
    <3>. QED  BY <3>1, <3>2
  <2>2. th[t].pc \in {"drop", "close", "flush", "ask", "heard"} /\ (th[t].pc = "heard" => th[t].then = "sent")
    BY <1>0 DEF Requested
  <2>3. ~Lock(t) /\ ~Find(t) /\ ~Enter(t) /\ ~Waited(t) /\ ~Removed(t) /\ ~OldSeen(t) /\ ~Renamed(t)
    BY <2>2 DEF Lock, Find, Enter, Waited, Removed, OldSeen, Renamed, Heard, At
  <2>. QED  BY <2>1, <2>3, OwnerSteps
<1>. QED  BY <1>5, <1>6, <1>7, <1>8, <1>9, <1>10

\* In the copy-upload mode, whatever calls, renames, lost answers and late requests there
\* are on other paths: what a session has written is at the remote, under the name the file
\* has by then, when its Release reports success (ipcfs.go createStagedUpload, Write,
\* renameInFileRenameMode, Release).
THEOREM WrittenIsSent == Spec => LostWriteNeedsRival
<1>1. ASSUME MountWritten, Next, NEW t \in Threads, CopyUpload, dmode = fmode,
             Ends(t), th[t].op = "release", th[t].wrote, ~th[t].rival, th'[t].good
      PROVE  t \in remote'[th[t].path].text
  <2>1. fmode = 8 /\ dmode = 8 /\ th[t].pc # "idle" /\ th'[t].pc = "idle"
    BY <1>1 DEF CopyUpload, Ends, Busy
  <2>2. front = "daemon" /\ IPCNext
    BY <1>1, <2>1 DEF Next, MountWritten, MountListings, MountClear, MountTyped, MountWaits, MountInv, DirectInv
  <2>3. /\ DaemonInv /\ LockInv /\ SessionTyped /\ Clear /\ Shapes /\ OnceInv /\ IsRemote(remote)
        /\ fault \in {"none", "stolen", "dead"} /\ Writings /\ Unlocking /\ Accounts
    BY <1>1, <2>2 DEF MountWritten, MountListings, MountClear, MountTyped, MountWaits, MountNames, MountLocks, IPCMountInv,
                      Daemons, Counts
  <2>4. Proceed(t)
    <3>1. ASSUME NEW u \in Threads, Proceed(u), u # t PROVE FALSE
      BY <2>1, <2>3, <3>1, OthersHistory DEF Aside, AlikeCalls
    <3>2. ASSUME NEW u \in Threads, NEW c \in Menu[fmode], Begin(u, c) PROVE FALSE
      BY <2>1, <2>3, <3>2, BeginAside DEF Aside, AlikeCalls
    <3>3. ASSUME NEW h \in Handles, Download(h) PROVE FALSE
      BY <2>1, <3>3 DEF Download, DownloadBegins, DownloadEnds, DownloadLost, callVars
    <3>4. ASSUME NEW q \in late, th' = Disturbed(q) PROVE FALSE
      BY <2>1, <2>3, <3>4, DisturbedAside DEF DaemonInv, Aside, AlikeCalls
    <3>. QED  BY <2>2, <3>1, <3>2, <3>3, <3>4 DEF IPCNext
  <2>5. fault = "none"
    BY <2>1, <2>3, <2>4, ProceedBusy DEF Unlocking, FullyWritable, Dead
  <2>6. Copying /\ Account(t)
    BY <2>1, <2>3, <2>5 DEF Copying, OnceInv, Accounts
  <2>7. Owner(t)
    BY <1>1, <2>1, <2>3, <2>6 DEF Owner, Account, Writings, Writing
  <2>. QED  BY <1>1, <2>1, <2>4, <2>6, <2>7, OwnReleased
<1>2. MountWritten /\ [Next]_vars =>
        [\A t \in Threads :
           /\ CopyUpload /\ dmode = fmode
           /\ Ends(t) /\ th[t].op = "release" /\ th[t].wrote /\ ~th[t].rival /\ th'[t].good
           => t \in remote'[th[t].path].text]_vars
  BY <1>1
<1>. QED  BY <1>2, MountWrittenHolds, PTL DEF Spec, LostWriteNeedsRival
=============================================================================
