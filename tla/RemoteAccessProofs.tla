-------------------------- MODULE RemoteAccessProofs --------------------------
(***************************************************************************)
(* Theorems about RemoteAccess: what the daemon and hddctl do to the       *)
(* documents, for any callers, processes, mode flags, names and trees, and *)
(* before them about WritePolicy, the ladder of the daemon's modes.        *)
(***************************************************************************)
EXTENDS RemoteAccess, TLAPS, SequenceTheorems

LEMMA Rung ==
  ASSUME NEW m \in Modes, NEW i \in 1..m
  PROVE  Adds[i] \subseteq Can(m)
BY DEF Can

LEMMA LadderGrows ==
  ASSUME NEW m \in Modes, NEW n \in Modes, m <= n
  PROVE  Can(m) \subseteq Can(n)
<1>. SUFFICES ASSUME NEW x \in Can(m) PROVE x \in Can(n)
  OBVIOUS
<1>1. PICK i \in 1..m : x \in Adds[i]
  BY DEF Can
<1>2. i \in 1..n
  BY DEF Modes
<1>. QED  BY <1>1, <1>2, Rung

\* A set of modes has a least one: the first rung of the ladder that is in it.
LEMMA LeastMode ==
  ASSUME NEW given \in SUBSET Modes, given # {}
  PROVE  \E m \in given : \A f \in given : m <= f
<1>. DEFINE Least(m) == m \in given /\ \A f \in given : m <= f
<1>. SUFFICES \E m \in Modes : Least(m)
  OBVIOUS
<1>1. CASE 1 \in given
  <2>. Least(1)  BY <1>1 DEF Modes
  <2>. QED  BY DEF Modes
<1>2. CASE 1 \notin given /\ 2 \in given
  <2>. Least(2)  BY <1>2 DEF Modes
  <2>. QED  BY DEF Modes
<1>3. CASE {1, 2} \intersect given = {} /\ 3 \in given
  <2>. Least(3)  BY <1>3 DEF Modes
  <2>. QED  BY DEF Modes
<1>4. CASE {1, 2, 3} \intersect given = {} /\ 4 \in given
  <2>. Least(4)  BY <1>4 DEF Modes
  <2>. QED  BY DEF Modes
<1>5. CASE {1, 2, 3, 4} \intersect given = {}
  <2>1. CASE 5 \in given
    <3>. Least(5)  BY <1>5, <2>1 DEF Modes
    <3>. QED  BY DEF Modes
  <2>2. CASE 5 \notin given /\ 6 \in given
    <3>. Least(6)  BY <1>5, <2>2 DEF Modes
    <3>. QED  BY DEF Modes
  <2>3. CASE {5, 6} \intersect given = {} /\ 7 \in given
    <3>. Least(7)  BY <1>5, <2>3 DEF Modes
    <3>. QED  BY DEF Modes
  <2>4. CASE {5, 6, 7} \intersect given = {}
    <3>1. \A f \in given : f = 8  BY <1>5, <2>4 DEF Modes
    <3>2. Least(8)  BY <3>1
    <3>. QED  BY <3>2 DEF Modes
  <2>. QED  BY <2>1, <2>2, <2>3, <2>4
<1>. QED  BY <1>1, <1>2, <1>3, <1>4, <1>5

LEMMA PolicyIsLeast ==
  ASSUME NEW given \in SUBSET Modes, given # {}
  PROVE  PolicyFrom(given) \in given /\ \A f \in given : PolicyFrom(given) <= f
BY LeastMode DEF PolicyFrom, Min

\* Whatever flags the command line combines, the daemon's policy permits nothing
\* that one of them excludes (writePolicyFromArgs).
THEOREM MostRestrictiveWins ==
  \A given \in SUBSET Modes : \A f \in given : Can(PolicyFrom(given)) \subseteq Can(f)
<1>. TAKE given \in SUBSET Modes
<1>. TAKE f \in given
<1>1. PolicyFrom(given) \in Modes /\ PolicyFrom(given) <= f
  BY PolicyIsLeast
<1>. QED  BY <1>1, LadderGrows

\* A request that the combined policy lets through is one every given flag lets
\* through: no combination of flags opens a door (policyAllowsRequest).
THEOREM AdmittedByEveryFlag ==
  \A given \in SUBSET Modes : \A f \in given :
    \A request : Admits(PolicyFrom(given), request) => Admits(f, request)
<1>. TAKE given \in SUBSET Modes
<1>. TAKE f \in given
<1>. TAKE request
<1>1. PolicyFrom(given) \in Modes
  BY PolicyIsLeast
<1>. PolicyFrom(given) # FullyWritable
  BY <1>1 DEF Modes, FullyWritable
<1>2. Can(PolicyFrom(given)) \subseteq Can(f)
  BY MostRestrictiveWins
<1>. QED  BY <1>1, <1>2 DEF Admits
-----------------------------------------------------------------------------

CallFields == DOMAIN NoCall
DocFields == {"up", "name", "dir", "size"}

Making == {"fs.mkdir", "mkdir", "upload-dir"}
Uploading == {"fs.uploadStaged", "fs.close", "fs.markDirty", "upload", "upload-dir"}
Resolving == {"fs.open", "download", "fs.rename", "rename", "fs.remove", "rm"}
Transferring == {"fs.rename", "copy", "move"}
UploadVerbs == {"getsuggestname", "predupload", "dupload", "osbeginupload", "storage", "osendupload"}
TransferSteps == {"source", "dest", "source_id", "dest_id", "list", "moved", "left"}

\* Which requests come to which step, and to which post.
InStep(q) ==
  /\ q.pc = "parent" => q.req.op \in (Making \union Uploading) \ {"upload-dir"}
  /\ q.pc \in {"dir_parent", "child"} => q.req.op = "upload-dir"
  /\ q.pc = "verify" => q.req.op = "upload"
  /\ q.pc = "resolve" => q.req.op \in Resolving
  /\ q.pc \in TransferSteps => q.req.op \in Transferring
  /\ q.pc = "copying" => q.req.op = "copy"
  /\ q.pc \in {"old", "into", "new", "old_gone", "new_there"} => q.req.op = "fs.rename"
  /\ q.pc = "removing" => q.req.op = "fs.remove"
  /\ q.pc = "target" => q.req.op = "fs.uploadStaged"
  /\ q.out = "post" => q.pc = "posted"
  /\ q.pc = "posted" =>
       /\ q.out \in {"post", "found", "none"}
       /\ q.verb = "dir/create" => q.req.op \in Making
       /\ q.verb \in UploadVerbs => q.req.op \in Uploading
       /\ q.verb = "rename" => q.req.op \in {"fs.rename", "rename"}
       /\ q.verb = "delete" => q.req.op \in {"fs.remove", "rm"}
       /\ q.verb = "move" => q.req.op \in {"fs.rename", "move"}
       /\ q.verb = "copy" => q.req.op = "copy"
       /\ q.verb \in UploadVerbs \union {"dir/create", "rename", "delete", "move", "copy", "osdownload", "fetch"}

\* What a daemon of the restricted mode m has made sure of by then.
Heeds(m, q) ==
  LET same == SameParent(q.req.path, q.req.to) IN
  /\ Admits(m, q.req.op) /\ q.req.op \notin {"fs.close", "fs.markDirty"}
  /\ q.req.op = "fs.rename" =>
       /\ q.pc \in {"into", "new", "resolve", "posted"} \union TransferSteps =>
            LetsRename(m, q.was.dir, same, SameName(q.req.path, q.req.to))
       /\ q.pc = "resolve" \/ (q.pc = "posted" /\ q.verb = "rename") => same
       /\ q.pc \in TransferSteps \/ (q.pc = "posted" /\ q.verb = "move") => ~same
  /\ q.req.op = "fs.remove" /\ q.pc \in {"resolve", "posted"} =>
       (IF q.was.dir THEN "deleteDir" ELSE "deleteFile") \in Can(m)

\* c's request is one of its menu, up to the policy a copy chooses.
Requested(c, r) ==
  /\ r \in [op : FSRequests \union RemoteCommands, path : Paths, to : Paths, dup : Policies, size : Nat]
  /\ r \in Menu[c] \/ r.op = "copy"
  /\ r.op \in FSRequests <=> OfDaemon(c)
  /\ r.op = "fs.rename" => r.dup = "fail"

Sound(m, c, q) ==
  /\ DOMAIN q = CallFields
  /\ q.out \in {"ask", "got", "post", "found", "none"} /\ q.ans \in {"none", "ok", "error"}
  /\ q.pc = "done" => q.out = "found"
  /\ q.pc # "done" => Requested(c, q.req) /\ InStep(q) /\ (OfDaemon(c) /\ m # FullyWritable => Heeds(m, q))

CallsAreSound == call = [c \in Callers |-> call[c]] /\ \A c \in Callers : Sound(mode, c, call[c])

\* The documents are a sequence of records; nothing is assumed of their names.
AreDocs(d) ==
  /\ Len(d) \in Nat /\ d = [i \in 1..Len(d) |-> d[i]]
  /\ \A i \in 1..Len(d) : DOMAIN d[i] = DocFields /\ d[i].dir \in BOOLEAN

\* Docids that are cached, listed or in hand are of documents that are or were there.
ToDocs(n, k) == \A path \in DOMAIN k : k[path].id \in 1..n
HasDocs(n, q) ==
  /\ \A e \in q.got : e.id \in 1..n
  /\ q.pc = "posted" /\ q.verb = "dir/create" /\ q.out = "found" => q.new \in 1..n
  /\ q.req.op = "upload-dir" /\ (q.pc = "child" \/ (q.pc = "posted" /\ q.verb # "dir/create")) =>
       q.dst \in 1..n
DocsAreKnown ==
  /\ known = [p \in {Process[c] : c \in Callers} |-> known[p]]
  /\ \A p \in DOMAIN known : ToDocs(Len(docs), known[p])
  /\ \A c \in Callers : HasDocs(Len(docs), call[c])

AccessInv ==
  /\ flags \in SUBSET Modes /\ made \in 0..MaxCalls /\ faults \in 0..MaxFaults
  /\ CallsAreSound /\ AreDocs(docs) /\ IsTree(docs) /\ DocsAreKnown
-----------------------------------------------------------------------------
(* The server's documents. *)

LEMMA DocsAppended ==
  ASSUME NEW d, AreDocs(d), NEW e, DOMAIN e = DocFields, e.dir \in BOOLEAN
  PROVE  /\ AreDocs(Append(d, e)) /\ Len(Append(d, e)) = Len(d) + 1
         /\ \A i \in 1..Len(d) : Append(d, e)[i] = d[i]
         /\ Append(d, e)[Len(d) + 1] = e
<1>. DEFINE S == {d[i] : i \in 1..Len(d)} \union {e}
            a == Append(d, e)
<1>1. d \in [1..Len(d) -> S] /\ Len(d) \in Nat
  BY DEF AreDocs
<1>2. d \in Seq(S) /\ e \in S
  BY <1>1, SeqDef
<1>. HIDE DEF S
<1>3. /\ a \in Seq(S) /\ Len(a) = Len(d) + 1
      /\ \A i \in 1..Len(d) : a[i] = d[i]
      /\ a[Len(d) + 1] = e
  BY <1>1, <1>2, AppendProperties
<1>4. a \in [1..Len(a) -> S]
  BY <1>3, LenProperties
<1>. HIDE DEF a
<1>5. a = [i \in 1..Len(a) |-> a[i]]
  BY <1>4
<1>6. AreDocs(a)
  <2>. SUFFICES ASSUME NEW i \in 1..Len(a) PROVE DOMAIN a[i] = DocFields /\ a[i].dir \in BOOLEAN
    BY <1>1, <1>3, <1>5 DEF AreDocs
  <2>. i \in 1..Len(d) \/ i = Len(d) + 1
    BY <1>1, <1>3
  <2>. QED  BY <1>3 DEF AreDocs
<1>. QED  BY <1>3, <1>6 DEF a

LEMMA DocsChanged ==
  ASSUME NEW d, AreDocs(d), NEW a, a = [i \in 1..Len(d) |-> a[i]],
         \A i \in 1..Len(d) : DOMAIN a[i] = DocFields /\ a[i].dir \in BOOLEAN
  PROVE  AreDocs(a) /\ Len(a) = Len(d)
<1>. DEFINE S == {a[i] : i \in 1..Len(d)}
<1>1. a \in [1..Len(d) -> S] /\ Len(d) \in Nat
  BY DEF AreDocs
<1>2. a \in Seq(S)
  BY <1>1, SeqDef
<1>3. DOMAIN a = 1..Len(d) /\ DOMAIN a = 1..Len(a) /\ Len(a) \in Nat
  BY <1>1, <1>2, LenProperties
<1>4. Len(a) = Len(d)
  BY <1>1, <1>3
<1>. QED  BY <1>4, <1>1 DEF AreDocs

\* A tree, entry by entry.
EachInPlace(d) ==
  \A i \in Live(d) :
    /\ Directory(d, d[i].up)
    /\ \A j \in Live(d) : d[j].up = d[i].up /\ d[j].name = d[i].name => j = i

LEMMA TreeIsEach == \A d : IsTree(d) <=> EachInPlace(d)
<1>. SUFFICES ASSUME NEW d, NEW i \in Live(d)
              PROVE NamedIn(d, d[i].up, d[i].name) = {i}
                    <=> \A j \in Live(d) : d[j].up = d[i].up /\ d[j].name = d[i].name => j = i
  BY DEF IsTree, EachInPlace
<1>. QED  BY DEF NamedIn, Children

LEMMA LiveIn == \A d : Live(d) \subseteq 1..Len(d)
BY DEF Live

LEMMA DirectoriesAreIn ==
  ASSUME NEW d, AreDocs(d), NEW id, Directory(d, id)
  PROVE  id \in 0..Len(d) /\ id # Gone
<1>1. Len(d) \in Nat /\ Root \in 0..Len(d)
  BY DEF AreDocs, Root
<1>2. id \in 0..Len(d)
  BY <1>1, LiveIn DEF Directory
<1>. QED  BY <1>1, <1>2 DEF Gone

\* What making a document does: it is appended, or one of its name gets new content.
Made(d, a, dir, dup) ==
  \/ /\ Len(a) = Len(d) + 1 /\ \A i \in 1..Len(d) : a[i] = d[i]
     /\ a[Len(a)].dir = dir /\ Len(a) \in Live(a)
  \/ /\ dup = 3 /\ Len(a) = Len(d)
     /\ \A i \in 1..Len(d) : a[i].up = d[i].up /\ a[i].name = d[i].name

LEMMA CreatedKeeps ==
  ASSUME NEW d, AreDocs(d), IsTree(d), NEW up, NEW name, NEW dir \in BOOLEAN, NEW size, NEW dup,
         Created(d, up, name, dir, size, dup) # Refused
  PROVE  LET a == Created(d, up, name, dir, size, dup) IN
         AreDocs(a) /\ IsTree(a) /\ Made(d, a, dir, dup)
<1>. DEFINE a == Created(d, up, name, dir, size, dup)
            same == NamedIn(d, up, name)
<1>. Directory(d, up)
  BY DEF Created
<1>0. up \in 0..Len(d) /\ up # Gone /\ Len(d) \in Nat
  BY DirectoriesAreIn DEF AreDocs
<1>1. ASSUME NEW n, NamedIn(d, up, n) = {}, a = Append(d, Doc(up, n, dir, size))
      PROVE  AreDocs(a) /\ IsTree(a) /\ Made(d, a, dir, dup)
  <2>. DEFINE e == Doc(up, n, dir, size)
  <2>1. DOMAIN e = DocFields /\ e.up = up /\ e.name = n /\ e.dir = dir
    BY DEF Doc, DocFields
  <2>. HIDE DEF e, a
  <2>2. /\ AreDocs(a) /\ Len(a) = Len(d) + 1
        /\ \A i \in 1..Len(d) : a[i] = d[i]
        /\ a[Len(d) + 1] = e
    BY <1>1, <2>1, DocsAppended DEF e
  <2>3. Live(a) = Live(d) \union {Len(d) + 1}
    BY <1>0, <2>1, <2>2 DEF Live
  <2>4. \A id : Directory(d, id) => Directory(a, id)
    BY <2>2, <2>3, LiveIn DEF Directory
  <2>5. \A j \in Live(d) : ~(d[j].up = up /\ d[j].name = n)
    BY <1>1 DEF NamedIn, Children
  <2>6. EachInPlace(a)
    <3>. SUFFICES ASSUME NEW i \in Live(a)
                  PROVE  /\ Directory(a, a[i].up)
                         /\ \A j \in Live(a) : a[j].up = a[i].up /\ a[j].name = a[i].name => j = i
      BY DEF EachInPlace
    <3>1. EachInPlace(d)
      BY TreeIsEach
    <3>2. CASE i = Len(d) + 1
      BY <1>0, <2>1, <2>2, <2>3, <2>4, <2>5, <3>2, LiveIn
    <3>3. CASE i \in Live(d)
      BY <1>0, <2>1, <2>2, <2>3, <2>4, <2>5, <3>1, <3>3, LiveIn DEF EachInPlace
    <3>. QED  BY <2>3, <3>2, <3>3
  <2>. QED  BY <1>0, <2>1, <2>2, <2>3, <2>6, TreeIsEach DEF Made
<1>2. CASE same = {}
  <2>. a = Append(d, Doc(up, name, dir, size))
    BY <1>0, <1>2 DEF Created
  <2>. QED  BY <1>1, <1>2
<1>3. CASE same # {} /\ dup = 2
  <2>. FreeNames(d, up) # {} /\ a = Append(d, Doc(up, FreeName(d, up), dir, size))
    BY <1>0, <1>3 DEF Created
  <2>. NamedIn(d, up, FreeName(d, up)) = {}
    BY DEF FreeName, FreeNames, OneOf
  <2>. QED  BY <1>1
<1>4. CASE same # {} /\ dup # 2
  <2>. DEFINE r == OneOf(same)
  <2>0. dup = 3 /\ ~dir /\ a = [d EXCEPT ![r].size = size]
    <3>1. dup = 3 /\ ~dir /\ \A i \in same : ~d[i].dir
      BY <1>4 DEF Created
    <3>. QED  BY <1>4, <3>1 DEF Created
  <2>1. r \in same
    BY <1>4 DEF OneOf
  <2>2. r \in Live(d)
    BY <2>1 DEF NamedIn, Children
  <2>. HIDE DEF r, a
  <2>3. /\ a = [i \in 1..Len(d) |-> a[i]]
        /\ \A i \in 1..Len(d) : /\ DOMAIN a[i] = DocFields /\ a[i].dir = d[i].dir
                                /\ a[i].up = d[i].up /\ a[i].name = d[i].name
    BY <2>0, <2>2, LiveIn DEF AreDocs, DocFields
  <2>4. AreDocs(a) /\ Len(a) = Len(d)
    BY <2>3, DocsChanged DEF AreDocs
  <2>5. Live(a) = Live(d) /\ \A id : Directory(a, id) <=> Directory(d, id)
    BY <2>3, <2>4 DEF Live, Directory
  <2>6. EachInPlace(a)
    BY <2>3, <2>5, TreeIsEach, LiveIn DEF EachInPlace
  <2>7. AreDocs(a) /\ IsTree(a) /\ Made(d, a, dir, dup)
    BY <2>0, <2>3, <2>4, <2>6, TreeIsEach DEF Made
  <2>. QED  BY <2>7 DEF a
<1>. QED  BY <1>2, <1>3, <1>4

LEMMA RenamedKeeps ==
  ASSUME NEW d, AreDocs(d), IsTree(d), NEW id, NEW name, Renamed(d, id, name) # Refused
  PROVE  LET a == Renamed(d, id, name) IN
         /\ AreDocs(a) /\ IsTree(a) /\ Len(a) = Len(d) /\ id \in Live(d)
         /\ \A i \in 1..Len(d) : /\ a[i].up = d[i].up /\ a[i].size = d[i].size
                                 /\ i # id => a[i].name = d[i].name
<1>. DEFINE a == Renamed(d, id, name)
<1>1. /\ id \in Live(d) /\ a = [d EXCEPT ![id].name = name]
      /\ NamedIn(d, d[id].up, name) \subseteq {id}
  BY DEF Renamed
<1>. HIDE DEF a
<1>2. id \in 1..Len(d)
  BY <1>1, LiveIn
<1>3. /\ a = [i \in 1..Len(d) |-> a[i]]
      /\ \A i \in 1..Len(d) : /\ DOMAIN a[i] = DocFields /\ a[i].dir = d[i].dir
                              /\ a[i].up = d[i].up /\ a[i].size = d[i].size
                              /\ a[i].name = IF i = id THEN name ELSE d[i].name
  BY <1>1, <1>2 DEF AreDocs, DocFields
<1>4. AreDocs(a) /\ Len(a) = Len(d)
  BY <1>3, DocsChanged DEF AreDocs
<1>5. Live(a) = Live(d) /\ \A up : Directory(a, up) <=> Directory(d, up)
  BY <1>3, <1>4 DEF Live, Directory
<1>6. \A j \in Live(d) : d[j].up = d[id].up /\ d[j].name = name => j = id
  BY <1>1 DEF NamedIn, Children
<1>7. EachInPlace(a)
  <2>1. EachInPlace(d) /\ \A i \in Live(d) : i \in 1..Len(d)
    BY TreeIsEach, LiveIn
  <2>2. \A i \in Live(d) : Directory(a, a[i].up)
    BY <1>3, <1>5, <2>1 DEF EachInPlace
  <2>3. ASSUME NEW i \in Live(d), NEW j \in Live(d), a[j].up = a[i].up, a[j].name = a[i].name
        PROVE  j = i
    BY <1>3, <1>6, <2>1, <2>3 DEF EachInPlace
  <2>. QED  BY <1>5, <2>2, <2>3 DEF EachInPlace
<1>8. AreDocs(a) /\ IsTree(a)
  BY <1>4, <1>7, TreeIsEach
<1>. QED  BY <1>1, <1>3, <1>4, <1>8 DEF a

\* Nothing stays in a directory that is removed.
LEMMA DeletedKeeps ==
  ASSUME NEW d, AreDocs(d), IsTree(d), NEW id, Deleted(d, id) # Refused
  PROVE  LET a == Deleted(d, id) IN
         /\ AreDocs(a) /\ IsTree(a) /\ Len(a) = Len(d)
         /\ \A i \in 1..Len(d) : /\ a[i].name = d[i].name /\ a[i].size = d[i].size
                                 /\ a[i].up \in {d[i].up, Gone}
<1>. DEFINE a == Deleted(d, id)
            gone(i) == i \in Live(d) /\ Within(d, i, id)
<1>1. /\ id \in Live(d)
      /\ a = [i \in DOMAIN d |-> IF gone(i) THEN [d[i] EXCEPT !.up = Gone] ELSE d[i]]
  BY DEF Deleted
<1>2. \A i \in Live(d) : gone(d[i].up) => gone(i)
  BY DEF Within
<1>. HIDE DEF a, gone
<1>3. DOMAIN d = 1..Len(d)
  BY DEF AreDocs
<1>4. /\ a = [i \in 1..Len(d) |-> a[i]]
      /\ \A i \in 1..Len(d) : /\ DOMAIN a[i] = DocFields /\ a[i].dir = d[i].dir
                              /\ a[i].name = d[i].name /\ a[i].size = d[i].size
                              /\ a[i].up = IF gone(i) THEN Gone ELSE d[i].up
  BY <1>1, <1>3 DEF AreDocs, DocFields
<1>5. AreDocs(a) /\ Len(a) = Len(d)
  BY <1>4, DocsChanged DEF AreDocs
<1>6. \A i : i \in Live(a) <=> i \in Live(d) /\ ~gone(i)
  BY <1>4, <1>5 DEF Live
<1>7. \A up : Directory(d, up) /\ ~gone(up) => Directory(a, up)
  BY <1>4, <1>6, LiveIn DEF Directory
<1>8. EachInPlace(a)
  BY <1>2, <1>4, <1>6, <1>7, TreeIsEach, LiveIn DEF EachInPlace
<1>. QED  BY <1>4, <1>5, <1>8, TreeIsEach DEF a

LEMMA MovedKeeps ==
  ASSUME NEW d, AreDocs(d), IsTree(d), NEW id, NEW up, NEW dup, Moved(d, id, up, dup) # Refused
  PROVE  LET a == Moved(d, id, up, dup) IN
         /\ AreDocs(a) /\ IsTree(a) /\ Len(a) = Len(d) /\ id \in Live(d)
         /\ dup # 3 => \A i \in 1..Len(d) \ {id} : a[i] = d[i]
         /\ \A i \in 1..Len(d) : /\ a[i].size = d[i].size
                                 /\ a[i].up = Gone /\ i \in Live(d) => dup = 3
         /\ dup = 1 => a[id].name = d[id].name
<1>. DEFINE a == Moved(d, id, up, dup)
            same == NamedIn(d, up, d[id].name) \ {id}
<1>1. id \in Live(d) /\ Directory(d, up)
  BY DEF Moved
<1>2. up \in 0..Len(d) /\ up # Gone /\ id \in 1..Len(d) /\ Len(d) \in Nat
  BY <1>1, DirectoriesAreIn, LiveIn DEF AreDocs
\* In b the document is at a place of its own; what it replaces, r, is a file.
<1>. DEFINE Placed(n, r, b) ==
              /\ r \subseteq 1..Len(d) /\ id \notin r /\ \A i \in r : ~d[i].dir
              /\ NamedIn(d, up, n) \ {id} \subseteq r
              /\ b = [i \in 1..Len(d) |-> b[i]]
              /\ \A i \in 1..Len(d) :
                   /\ DOMAIN b[i] = DocFields /\ b[i].dir = d[i].dir
                   /\ b[i].up = IF i = id THEN up ELSE IF i \in r THEN Gone ELSE d[i].up
                   /\ b[i].name = IF i = id THEN n ELSE d[i].name
<1>3. ASSUME NEW n, NEW r, NEW b, Placed(n, r, b)
      PROVE  AreDocs(b) /\ IsTree(b) /\ Len(b) = Len(d)
  <2>1. AreDocs(b) /\ Len(b) = Len(d)
    BY <1>3, DocsChanged DEF AreDocs
  <2>2. Live(b) = Live(d) \ r
    BY <1>1, <1>2, <1>3, <2>1 DEF Live
  <2>3. \A p : Directory(d, p) => Directory(b, p)
    BY <1>3, <2>2, LiveIn DEF Directory
  <2>4. \A j \in Live(d) \ r : d[j].up = up /\ d[j].name = n => j = id
    BY <1>3 DEF NamedIn, Children
  <2>5. EachInPlace(b)
    <3>. SUFFICES ASSUME NEW i \in Live(d) \ r
                  PROVE  /\ Directory(b, b[i].up)
                         /\ \A j \in Live(d) \ r : b[j].up = b[i].up /\ b[j].name = b[i].name => j = i
      BY <2>2 DEF EachInPlace
    <3>1. EachInPlace(d)
      BY TreeIsEach
    <3>2. Directory(b, b[i].up)
      BY <1>1, <1>3, <2>3, <3>1, LiveIn DEF EachInPlace
    <3>3. \A j \in Live(d) \ r : b[j].up = b[i].up /\ b[j].name = b[i].name => j = i
      BY <1>3, <2>4, <3>1, LiveIn DEF EachInPlace
    <3>. QED  BY <3>2, <3>3
  <2>. QED  BY <2>1, <2>5, TreeIsEach
<1>. HIDE DEF Placed
<1>4. CASE same = {}
  <2>1. a = [d EXCEPT ![id].up = up]
    BY <1>1, <1>4 DEF Moved
  <2>. HIDE DEF a
  <2>2. /\ a = [i \in 1..Len(d) |-> a[i]]
        /\ \A i \in 1..Len(d) : /\ DOMAIN a[i] = DocFields /\ a[i].dir = d[i].dir /\ a[i].size = d[i].size
                                /\ a[i].up = IF i = id THEN up ELSE d[i].up
                                /\ a[i].name = d[i].name
                                /\ i # id => a[i] = d[i]
    BY <1>2, <2>1 DEF AreDocs, DocFields
  <2>3. AreDocs(a) /\ IsTree(a) /\ Len(a) = Len(d)
    <3>. Placed(d[id].name, {}, a)
      BY <1>4, <2>2 DEF Placed
    <3>. QED  BY <1>3
  <2>4. \A i \in Live(d) : a[i].up # Gone
    BY <1>2, <2>2, LiveIn DEF Live
  <2>. QED  BY <1>1, <1>2, <2>2, <2>3, <2>4 DEF a
<1>5. CASE same # {} /\ dup = 2
  <2>. DEFINE n == FreeName(d, up)
  <2>1. FreeNames(d, up) # {} /\ a = [d EXCEPT ![id].up = up, ![id].name = n]
    BY <1>1, <1>5 DEF Moved
  <2>2. NamedIn(d, up, n) = {}
    BY <2>1 DEF FreeName, FreeNames, OneOf
  <2>. HIDE DEF a, n
  <2>3. /\ a = [i \in 1..Len(d) |-> a[i]]
        /\ \A i \in 1..Len(d) : /\ DOMAIN a[i] = DocFields /\ a[i].dir = d[i].dir /\ a[i].size = d[i].size
                                /\ a[i].up = IF i = id THEN up ELSE d[i].up
                                /\ a[i].name = IF i = id THEN n ELSE d[i].name
                                /\ i # id => a[i] = d[i]
    BY <1>2, <2>1 DEF AreDocs, DocFields
  <2>4. AreDocs(a) /\ IsTree(a) /\ Len(a) = Len(d)
    <3>. Placed(n, {}, a)
      BY <2>2, <2>3 DEF Placed
    <3>. QED  BY <1>3
  <2>5. \A i \in Live(d) : a[i].up # Gone
    BY <1>2, <2>3, LiveIn DEF Live
  <2>. QED  BY <1>1, <1>2, <1>5, <2>3, <2>4, <2>5 DEF a
<1>6. CASE same # {} /\ dup # 2
  <2>. DEFINE r == OneOf(same)
  <2>1. dup = 3 /\ a = [d EXCEPT ![id].up = up, ![r].up = Gone]
    BY <1>1, <1>6 DEF Moved
  <2>2. \A i \in same : ~d[i].dir
    BY <1>1, <1>6 DEF Moved
  <2>3. r \in same
    BY <1>6 DEF OneOf
  <2>4. r \in 1..Len(d) /\ r # id /\ r \in Live(d) /\ d[r].up = up /\ d[r].name = d[id].name
    BY <2>3, LiveIn DEF NamedIn, Children
  <2>5. same = {r}
    BY <2>4, TreeIsEach DEF EachInPlace, NamedIn, Children
  <2>. HIDE DEF a, r
  <2>6. /\ a = [i \in 1..Len(d) |-> a[i]]
        /\ \A i \in 1..Len(d) : /\ DOMAIN a[i] = DocFields /\ a[i].dir = d[i].dir /\ a[i].size = d[i].size
                                /\ a[i].up = IF i = id THEN up ELSE IF i = r THEN Gone ELSE d[i].up
                                /\ a[i].name = d[i].name
    <3>1. DOMAIN d = 1..Len(d)
      BY DEF AreDocs
    <3>2. a = [i \in 1..Len(d) |-> IF i = r THEN [d[i] EXCEPT !.up = Gone]
                                   ELSE IF i = id THEN [d[i] EXCEPT !.up = up] ELSE d[i]]
      BY <1>2, <2>1, <2>4, <3>1
    <3>. QED  BY <2>4, <3>2 DEF AreDocs, DocFields
  <2>7. AreDocs(a) /\ IsTree(a) /\ Len(a) = Len(d)
    <3>. Placed(d[id].name, {r}, a)
      BY <2>2, <2>4, <2>5, <2>6 DEF Placed
    <3>. QED  BY <1>3
  <2>. QED  BY <1>1, <1>2, <2>1, <2>6, <2>7 DEF a
<1>. QED  BY <1>4, <1>5, <1>6
-----------------------------------------------------------------------------
(* Calls: what the steps leave of one. *)

LEMMA CallNames ==
  CallFields = {"req", "pc", "ans", "goal", "whole", "at", "out", "got", "info", "was", "source", "src",
                "dst", "verb", "name", "new", "left", "gone", "took", "hurt", "lost", "alone"}
BY DEF CallFields, NoCall

\* r is q but for what a lookup or a return changes.
Alike(q, r) ==
  /\ DOMAIN r = CallFields
  /\ r.req = q.req /\ r.was = q.was /\ r.ans = q.ans
  /\ r.verb = q.verb /\ r.dst = q.dst /\ r.new = q.new

LookingUp(q, r, pc) ==
  Alike(q, r) /\ r.pc = pc /\ r.got = {} /\ r.out \in {"ask", "found", "none"}

LEMMA SettledLooks ==
  ASSUME NEW k, NEW q, DOMAIN q = CallFields, NEW n, NEW id
  PROVE  LookingUp(q, Settled(k, q, n, id), q.pc)
BY CallNames DEF Settled, LookingUp, Alike

LEMMA LookUpLooks ==
  ASSUME NEW k, NEW q, DOMAIN q = CallFields, NEW pc, NEW goal, NEW whole
  PROVE  LookingUp(q, LookUp(k, q, pc, goal, whole), pc)
<1>. DEFINE p == [q EXCEPT !.pc = pc, !.goal = goal, !.whole = whole]
            n == IF goal \in DOMAIN k THEN Len(goal) ELSE Reach(k, goal, 0)
            id == InCache(k, Prefix(goal, n)).id
<1>1. DOMAIN p = CallFields /\ Alike(q, p) /\ p.pc = pc
  BY CallNames DEF Alike
<1>2. LookUp(k, q, pc, goal, whole) = Settled(k, p, n, id)
  BY DEF LookUp
<1>. HIDE DEF p, n, id
<1>3. LookingUp(p, Settled(k, p, n, id), p.pc)
  BY <1>1, SettledLooks
<1>. QED  BY <1>1, <1>2, <1>3 DEF LookingUp, Alike

LEMMA DescendLooks ==
  ASSUME NEW k, NEW q, DOMAIN q = CallFields
  PROVE  LookingUp(q, Descend(k, q), q.pc)
<1>. DEFINE next == Prefix(q.goal, q.at.n + 1)
            n == Reach(k, q.goal, q.at.n + 1)
            id == InCache(k, Prefix(q.goal, n)).id
<1>1. CASE next \notin DOMAIN k \/ (~k[next].dir /\ q.at.n + 1 < Len(q.goal))
  BY <1>1, CallNames DEF Descend, LookingUp, Alike
<1>2. CASE ~(next \notin DOMAIN k \/ (~k[next].dir /\ q.at.n + 1 < Len(q.goal)))
  <2>1. Descend(k, q) = Settled(k, q, n, id)
    BY <1>2 DEF Descend
  <2>. HIDE DEF n, id
  <2>. QED  BY <2>1, SettledLooks
<1>. QED  BY <1>1, <1>2

LEMMA ReturnedIs ==
  ASSUME NEW q, DOMAIN q = CallFields, NEW good
  PROVE  LET r == Returned(q, good) IN
         Alike(q, r) /\ r.pc = "back" /\ r.out \in {"found", "none"} /\ r.got = q.got
BY CallNames DEF Returned, Alike

LEMMA AnsweredIs ==
  ASSUME NEW q, DOMAIN q = CallFields, NEW good
  PROVE  LET r == Answered(q, good) IN
         /\ DOMAIN r = CallFields /\ r.pc = "done" /\ r.out = "found" /\ r.ans \in {"ok", "error"}
         /\ r.got = {} /\ r.req = q.req
BY CallNames DEF Answered

LEMMA PostingIs ==
  ASSUME NEW q, DOMAIN q = CallFields, NEW verb
  PROVE  LET r == Posting(q, verb) IN
         /\ DOMAIN r = CallFields /\ r.pc = "posted" /\ r.out = "post" /\ r.verb = verb
         /\ r.req = q.req /\ r.was = q.was /\ r.ans = q.ans /\ r.dst = q.dst /\ r.new = q.new /\ r.got = q.got
BY CallNames DEF Posting

LEMMA ForgetToDocs ==
  ASSUME NEW n, NEW k, ToDocs(n, k), NEW path
  PROVE  ToDocs(n, Forget(k, path))
BY DEF ToDocs, Forget

LEMMA CachedToDocs ==
  ASSUME NEW n, NEW k, ToDocs(n, k), NEW dir, NEW listing, \A e \in listing : e.id \in 1..n
  PROVE  ToDocs(n, Cached(k, dir, listing))
<1>. DEFINE new == {Append(dir, e.name) : e \in listing}
            pick(p) == CHOOSE e \in listing : Append(dir, e.name) = p
            a == Cached(k, dir, listing)
<1>1. \A p \in new : pick(p) \in listing
  OBVIOUS
<1>2. /\ DOMAIN a = DOMAIN k \union new
      /\ \A p \in DOMAIN a : a[p] = IF p \in new THEN Entry(pick(p).id, pick(p).dir, pick(p).size) ELSE k[p]
  BY DEF Cached
<1>. HIDE DEF pick, new, a
<1>3. ASSUME NEW p \in DOMAIN a PROVE a[p].id \in 1..n
  <2>1. CASE p \in new
    <3>1. a[p] = Entry(pick(p).id, pick(p).dir, pick(p).size)
      BY <1>2, <2>1
    <3>2. a[p].id = pick(p).id
      BY <3>1 DEF Entry
    <3>. QED  BY <1>1, <2>1, <3>2
  <2>2. CASE p \notin new
    BY <1>2, <2>2 DEF ToDocs
  <2>. QED  BY <2>1, <2>2
<1>. QED  BY <1>3 DEF ToDocs, a
-----------------------------------------------------------------------------
(* A call goes on. *)

LEMMA BackIsSound ==
  ASSUME NEW m, NEW c, NEW q, Sound(m, c, q), q.pc # "done", NEW n, HasDocs(n, q),
         NEW r, DOMAIN r = CallFields, r.req = q.req, r.ans = q.ans, r.pc = "back",
         r.out \in {"found", "none"}, r.got = q.got \/ r.got = {}
  PROVE  Sound(m, c, r) /\ HasDocs(n, r)
<1>1. InStep(r)
  BY DEF InStep, TransferSteps
<1>2. Heeds(m, q) => Heeds(m, r)
  BY DEF Heeds, TransferSteps
<1>. QED  BY <1>1, <1>2 DEF Sound, HasDocs

LEMMA DoneIsSound ==
  ASSUME NEW m, NEW c, NEW n, NEW r, DOMAIN r = CallFields, r.pc = "done", r.out = "found",
         r.ans \in {"none", "ok", "error"}, r.got = {}
  PROVE  Sound(m, c, r) /\ HasDocs(n, r)
BY DEF Sound, HasDocs

\* A step that changes neither the documents nor any call but c's.
LEMMA GoKeeps ==
  ASSUME AccessInv, NEW c \in Callers, NEW k, NEW r, Go(c, k, r),
         ToDocs(Len(docs), k), Sound(mode, c, r), HasDocs(Len(docs), r), UNCHANGED <<flags, made>>
  PROVE  AccessInv'
<1>1. /\ docs' = docs /\ faults' = faults /\ flags' = flags /\ made' = made
      /\ known' = [known EXCEPT ![Process[c]] = k] /\ call' = [call EXCEPT ![c] = r]
  BY DEF Go
<1>2. mode' = mode
  BY <1>1 DEF mode
<1>3. CallsAreSound'
  <2>1. call' = [d \in Callers |-> call'[d]] /\ \A d \in Callers : call'[d] = IF d = c THEN r ELSE call[d]
    BY <1>1 DEF AccessInv, CallsAreSound
  <2>2. \A d \in Callers : Sound(mode', d, call'[d])
    BY <1>2, <2>1 DEF AccessInv, CallsAreSound
  <2>. QED  BY <2>1, <2>2 DEF CallsAreSound
<1>4. DocsAreKnown'
  <2>. DEFINE P == {Process[d] : d \in Callers}
  <2>1. known = [p \in P |-> known[p]] /\ Process[c] \in P
    BY DEF AccessInv, DocsAreKnown
  <2>2. known' = [p \in P |-> known'[p]] /\ \A p \in P : known'[p] = IF p = Process[c] THEN k ELSE known[p]
    BY <1>1, <2>1
  <2>3. \A p \in DOMAIN known' : ToDocs(Len(docs'), known'[p])
    BY <1>1, <2>1, <2>2 DEF AccessInv, DocsAreKnown
  <2>4. \A d \in Callers : HasDocs(Len(docs'), call'[d])
    BY <1>1 DEF AccessInv, CallsAreSound, DocsAreKnown
  <2>. QED  BY <2>2, <2>3, <2>4 DEF DocsAreKnown
<1>. QED  BY <1>1, <1>3, <1>4 DEF AccessInv
-----------------------------------------------------------------------------
(* The provider's steps. *)

LEMMA AtHand ==
  ASSUME AccessInv, NEW c \in Callers
  PROVE  /\ Sound(mode, c, call[c]) /\ HasDocs(Len(docs), call[c]) /\ ToDocs(Len(docs), Cache(c))
         /\ DOMAIN call[c] = CallFields
BY DEF AccessInv, CallsAreSound, DocsAreKnown, Cache, Sound

LEMMA BackKeeps ==
  ASSUME AccessInv, NEW c \in Callers, call[c].pc # "done", NEW k, ToDocs(Len(docs), k),
         NEW q, Alike(call[c], q), q.got = call[c].got, NEW good, Go(c, k, Returned(q, good)),
         UNCHANGED <<flags, made>>
  PROVE  AccessInv'
<1>. DEFINE r == Returned(q, good)
<1>1. Alike(q, r) /\ r.pc = "back" /\ r.out \in {"found", "none"} /\ r.got = q.got
  BY ReturnedIs DEF Alike
<1>. HIDE DEF r
<1>2. Sound(mode, c, r) /\ HasDocs(Len(docs), r)
  BY <1>1, AtHand, BackIsSound DEF Alike
<1>. QED  BY <1>2, GoKeeps DEF r

LEMMA GivesUpKeeps ==
  ASSUME AccessInv, NEW c \in Callers, NEW pc, pc # "done", GivesUp(c, pc), UNCHANGED <<flags, made>>
  PROVE  AccessInv'
<1>1. call[c].pc # "done" /\ Go(c, Cache(c), Returned(call[c], FALSE))
  BY DEF GivesUp, On
<1>2. Alike(call[c], call[c])
  BY AtHand DEF Alike
<1>. QED  BY <1>1, <1>2, AtHand, BackKeeps

LEMMA AnswerKeeps ==
  ASSUME AccessInv, NEW c \in Callers, NEW good, Answer(c, good), UNCHANGED <<flags, made>>
  PROVE  AccessInv'
<1>. DEFINE r == Answered(call[c], good)
<1>1. /\ DOMAIN r = CallFields /\ r.pc = "done" /\ r.out = "found" /\ r.ans \in {"ok", "error"}
      /\ r.got = {}
  BY AtHand, AnsweredIs
<1>2. Go(c, Cache(c), r)
  BY DEF Answer
<1>. HIDE DEF r
<1>3. Sound(mode, c, r) /\ HasDocs(Len(docs), r)
  BY <1>1, DoneIsSound
<1>. QED  BY <1>2, <1>3, AtHand, GoKeeps

\* q, looked up for, goes on as r.
Onward(q, r) ==
  /\ DOMAIN r = CallFields /\ r.req = q.req /\ r.was = q.was /\ r.ans = q.ans
  /\ r.got = {} /\ r.out \in {"ask", "found", "none"}

LEMMA TransferGoesOn ==
  ASSUME AccessInv, NEW c \in Callers, NEW k, ToDocs(Len(docs), k), NEW r, Go(c, k, r),
         \/ call[c].pc \in TransferSteps
         \/ call[c].pc = "posted" /\ call[c].verb \in {"move", "copy"},
         Onward(call[c], r), r.pc \in TransferSteps, UNCHANGED <<flags, made>>
  PROVE  AccessInv'
<1>. DEFINE q == call[c]
<1>1. /\ Sound(mode, c, q) /\ HasDocs(Len(docs), q) /\ q.pc # "done" /\ r.pc # "done"
      /\ DOMAIN r = CallFields /\ r.req = q.req /\ r.was = q.was /\ r.ans = q.ans
      /\ r.got = {} /\ r.out \in {"ask", "found", "none"}
  BY AtHand DEF TransferSteps, Onward
<1>. HIDE DEF q
<1>2. r.req.op \in Transferring
  BY <1>1 DEF Sound, InStep, Transferring, q
<1>3. InStep(r)
  BY <1>1, <1>2 DEF InStep, TransferSteps
<1>4. Heeds(mode, q) => Heeds(mode, r)
  BY <1>1, <1>2 DEF Heeds, TransferSteps, Transferring, Sound, InStep, q
<1>5. Sound(mode, c, r) /\ HasDocs(Len(docs), r)
  BY <1>1, <1>2, <1>3, <1>4 DEF Sound, HasDocs, TransferSteps, Transferring
<1>. QED  BY <1>5, GoKeeps

LEMMA SourceSeenKeeps ==
  ASSUME AccessInv, NEW c \in Callers, SourceSeen(c), UNCHANGED <<flags, made>>
  PROVE  AccessInv'
<1>1. CASE GivesUp(c, "source")
  BY <1>1, GivesUpKeeps
<1>2. CASE ~GivesUp(c, "source")
  <2>. DEFINE q == [call[c] EXCEPT !.source = call[c].info]
              r == LookUp(Cache(c), q, "dest", Destination(q), FALSE)
  <2>1. call[c].pc = "source" /\ Go(c, Cache(c), r)
    BY <1>2 DEF SourceSeen, On
  <2>2. Alike(call[c], q)
    BY AtHand, CallNames DEF Alike
  <2>. HIDE DEF q
  <2>3. LookingUp(q, r, "dest")
    BY <2>2, LookUpLooks DEF Alike
  <2>. HIDE DEF r
  <2>4. Onward(call[c], r) /\ r.pc \in TransferSteps /\ call[c].pc \in TransferSteps
    BY <2>1, <2>2, <2>3 DEF Onward, LookingUp, Alike, TransferSteps
  <2>. QED  BY <2>1, <2>4, AtHand, TransferGoesOn
<1>. QED  BY <1>1, <1>2

LEMMA DestinationSeenKeeps ==
  ASSUME AccessInv, NEW c \in Callers, DestinationSeen(c), UNCHANGED <<flags, made>>
  PROVE  AccessInv'
<1>1. CASE GivesUp(c, "dest")
  BY <1>1, GivesUpKeeps
<1>2. CASE ~GivesUp(c, "dest")
  <2>. DEFINE q == call[c]
              r == LookUp(Cache(c), q, "source_id", q.req.path, FALSE)
  <2>1. /\ call[c].pc = "dest"
        /\ Go(c, Cache(c), r) \/ Go(c, Cache(c), Returned(q, FALSE))
    BY <1>2 DEF DestinationSeen, On
  <2>2. LookingUp(q, r, "source_id") /\ Alike(q, q)
    BY AtHand, LookUpLooks DEF Alike
  <2>3. CASE Go(c, Cache(c), Returned(q, FALSE))
    BY <2>1, <2>2, <2>3, AtHand, BackKeeps
  <2>. HIDE DEF r
  <2>4. Onward(call[c], r) /\ r.pc \in TransferSteps /\ call[c].pc \in TransferSteps
    BY <2>1, <2>2 DEF Onward, LookingUp, Alike, TransferSteps
  <2>5. CASE Go(c, Cache(c), r)
    BY <2>4, <2>5, AtHand, TransferGoesOn
  <2>. QED  BY <2>1, <2>3, <2>5
<1>. QED  BY <1>1, <1>2

LEMMA SourceResolvedKeeps ==
  ASSUME AccessInv, NEW c \in Callers, SourceResolved(c), UNCHANGED <<flags, made>>
  PROVE  AccessInv'
<1>1. CASE GivesUp(c, "source_id")
  BY <1>1, GivesUpKeeps
<1>2. CASE ~GivesUp(c, "source_id")
  <2>. DEFINE q == [call[c] EXCEPT !.src = call[c].at.id]
              r == LookUp(Cache(c), q, "dest_id", Destination(q), FALSE)
  <2>1. call[c].pc = "source_id" /\ Go(c, Cache(c), r)
    BY <1>2 DEF SourceResolved, On
  <2>2. Alike(call[c], q)
    BY AtHand, CallNames DEF Alike
  <2>. HIDE DEF q
  <2>3. LookingUp(q, r, "dest_id")
    BY <2>2, LookUpLooks DEF Alike
  <2>. HIDE DEF r
  <2>4. Onward(call[c], r) /\ r.pc \in TransferSteps /\ call[c].pc \in TransferSteps
    BY <2>1, <2>2, <2>3 DEF Onward, LookingUp, Alike, TransferSteps
  <2>. QED  BY <2>1, <2>4, AtHand, TransferGoesOn
<1>. QED  BY <1>1, <1>2

LEMMA DestinationResolvedKeeps ==
  ASSUME AccessInv, NEW c \in Callers, DestinationResolved(c), UNCHANGED <<flags, made>>
  PROVE  AccessInv'
<1>1. CASE GivesUp(c, "dest_id")
  BY <1>1, GivesUpKeeps
<1>2. CASE ~GivesUp(c, "dest_id")
  <2>. DEFINE q == [call[c] EXCEPT !.dst = call[c].at.id]
              r == LookUp(Cache(c), q, "list", Destination(q), TRUE)
  <2>1. call[c].pc = "dest_id" /\ Go(c, Cache(c), r)
    BY <1>2 DEF DestinationResolved, On
  <2>2. DOMAIN q = CallFields /\ q.req = call[c].req /\ q.was = call[c].was /\ q.ans = call[c].ans
    BY AtHand, CallNames
  <2>. HIDE DEF q
  <2>3. LookingUp(q, r, "list")
    BY <2>2, LookUpLooks
  <2>. HIDE DEF r
  <2>4. Onward(call[c], r) /\ r.pc \in TransferSteps /\ call[c].pc \in TransferSteps
    BY <2>1, <2>2, <2>3 DEF Onward, LookingUp, Alike, TransferSteps
  <2>. QED  BY <2>1, <2>4, AtHand, TransferGoesOn
<1>. QED  BY <1>1, <1>2

LEMMA TransferredKeeps ==
  ASSUME AccessInv, NEW c \in Callers, Transferred(c), UNCHANGED <<flags, made>>
  PROVE  AccessInv'
<1>. DEFINE q == call[c]
            there == Append(Destination(q), Base(q.req.path))
            k1 == Forget(Cache(c), Destination(q))
            k2 == IF q.req.dup \in {"overwrite", "merge"} /\ (\E e \in q.got : e.name = Base(there))
                  THEN Forget(k1, there) ELSE k1
            k3 == IF Moves(q) THEN Forget(Forget(k2, Parent(q.req.path)), q.req.path) ELSE k2
            r == LookUp(k3, q, "moved", Destination(q), TRUE)
<1>1. q.pc = "posted" /\ q.verb \in {"move", "copy"} /\ Go(c, k3, r)
  BY DEF Transferred, On
<1>2. ToDocs(Len(docs), k1)
  BY AtHand, ForgetToDocs
<1>. HIDE DEF k1
<1>3. ToDocs(Len(docs), k2)
  BY <1>2, ForgetToDocs
<1>. HIDE DEF k2
<1>4. ToDocs(Len(docs), k3)
  BY <1>3, ForgetToDocs
<1>. HIDE DEF k3
<1>5. LookingUp(q, r, "moved")
  BY AtHand, LookUpLooks
<1>. HIDE DEF r
<1>6. Onward(call[c], r) /\ r.pc \in TransferSteps
  BY <1>5 DEF Onward, LookingUp, Alike, TransferSteps
<1>. QED  BY <1>1, <1>4, <1>6, TransferGoesOn

LEMMA InDestinationKeeps ==
  ASSUME AccessInv, NEW c \in Callers, InDestination(c), UNCHANGED <<flags, made>>
  PROVE  AccessInv'
<1>1. CASE GivesUp(c, "moved")
  BY <1>1, GivesUpKeeps
<1>2. CASE ~GivesUp(c, "moved")
  <2>. DEFINE q == call[c]
              from == Parent(q.req.path)
              k == Forget(Cache(c), from)
              r == LookUp(k, q, "left", from, TRUE)
              out == ByDocID(Cache(c), q, from, q.src) = {}
  <2>1. /\ call[c].pc = "moved"
        /\ \/ Go(c, k, r) \/ Go(c, Cache(c), Returned(q, FALSE))
           \/ Go(c, Cache(c), Returned(q, Moves(q) = out))
    BY <1>2 DEF InDestination, On
  <2>. HIDE DEF out
  <2>2. LookingUp(q, r, "left") /\ Alike(q, q)
    BY AtHand, LookUpLooks DEF Alike
  <2>3. CASE \/ Go(c, Cache(c), Returned(q, FALSE))
             \/ Go(c, Cache(c), Returned(q, Moves(q) = out))
    BY <2>1, <2>2, <2>3, AtHand, BackKeeps
  <2>. HIDE DEF r
  <2>4. Onward(call[c], r) /\ r.pc \in TransferSteps /\ call[c].pc \in TransferSteps
    BY <2>1, <2>2 DEF Onward, LookingUp, Alike, TransferSteps
  <2>5. ToDocs(Len(docs), k)
    BY AtHand, ForgetToDocs
  <2>6. CASE Go(c, k, r)
    BY <2>4, <2>5, <2>6, TransferGoesOn
  <2>. QED  BY <2>1, <2>3, <2>6
<1>. QED  BY <1>1, <1>2

LEMMA OutOfSourceKeeps ==
  ASSUME AccessInv, NEW c \in Callers, OutOfSource(c), UNCHANGED <<flags, made>>
  PROVE  AccessInv'
<1>1. CASE GivesUp(c, "left")
  BY <1>1, GivesUpKeeps
<1>2. CASE ~GivesUp(c, "left")
  <2>. DEFINE good == Moves(call[c]) = (ByDocID(Cache(c), call[c], Parent(call[c].req.path), call[c].src) = {})
  <2>1. call[c].pc = "left" /\ Go(c, Cache(c), Returned(call[c], good))
    BY <1>2 DEF OutOfSource, On
  <2>. HIDE DEF good
  <2>2. Alike(call[c], call[c])
    BY AtHand DEF Alike
  <2>. QED  BY <2>1, <2>2, AtHand, BackKeeps
<1>. QED  BY <1>1, <1>2

\* c posts next.
LEMMA PostsNext ==
  ASSUME AccessInv, NEW c \in Callers, call[c].pc # "done", NEW k, ToDocs(Len(docs), k),
         NEW q, DOMAIN q = CallFields, q.req = call[c].req, q.was = call[c].was, q.ans = call[c].ans,
         q.got = call[c].got, NEW verb, Go(c, k, Posting(q, verb)),
         InStep(Posting(q, verb)), OfDaemon(c) /\ mode # FullyWritable => Heeds(mode, Posting(q, verb)),
         q.req.op = "upload-dir" /\ verb # "dir/create" => q.dst \in 1..Len(docs),
         UNCHANGED <<flags, made>>
  PROVE  AccessInv'
<1>. DEFINE r == Posting(q, verb)
<1>1. /\ DOMAIN r = CallFields /\ r.pc = "posted" /\ r.out = "post" /\ r.verb = verb
      /\ r.req = q.req /\ r.was = q.was /\ r.ans = q.ans /\ r.dst = q.dst /\ r.got = q.got
  BY PostingIs
<1>2. InStep(r) /\ (OfDaemon(c) /\ mode # FullyWritable => Heeds(mode, r)) /\ Go(c, k, r)
  OBVIOUS
<1>. HIDE DEF r
<1>3. Sound(mode, c, r) /\ HasDocs(Len(docs), r)
  BY <1>1, <1>2, AtHand DEF Sound, HasDocs
<1>. QED  BY <1>2, <1>3, GoKeeps

LEMMA ParentResolvedKeeps ==
  ASSUME AccessInv, NEW c \in Callers, ParentResolved(c), UNCHANGED <<flags, made>>
  PROVE  AccessInv'
<1>1. CASE GivesUp(c, "parent")
  BY <1>1, GivesUpKeeps
<1>2. CASE ~GivesUp(c, "parent")
  <2>. DEFINE q == [call[c] EXCEPT !.dst = call[c].at.id, !.name = Base(call[c].req.path)]
              verb == FirstPost(call[c])
              r == Posting(q, verb)
  <2>1. call[c].pc = "parent" /\ Go(c, Cache(c), r)
    BY <1>2 DEF ParentResolved, On
  <2>2. /\ DOMAIN q = CallFields /\ q.req = call[c].req /\ q.was = call[c].was /\ q.ans = call[c].ans
        /\ q.got = call[c].got
    BY AtHand, CallNames
  <2>. HIDE DEF q
  <2>3. call[c].req.op \in (Making \union Uploading) \ {"upload-dir"}
    BY <2>1, AtHand DEF Sound, InStep
  <2>4. \/ verb = "dir/create" /\ call[c].req.op \in Making
        \/ verb \in UploadVerbs \ {"dir/create"} /\ call[c].req.op \in Uploading
    BY <2>3 DEF FirstPost, Making, Uploading, UploadVerbs
  <2>. HIDE DEF verb
  <2>5. r.pc = "posted" /\ r.out = "post" /\ r.verb = verb /\ r.req = call[c].req
    BY <2>2, PostingIs
  <2>. HIDE DEF r
  <2>6. InStep(r)
    BY <2>4, <2>5 DEF InStep, UploadVerbs, TransferSteps
  <2>7. Heeds(mode, call[c]) => Heeds(mode, r)
    BY <2>3, <2>5 DEF Heeds, Making, Uploading
  <2>8. OfDaemon(c) /\ mode # FullyWritable => Heeds(mode, call[c])
    BY <2>1, AtHand DEF Sound
  <2>. QED  BY <2>1, <2>2, <2>3, <2>6, <2>7, <2>8, AtHand, PostsNext DEF r
<1>. QED  BY <1>1, <1>2

LEMMA NameSuggestedKeeps ==
  ASSUME AccessInv, NEW c \in Callers, NameSuggested(c), UNCHANGED <<flags, made>>
  PROVE  AccessInv'
<1>. DEFINE q == call[c]
            r == Posting(q, "predupload")
<1>1. q.pc = "posted" /\ q.verb = "getsuggestname" /\ Go(c, Cache(c), r)
  BY DEF NameSuggested, On
<1>2. r.pc = "posted" /\ r.out = "post" /\ r.verb = "predupload" /\ r.req = q.req
  BY AtHand, PostingIs
<1>3. q.req.op \in Uploading /\ (OfDaemon(c) /\ mode # FullyWritable => Heeds(mode, q))
  BY <1>1, AtHand DEF Sound, InStep, UploadVerbs
<1>. HIDE DEF r
<1>4. InStep(r)
  BY <1>2, <1>3 DEF InStep, UploadVerbs, TransferSteps
<1>5. Heeds(mode, q) => Heeds(mode, r)
  BY <1>2, <1>3 DEF Heeds, Uploading
<1>6. q.req.op = "upload-dir" => q.dst \in 1..Len(docs)
  BY <1>1, AtHand DEF HasDocs
<1>. QED  BY <1>1, <1>3, <1>4, <1>5, <1>6, AtHand, PostsNext DEF r

LEMMA DirectoryMadeKeeps ==
  ASSUME AccessInv, NEW c \in Callers, DirectoryMade(c), UNCHANGED <<flags, made>>
  PROVE  AccessInv'
<1>. DEFINE k == Forget(Cache(c), Parent(call[c].req.path))
<1>1. call[c].pc = "posted" /\ Go(c, k, Returned(call[c], TRUE))
  BY DEF DirectoryMade, On
<1>2. ToDocs(Len(docs), k) /\ Alike(call[c], call[c])
  BY AtHand, ForgetToDocs DEF Alike
<1>. QED  BY <1>1, <1>2, BackKeeps

\* c looks up for its caller, which InStep and Heeds ask nothing more of.
LEMMA LooksOn ==
  ASSUME AccessInv, NEW c \in Callers, call[c].pc # "done", NEW k, ToDocs(Len(docs), k),
         NEW q, Requested(c, q.req), q.ans \in {"none", "ok", "error"}, NEW pc, NEW r, LookingUp(q, r, pc),
         Go(c, k, r), pc \notin {"done", "posted"},
         InStep(r), OfDaemon(c) /\ mode # FullyWritable => Heeds(mode, r),
         pc = "child" => q.dst \in 1..Len(docs), UNCHANGED <<flags, made>>
  PROVE  AccessInv'
<1>1. Sound(mode, c, r) /\ HasDocs(Len(docs), r)
  BY DEF Sound, HasDocs, LookingUp, Alike
<1>. QED  BY <1>1, GoKeeps

LEMMA UploadedKeeps ==
  ASSUME AccessInv, NEW c \in Callers, Uploaded(c), UNCHANGED <<flags, made>>
  PROVE  AccessInv'
<1>. DEFINE q == call[c]
            k == Forget(Cache(c), Parent(q.req.path))
            r == LookUp(k, q, "verify", Parent(q.req.path), TRUE)
<1>1. /\ q.pc = "posted"
      /\ \/ q.req.op = "upload" /\ Go(c, k, r)
         \/ Go(c, k, Returned(q, TRUE))
  BY DEF Uploaded, On
<1>2. ToDocs(Len(docs), k) /\ Alike(q, q)
  BY AtHand, ForgetToDocs DEF Alike
<1>3. LookingUp(q, r, "verify")
  BY AtHand, LookUpLooks
<1>4. CASE Go(c, k, Returned(q, TRUE))
  BY <1>1, <1>2, <1>4, BackKeeps
<1>5. CASE q.req.op = "upload" /\ Go(c, k, r)
  <2>1. /\ Requested(c, q.req) /\ q.ans \in {"none", "ok", "error"}
        /\ OfDaemon(c) /\ mode # FullyWritable => Heeds(mode, q)
    BY <1>1, AtHand DEF Sound
  <2>. HIDE DEF r
  <2>2. InStep(r)
    BY <1>3, <1>5 DEF InStep, LookingUp, Alike, TransferSteps
  <2>3. Heeds(mode, q) => Heeds(mode, r)
    BY <1>3, <1>5 DEF Heeds, LookingUp, Alike
  <2>. QED  BY <1>1, <1>2, <1>3, <1>5, <2>1, <2>2, <2>3, LooksOn
<1>. QED  BY <1>1, <1>4, <1>5

LEMMA UploadVerifiedKeeps ==
  ASSUME AccessInv, NEW c \in Callers, UploadVerified(c), UNCHANGED <<flags, made>>
  PROVE  AccessInv'
<1>1. CASE GivesUp(c, "verify")
  BY <1>1, GivesUpKeeps
<1>2. CASE ~GivesUp(c, "verify")
  <2>1. call[c].pc = "verify" /\ Go(c, Cache(c), Returned(call[c], Verified(call[c], call[c].name)))
    BY <1>2 DEF UploadVerified, On
  <2>2. Alike(call[c], call[c])
    BY AtHand DEF Alike
  <2>. QED  BY <2>1, <2>2, AtHand, BackKeeps
<1>. QED  BY <1>1, <1>2

LEMMA DirectoryParentSeenKeeps ==
  ASSUME AccessInv, NEW c \in Callers, DirectoryParentSeen(c), UNCHANGED <<flags, made>>
  PROVE  AccessInv'
<1>1. CASE GivesUp(c, "dir_parent")
  BY <1>1, GivesUpKeeps
<1>2. CASE ~GivesUp(c, "dir_parent")
  <2>. DEFINE q == [call[c] EXCEPT !.dst = call[c].at.id, !.name = Base(call[c].req.path)]
              r == Posting(q, "dir/create")
  <2>1. /\ call[c].pc = "dir_parent"
        /\ Go(c, Cache(c), r) \/ Go(c, Cache(c), Returned(call[c], FALSE))
    BY <1>2 DEF DirectoryParentSeen, On
  <2>2. /\ DOMAIN q = CallFields /\ q.req = call[c].req /\ q.was = call[c].was /\ q.ans = call[c].ans
        /\ q.got = call[c].got
    BY AtHand, CallNames
  <2>. HIDE DEF q
  <2>3. r.pc = "posted" /\ r.out = "post" /\ r.verb = "dir/create" /\ r.req = call[c].req
    BY <2>2, PostingIs
  <2>4. /\ call[c].req.op = "upload-dir" /\ Alike(call[c], call[c])
        /\ OfDaemon(c) /\ mode # FullyWritable => Heeds(mode, call[c])
    BY <2>1, AtHand DEF Sound, InStep, Alike
  <2>. HIDE DEF r
  <2>5. InStep(r)
    BY <2>3, <2>4 DEF InStep, UploadVerbs, TransferSteps, Making
  <2>6. Heeds(mode, call[c]) => Heeds(mode, r)
    BY <2>3, <2>4 DEF Heeds
  <2>7. CASE Go(c, Cache(c), r)
    BY <2>1, <2>2, <2>4, <2>5, <2>6, <2>7, AtHand, PostsNext DEF r
  <2>8. CASE Go(c, Cache(c), Returned(call[c], FALSE))
    BY <2>1, <2>4, <2>8, AtHand, BackKeeps
  <2>. QED  BY <2>1, <2>7, <2>8
<1>. QED  BY <1>1, <1>2

\* The next file of a directory is posted, or the last was.
LEMMA NextChildKeeps ==
  ASSUME AccessInv, NEW c \in Callers, call[c].pc # "done", call[c].req.op = "upload-dir",
         NEW k, ToDocs(Len(docs), k), NEW q, DOMAIN q = CallFields, q.req = call[c].req,
         q.was = call[c].was, q.ans = call[c].ans, q.got = call[c].got, q.dst \in 1..Len(docs),
         Go(c, k, NextChild(k, q)), UNCHANGED <<flags, made>>
  PROVE  AccessInv'
<1>. DEFINE p == [q EXCEPT !.name = q.req.to[q.left]]
            r == Posting(p, "predupload")
            b == Returned(q, TRUE)
<1>1. Go(c, k, b) \/ Go(c, k, r)
  BY DEF NextChild
<1>2. OfDaemon(c) /\ mode # FullyWritable => Heeds(mode, call[c])
  BY AtHand DEF Sound
<1>3. /\ DOMAIN p = CallFields /\ p.req = q.req /\ p.was = q.was /\ p.ans = q.ans
      /\ p.got = q.got /\ p.dst = q.dst
  BY CallNames
<1>4. CASE Go(c, k, r)
  <2>. HIDE DEF p
  <2>1. r.pc = "posted" /\ r.out = "post" /\ r.verb = "predupload" /\ r.req = call[c].req
    BY <1>3, PostingIs
  <2>. HIDE DEF r
  <2>2. InStep(r)
    BY <2>1 DEF InStep, UploadVerbs, TransferSteps, Uploading
  <2>3. Heeds(mode, call[c]) => Heeds(mode, r)
    BY <2>1 DEF Heeds
  <2>. QED  BY <1>2, <1>3, <1>4, <2>2, <2>3, PostsNext DEF r
<1>5. CASE Go(c, k, b)
  <2>0. Alike(q, b) /\ b.pc = "back" /\ b.out \in {"found", "none"} /\ b.got = q.got
    BY ReturnedIs
  <2>. HIDE DEF b
  <2>1. /\ DOMAIN b = CallFields /\ b.req = call[c].req /\ b.ans = call[c].ans /\ b.pc = "back"
        /\ b.out \in {"found", "none"} /\ b.got = call[c].got
    BY <2>0 DEF Alike
  <2>2. Sound(mode, c, b) /\ HasDocs(Len(docs), b)
    BY <2>1, AtHand, BackIsSound
  <2>. QED  BY <1>5, <2>2, GoKeeps
<1>. QED  BY <1>1, <1>4, <1>5

LEMMA RootMadeKeeps ==
  ASSUME AccessInv, NEW c \in Callers, RootMade(c), UNCHANGED <<flags, made>>
  PROVE  AccessInv'
<1>. DEFINE e == [name |-> call[c].name, id |-> call[c].new, dir |-> TRUE, size |-> 0]
            k == Cached(Cache(c), Parent(call[c].req.path), {e})
            q == [call[c] EXCEPT !.dst = call[c].new, !.left = Len(call[c].req.to)]
<1>1. /\ call[c].pc = "posted" /\ call[c].out = "found" /\ call[c].verb = "dir/create"
      /\ call[c].req.op = "upload-dir" /\ Go(c, k, NextChild(k, q))
  BY DEF RootMade, On, Good
<1>2. call[c].new \in 1..Len(docs)
  BY <1>1, AtHand DEF HasDocs
<1>3. e.id = call[c].new
  OBVIOUS
<1>. HIDE DEF e
<1>4. ToDocs(Len(docs), k)
  BY <1>2, <1>3, AtHand, CachedToDocs
<1>5. /\ DOMAIN q = CallFields /\ q.req = call[c].req /\ q.was = call[c].was /\ q.ans = call[c].ans
      /\ q.got = call[c].got /\ q.dst = call[c].new
  BY AtHand, CallNames
<1>. HIDE DEF k, q
<1>. QED  BY <1>1, <1>2, <1>4, <1>5, NextChildKeeps

LEMMA ChildSentKeeps ==
  ASSUME AccessInv, NEW c \in Callers, ChildSent(c), UNCHANGED <<flags, made>>
  PROVE  AccessInv'
<1>. DEFINE q == call[c]
            e == [name |-> Base(q.req.path), id |-> q.dst, dir |-> TRUE, size |-> 0]
            k == Cached(Forget(Cache(c), q.req.path), Parent(q.req.path), {e})
            r == LookUp(k, q, "child", q.req.path, TRUE)
<1>1. /\ q.pc = "posted" /\ q.verb # "dir/create" /\ q.req.op = "upload-dir" /\ Go(c, k, r)
  BY DEF ChildSent, On
<1>2. q.dst \in 1..Len(docs)
  BY <1>1, AtHand DEF HasDocs
<1>3. e.id = q.dst
  OBVIOUS
<1>. HIDE DEF e
<1>4. ToDocs(Len(docs), k)
  BY <1>2, <1>3, AtHand, ForgetToDocs, CachedToDocs
<1>. HIDE DEF k
<1>5. LookingUp(q, r, "child")
  BY AtHand, LookUpLooks
<1>. HIDE DEF r
<1>6. /\ Requested(c, q.req) /\ q.ans \in {"none", "ok", "error"}
      /\ OfDaemon(c) /\ mode # FullyWritable => Heeds(mode, q)
  BY <1>1, AtHand DEF Sound
<1>7. InStep(r)
  BY <1>1, <1>5 DEF InStep, LookingUp, Alike, TransferSteps
<1>8. Heeds(mode, q) => Heeds(mode, r)
  BY <1>1, <1>5 DEF Heeds, LookingUp, Alike
<1>. QED  BY <1>1, <1>2, <1>4, <1>5, <1>6, <1>7, <1>8, LooksOn

LEMMA ChildVerifiedKeeps ==
  ASSUME AccessInv, NEW c \in Callers, ChildVerified(c), UNCHANGED <<flags, made>>
  PROVE  AccessInv'
<1>1. CASE GivesUp(c, "child")
  BY <1>1, GivesUpKeeps
<1>2. CASE ~GivesUp(c, "child")
  <2>. DEFINE q == [call[c] EXCEPT !.left = @ - 1]
              k == IF q.left = 0 THEN Forget(Cache(c), Parent(q.req.path)) ELSE Cache(c)
  <2>1. /\ call[c].pc = "child"
        /\ Go(c, k, NextChild(k, q)) \/ Go(c, Cache(c), Returned(q, FALSE))
    BY <1>2 DEF ChildVerified, On
  <2>2. Alike(call[c], q) /\ q.got = call[c].got
    BY AtHand, CallNames DEF Alike
  <2>. HIDE DEF q
  <2>3. ToDocs(Len(docs), k)
    BY AtHand, ForgetToDocs
  <2>. HIDE DEF k
  <2>4. call[c].req.op = "upload-dir" /\ call[c].dst \in 1..Len(docs)
    BY <2>1, AtHand DEF Sound, InStep, HasDocs
  <2>5. CASE Go(c, k, NextChild(k, q))
    BY <2>1, <2>2, <2>3, <2>4, <2>5, NextChildKeeps DEF Alike
  <2>6. CASE Go(c, Cache(c), Returned(q, FALSE))
    BY <2>1, <2>2, <2>6, AtHand, BackKeeps
  <2>. QED  BY <2>1, <2>5, <2>6
<1>. QED  BY <1>1, <1>2

LEMMA ResolvedKeeps ==
  ASSUME AccessInv, NEW c \in Callers, Resolved(c), UNCHANGED <<flags, made>>
  PROVE  AccessInv'
<1>1. CASE GivesUp(c, "resolve")
  BY <1>1, GivesUpKeeps
<1>2. CASE ~GivesUp(c, "resolve")
  <2>. DEFINE q == [call[c] EXCEPT !.src = call[c].at.id]
              w == [q EXCEPT !.name = Base(q.req.to)]
              verb == DocumentPost(q)
  <2>1. /\ call[c].pc = "resolve"
        /\ \/ Go(c, Cache(c), Posting(q, verb))
           \/ Go(c, Cache(c), Posting(w, verb))
           \/ Go(c, Cache(c), Returned(q, FALSE))
    BY <1>2 DEF Resolved, On
  <2>2. Alike(call[c], q) /\ q.got = call[c].got /\ q.was = call[c].was
    BY AtHand, CallNames DEF Alike
  <2>3. /\ DOMAIN w = CallFields /\ w.req = q.req /\ w.was = q.was /\ w.ans = q.ans
        /\ w.got = q.got
    BY <2>2, CallNames DEF Alike
  <2>4. call[c].req.op \in Resolving /\ (OfDaemon(c) /\ mode # FullyWritable => Heeds(mode, call[c]))
    BY <2>1, AtHand DEF Sound, InStep
  <2>. HIDE DEF q, w
  <2>5. \/ verb = "rename" /\ call[c].req.op \in {"fs.rename", "rename"}
        \/ verb = "delete" /\ call[c].req.op \in {"fs.remove", "rm"}
        \/ verb = "osdownload" /\ call[c].req.op \in {"fs.open", "download"}
    BY <2>2, <2>4 DEF DocumentPost, Resolving, Alike
  <2>. HIDE DEF verb
  <2>6. CASE Go(c, Cache(c), Returned(q, FALSE))
    BY <2>1, <2>2, <2>6, AtHand, BackKeeps
  <2>7. ASSUME NEW u, DOMAIN u = CallFields, u.req = call[c].req, u.was = call[c].was, u.ans = call[c].ans,
               u.got = call[c].got, Go(c, Cache(c), Posting(u, verb))
        PROVE  AccessInv'
    <3>. DEFINE r == Posting(u, verb)
    <3>1. r.pc = "posted" /\ r.out = "post" /\ r.verb = verb /\ r.req = call[c].req /\ r.was = call[c].was
      BY <2>7, PostingIs
    <3>. HIDE DEF r
    <3>2. InStep(r)
      BY <2>5, <3>1 DEF InStep, UploadVerbs, TransferSteps
    <3>3. Heeds(mode, call[c]) => Heeds(mode, r)
      BY <2>1, <2>5, <3>1 DEF Heeds, TransferSteps
    <3>. QED  BY <2>1, <2>4, <2>5, <2>7, <3>2, <3>3, AtHand, PostsNext DEF r
  <2>. QED  BY <2>1, <2>2, <2>3, <2>6, <2>7 DEF Alike
<1>. QED  BY <1>1, <1>2

LEMMA RenamedOrRemovedKeeps ==
  ASSUME AccessInv, NEW c \in Callers, RenamedOrRemoved(c), UNCHANGED <<flags, made>>
  PROVE  AccessInv'
<1>. DEFINE q == call[c]
            into == IF q.verb = "rename" THEN Parent(q.req.to) ELSE Parent(q.req.path)
            k == Forget(Forget(Cache(c), q.req.path), into)
<1>1. q.pc = "posted" /\ Go(c, k, Returned(q, TRUE))
  BY DEF RenamedOrRemoved, On
<1>. HIDE DEF into
<1>2. ToDocs(Len(docs), k) /\ Alike(q, q)
  BY AtHand, ForgetToDocs DEF Alike
<1>. QED  BY <1>1, <1>2, BackKeeps

LEMMA DownloadedKeeps ==
  ASSUME AccessInv, NEW c \in Callers, Downloaded(c), UNCHANGED <<flags, made>>
  PROVE  AccessInv'
<1>1. call[c].pc = "posted" /\ Go(c, Cache(c), Returned(call[c], TRUE))
  BY DEF Downloaded, On
<1>2. Alike(call[c], call[c])
  BY AtHand DEF Alike
<1>. QED  BY <1>1, <1>2, AtHand, BackKeeps

LEMMA DestinationListedKeeps ==
  ASSUME AccessInv, NEW c \in Callers, DestinationListed(c), UNCHANGED <<flags, made>>
  PROVE  AccessInv'
<1>1. CASE GivesUp(c, "list")
  BY <1>1, GivesUpKeeps
<1>2. CASE ~GivesUp(c, "list")
  <2>. DEFINE q == call[c]
              verb == IF Moves(q) THEN "move" ELSE "copy"
              r == Posting(q, verb)
  <2>1. q.pc = "list" /\ Go(c, Cache(c), r)
    BY <1>2 DEF DestinationListed, On
  <2>2. q.req.op \in Transferring /\ (OfDaemon(c) /\ mode # FullyWritable => Heeds(mode, q))
    BY <2>1, AtHand DEF Sound, InStep, TransferSteps
  <2>3. \/ verb = "move" /\ q.req.op \in {"fs.rename", "move"}
        \/ verb = "copy" /\ q.req.op = "copy"
    BY <2>2 DEF Moves, Transferring
  <2>. HIDE DEF verb
  <2>4. r.pc = "posted" /\ r.out = "post" /\ r.verb = verb /\ r.req = q.req /\ r.was = q.was
    BY AtHand, PostingIs
  <2>. HIDE DEF r
  <2>5. InStep(r)
    BY <2>3, <2>4 DEF InStep, UploadVerbs, TransferSteps
  <2>6. Heeds(mode, q) => Heeds(mode, r)
    BY <2>1, <2>3, <2>4 DEF Heeds, TransferSteps
  <2>. QED  BY <2>1, <2>2, <2>3, <2>5, <2>6, AtHand, PostsNext DEF r
<1>. QED  BY <1>1, <1>2
-----------------------------------------------------------------------------
(* The handlers' steps. *)

LEMMA AnsweringKeeps ==
  ASSUME AccessInv, NEW c \in Callers, UNCHANGED <<flags, made>>,
         \/ Looked(c) \/ WrittenBackOver(c) \/ PassedOn(c) \/ NewThere(c) \/ RemovalChecked(c)
         \/ StagedVerified(c)
  PROVE  AccessInv'
<1>1. PICK good : Answer(c, good)
  BY DEF Looked, WrittenBackOver, PassedOn, NewThere, RemovalChecked, StagedVerified
<1>. QED  BY <1>1, AnswerKeeps

\* A call that is returned to its handler, whatever has been changed of its request.
LEMMA FreshBack ==
  ASSUME NEW m, NEW c, NEW n, NEW q, DOMAIN q = CallFields, Requested(c, q.req),
         q.ans \in {"none", "ok", "error"}, \A e \in q.got : e.id \in 1..n,
         OfDaemon(c) /\ m # FullyWritable => Admits(m, q.req.op) /\ q.req.op \notin {"fs.close", "fs.markDirty"},
         NEW good
  PROVE  Sound(m, c, Returned(q, good)) /\ HasDocs(n, Returned(q, good))
<1>. DEFINE r == Returned(q, good)
<1>1. Alike(q, r) /\ r.pc = "back" /\ r.out \in {"found", "none"} /\ r.got = q.got
  BY ReturnedIs
<1>. HIDE DEF r
<1>2. InStep(r)
  BY <1>1 DEF InStep, TransferSteps
<1>3. OfDaemon(c) /\ m # FullyWritable => Heeds(m, r)
  BY <1>1 DEF Heeds, Alike, TransferSteps
<1>. QED  BY <1>1, <1>2, <1>3 DEF Sound, HasDocs, Alike, r

\* The first step of a request.
Starts(m, c, op, pc) ==
  \/ pc \in {"listed", "seen"}
  \/ pc = "parent" /\ op \in (Making \union Uploading) \ {"upload-dir"}
  \/ pc = "dir_parent" /\ op = "upload-dir"
  \/ pc = "resolve" /\ op \in Resolving /\ (OfDaemon(c) /\ m # FullyWritable => op = "fs.open")
  \/ pc = "source" /\ op \in {"copy", "move"}
  \/ pc = "copying" /\ op = "copy"
  \/ pc = "old" /\ op = "fs.rename"
  \/ pc = "removing" /\ op = "fs.remove"
  \/ pc = "target" /\ op = "fs.uploadStaged"

LEMMA FreshLook ==
  ASSUME NEW m, NEW c, NEW n, NEW q, DOMAIN q = CallFields, Requested(c, q.req),
         q.ans \in {"none", "ok", "error"}, NEW pc, Starts(m, c, q.req.op, pc),
         OfDaemon(c) /\ m # FullyWritable => Admits(m, q.req.op) /\ q.req.op \notin {"fs.close", "fs.markDirty"},
         NEW r, LookingUp(q, r, pc)
  PROVE  Sound(m, c, r) /\ HasDocs(n, r)
<1>1. DOMAIN r = CallFields /\ r.req = q.req /\ r.ans = q.ans /\ r.pc = pc /\ r.got = {}
      /\ r.out \in {"ask", "found", "none"}
  BY DEF LookingUp, Alike
<1>2. pc \notin {"done", "posted", "child"}
  BY DEF Starts
<1>3. InStep(r)
  BY <1>1 DEF InStep, Starts, TransferSteps, Transferring
<1>4. OfDaemon(c) /\ m # FullyWritable => Heeds(m, r)
  BY <1>1 DEF Heeds, Starts, TransferSteps
<1>. QED  BY <1>1, <1>2, <1>3, <1>4 DEF Sound, HasDocs

LEMMA CopyDecidedKeeps ==
  ASSUME AccessInv, NEW c \in Callers, CopyDecided(c)
  PROVE  AccessInv'
<1>. DEFINE dup == IF call[c].info.dir THEN "auto-rename" ELSE "fail"
            q == [call[c] EXCEPT !.req.dup = dup]
            b == Returned(q, FALSE)
            r == LookUp(Cache(c), q, "source", q.req.path, FALSE)
<1>1. /\ call[c].pc = "copying" /\ UNCHANGED <<flags, made>>
      /\ Answer(c, FALSE) \/ Go(c, Cache(c), b) \/ Go(c, Cache(c), r)
  BY DEF CopyDecided, On, Stay, Transfer
<1>2. dup \in Policies
  BY DEF Policies
<1>. HIDE DEF dup
<1>3. Requested(c, call[c].req) /\ call[c].req.op = "copy" /\ ~OfDaemon(c) /\ DOMAIN call[c] = CallFields
      /\ call[c].ans \in {"none", "ok", "error"} /\ \A e \in call[c].got : e.id \in 1..Len(docs)
  BY <1>1, AtHand DEF Sound, InStep, Requested, FSRequests, HasDocs
<1>4. /\ DOMAIN q = CallFields /\ q.ans = call[c].ans /\ q.got = call[c].got
      /\ q.req = [call[c].req EXCEPT !.dup = dup]
  BY <1>3, CallNames
<1>. HIDE DEF q
<1>5. Requested(c, q.req) /\ q.req.op = "copy"
  BY <1>2, <1>3, <1>4 DEF Requested
<1>6. Sound(mode, c, b) /\ HasDocs(Len(docs), b)
  BY <1>3, <1>4, <1>5, FreshBack
<1>7. LookingUp(q, r, "source")
  BY <1>4, LookUpLooks
<1>. HIDE DEF b, r
<1>8. Sound(mode, c, r) /\ HasDocs(Len(docs), r)
  <2>. Starts(mode, c, q.req.op, "source")
    BY <1>5 DEF Starts
  <2>. QED  BY <1>3, <1>4, <1>5, <1>7, FreshLook
<1>. QED  BY <1>1, <1>6, <1>8, AtHand, AnswerKeeps, GoKeeps

\* q, c's call but for what its handler notes down, goes on as r.
LEMMA HandlerLooks ==
  ASSUME AccessInv, NEW c \in Callers, call[c].pc # "done", NEW q, q.req = call[c].req, q.ans = call[c].ans,
         NEW pc, NEW r, LookingUp(q, r, pc), pc \notin {"done", "posted", "child"}, Go(c, Cache(c), r),
         InStep(r), OfDaemon(c) /\ mode # FullyWritable /\ Heeds(mode, call[c]) => Heeds(mode, r),
         UNCHANGED <<flags, made>>
  PROVE  AccessInv'
<1>1. /\ Requested(c, call[c].req) /\ call[c].ans \in {"none", "ok", "error"} /\ ToDocs(Len(docs), Cache(c))
      /\ OfDaemon(c) /\ mode # FullyWritable => Heeds(mode, call[c])
  BY AtHand DEF Sound
<1>. QED  BY <1>1, LooksOn

LEMMA OldSeenKeeps ==
  ASSUME AccessInv, NEW c \in Callers, OldSeen(c)
  PROVE  AccessInv'
<1>. DEFINE q == [call[c] EXCEPT !.was = call[c].info]
            r1 == LookUp(Cache(c), q, "new", q.req.to, FALSE)
            r2 == LookUp(Cache(c), q, "into", Parent(q.req.to), FALSE)
<1>1. /\ call[c].pc = "old" /\ UNCHANGED <<flags, made>>
      /\ \/ Answer(c, FALSE) \/ Answer(c, TRUE)
         \/ RenamePermitted(q, q.was.dir) /\ (Go(c, Cache(c), r1) \/ Go(c, Cache(c), r2))
  BY DEF OldSeen, On, Stay
<1>2. /\ DOMAIN q = CallFields /\ q.req = call[c].req /\ q.ans = call[c].ans
  BY AtHand, CallNames
<1>3. call[c].req.op = "fs.rename"
  BY <1>1, AtHand DEF Sound, InStep
<1>. HIDE DEF q
<1>4. ASSUME NEW pc \in {"new", "into"}, NEW r, LookingUp(q, r, pc), RenamePermitted(q, q.was.dir),
             Go(c, Cache(c), r)
      PROVE  AccessInv'
  <2>1. r.req = call[c].req /\ r.was = q.was /\ r.pc = pc /\ r.out # "post"
    BY <1>2, <1>4 DEF LookingUp, Alike
  <2>2. InStep(r)
    BY <1>3, <2>1 DEF InStep, TransferSteps
  <2>3. Heeds(mode, call[c]) => Heeds(mode, r)
    BY <1>2, <1>3, <1>4, <2>1 DEF Heeds, RenamePermitted, TransferSteps
  <2>. QED  BY <1>1, <1>2, <1>4, <2>2, <2>3, HandlerLooks
<1>5. LookingUp(q, r1, "new") /\ LookingUp(q, r2, "into")
  BY <1>2, LookUpLooks
<1>. HIDE DEF r1, r2
<1>. QED  BY <1>1, <1>4, <1>5, AnswerKeeps

LEMMA IntoSeenKeeps ==
  ASSUME AccessInv, NEW c \in Callers, IntoSeen(c)
  PROVE  AccessInv'
<1>. DEFINE q == call[c]
            r == LookUp(Cache(c), q, "new", q.req.to, FALSE)
<1>1. q.pc = "into" /\ UNCHANGED <<flags, made>> /\ (Answer(c, FALSE) \/ Go(c, Cache(c), r))
  BY DEF IntoSeen, On, Stay
<1>2. LookingUp(q, r, "new")
  BY AtHand, LookUpLooks
<1>3. q.req.op = "fs.rename"
  BY <1>1, AtHand DEF Sound, InStep
<1>. HIDE DEF r
<1>4. r.req = q.req /\ r.was = q.was /\ r.pc = "new" /\ r.out # "post"
  BY <1>2 DEF LookingUp, Alike
<1>5. InStep(r)
  BY <1>3, <1>4 DEF InStep, TransferSteps
<1>6. Heeds(mode, q) => Heeds(mode, r)
  BY <1>1, <1>3, <1>4 DEF Heeds, TransferSteps
<1>. QED  BY <1>1, <1>2, <1>5, <1>6, AnswerKeeps, HandlerLooks

LEMMA NewSeenKeeps ==
  ASSUME AccessInv, NEW c \in Callers, NewSeen(c)
  PROVE  AccessInv'
<1>. DEFINE q == call[c]
            same == SameParent(q.req.path, q.req.to)
            r1 == LookUp(Cache(c), q, "resolve", q.req.path, FALSE)
            r2 == LookUp(Cache(c), q, "source", q.req.path, FALSE)
<1>1. /\ q.pc = "new" /\ UNCHANGED <<flags, made>>
      /\ \/ Answer(c, FALSE) \/ Go(c, Cache(c), Returned(q, FALSE))
         \/ same /\ Go(c, Cache(c), r1)
         \/ ~same /\ Go(c, Cache(c), r2)
  BY DEF NewSeen, On, Stay, OnDocument, Transfer
<1>2. LookingUp(q, r1, "resolve") /\ LookingUp(q, r2, "source") /\ Alike(q, q)
  BY AtHand, LookUpLooks DEF Alike
<1>3. q.req.op = "fs.rename"
  BY <1>1, AtHand DEF Sound, InStep
<1>. HIDE DEF r1, r2
<1>4. CASE same /\ Go(c, Cache(c), r1)
  <2>1. r1.req = q.req /\ r1.was = q.was /\ r1.pc = "resolve" /\ r1.out # "post"
    BY <1>2 DEF LookingUp, Alike
  <2>2. InStep(r1)
    BY <1>3, <2>1 DEF InStep, TransferSteps, Resolving
  <2>3. Heeds(mode, q) => Heeds(mode, r1)
    BY <1>1, <1>3, <1>4, <2>1 DEF Heeds, TransferSteps
  <2>. QED  BY <1>1, <1>2, <1>4, <2>2, <2>3, HandlerLooks
<1>5. CASE ~same /\ Go(c, Cache(c), r2)
  <2>1. r2.req = q.req /\ r2.was = q.was /\ r2.pc = "source" /\ r2.out # "post"
    BY <1>2 DEF LookingUp, Alike
  <2>2. InStep(r2)
    BY <1>3, <2>1 DEF InStep, TransferSteps, Transferring
  <2>3. Heeds(mode, q) => Heeds(mode, r2)
    BY <1>1, <1>3, <1>5, <2>1 DEF Heeds, TransferSteps
  <2>. QED  BY <1>1, <1>2, <1>5, <2>2, <2>3, HandlerLooks
<1>6. CASE Go(c, Cache(c), Returned(q, FALSE))
  BY <1>1, <1>2, <1>6, AtHand, BackKeeps
<1>. QED  BY <1>1, <1>4, <1>5, <1>6, AnswerKeeps

LEMMA RenameCheckedKeeps ==
  ASSUME AccessInv, NEW c \in Callers, RenameReturned(c) \/ OldGone(c)
  PROVE  AccessInv'
<1>. DEFINE q == call[c]
            p == [q EXCEPT !.gone = ~Good(c)]
            r1 == LookUp(Cache(c), q, "old_gone", q.req.path, FALSE)
            r2 == LookUp(Cache(c), p, "new_there", p.req.to, FALSE)
<1>1. /\ q.pc # "done" /\ q.req.op = "fs.rename" /\ UNCHANGED <<flags, made>>
      /\ Answer(c, Good(c)) \/ Go(c, Cache(c), r1) \/ Go(c, Cache(c), r2)
  <2>1. CASE RenameReturned(c)
    BY <2>1 DEF RenameReturned, On, Stay
  <2>2. CASE OldGone(c)
    BY <2>2, AtHand DEF OldGone, On, Stay, Sound, InStep
  <2>. QED  BY <2>1, <2>2
<1>2. DOMAIN q = CallFields /\ DOMAIN p = CallFields /\ p.req = q.req /\ p.ans = q.ans
  BY AtHand, CallNames
<1>. HIDE DEF p
<1>3. LookingUp(q, r1, "old_gone") /\ LookingUp(p, r2, "new_there")
  BY <1>2, LookUpLooks
<1>. HIDE DEF r1, r2
<1>4. ASSUME NEW pc \in {"old_gone", "new_there"}, NEW w, w.req = q.req, w.ans = q.ans,
             NEW r, LookingUp(w, r, pc), Go(c, Cache(c), r)
      PROVE  AccessInv'
  <2>1. r.req = q.req /\ r.pc = pc /\ r.out # "post"
    BY <1>4 DEF LookingUp, Alike
  <2>2. InStep(r)
    BY <1>1, <2>1 DEF InStep, TransferSteps
  <2>3. Heeds(mode, q) => Heeds(mode, r)
    BY <1>1, <2>1 DEF Heeds, TransferSteps
  <2>. QED  BY <1>1, <1>4, <2>2, <2>3, HandlerLooks
<1>. QED  BY <1>1, <1>2, <1>3, <1>4, AnswerKeeps

LEMMA RemovalSeenKeeps ==
  ASSUME AccessInv, NEW c \in Callers, RemovalSeen(c)
  PROVE  AccessInv'
<1>. DEFINE q == [call[c] EXCEPT !.was = call[c].info]
            r == LookUp(Cache(c), q, "resolve", q.req.path, FALSE)
<1>1. /\ call[c].pc = "removing" /\ UNCHANGED <<flags, made>>
      /\ \/ Answer(c, FALSE)
         \/ May(IF q.was.dir THEN "deleteDir" ELSE "deleteFile") /\ Go(c, Cache(c), r)
  BY DEF RemovalSeen, On, Stay, OnDocument
<1>2. DOMAIN q = CallFields /\ q.req = call[c].req /\ q.ans = call[c].ans
  BY AtHand, CallNames
<1>3. call[c].req.op = "fs.remove"
  BY <1>1, AtHand DEF Sound, InStep
<1>. HIDE DEF q
<1>4. LookingUp(q, r, "resolve")
  BY <1>2, LookUpLooks
<1>. HIDE DEF r
<1>5. r.req = call[c].req /\ r.was = q.was /\ r.pc = "resolve" /\ r.out # "post"
  BY <1>2, <1>4 DEF LookingUp, Alike
<1>6. InStep(r)
  BY <1>3, <1>5 DEF InStep, TransferSteps, Resolving
<1>7. CASE May(IF q.was.dir THEN "deleteDir" ELSE "deleteFile") /\ Go(c, Cache(c), r)
  <2>. Heeds(mode, call[c]) => Heeds(mode, r)
    BY <1>3, <1>5, <1>7 DEF Heeds, May
  <2>. QED  BY <1>1, <1>2, <1>4, <1>6, <1>7, HandlerLooks
<1>. QED  BY <1>1, <1>7, AnswerKeeps

LEMMA RemoveReturnedKeeps ==
  ASSUME AccessInv, NEW c \in Callers, RemoveReturned(c)
  PROVE  AccessInv'
<1>. DEFINE q == [call[c] EXCEPT !.gone = Good(c)]
            r == LookUp(Cache(c), q, "removed", call[c].req.path, FALSE)
<1>1. /\ call[c].pc = "back" /\ call[c].req.op = "fs.remove" /\ UNCHANGED <<flags, made>>
      /\ Go(c, Cache(c), r)
  BY DEF RemoveReturned, On, Stay
<1>2. DOMAIN q = CallFields /\ q.req = call[c].req /\ q.ans = call[c].ans
  BY AtHand, CallNames
<1>. HIDE DEF q
<1>3. LookingUp(q, r, "removed")
  BY <1>2, LookUpLooks
<1>. HIDE DEF r
<1>4. r.req = call[c].req /\ r.pc = "removed" /\ r.out # "post"
  BY <1>2, <1>3 DEF LookingUp, Alike
<1>5. InStep(r)
  BY <1>4 DEF InStep, TransferSteps
<1>6. Heeds(mode, call[c]) => Heeds(mode, r)
  BY <1>1, <1>4 DEF Heeds
<1>. QED  BY <1>1, <1>2, <1>3, <1>5, <1>6, HandlerLooks

LEMMA StagedKeeps ==
  ASSUME AccessInv, NEW c \in Callers, TargetSeen(c) \/ StagedReturned(c)
  PROVE  AccessInv'
<1>. DEFINE q == call[c]
            r1 == LookUp(Cache(c), q, "parent", Parent(q.req.path), FALSE)
            r2 == LookUp(Cache(c), q, "staged", q.req.path, FALSE)
<1>1. /\ q.pc # "done" /\ q.req.op = "fs.uploadStaged" /\ UNCHANGED <<flags, made>>
      /\ \/ Answer(c, FALSE) \/ Go(c, Cache(c), Returned(q, FALSE))
         \/ Go(c, Cache(c), r1) \/ Go(c, Cache(c), r2)
  <2>1. CASE TargetSeen(c)
    BY <2>1, AtHand DEF TargetSeen, On, Stay, IntoParent, Sound, InStep
  <2>2. CASE StagedReturned(c)
    BY <2>2 DEF StagedReturned, On
  <2>. QED  BY <2>1, <2>2
<1>2. LookingUp(q, r1, "parent") /\ LookingUp(q, r2, "staged")
  BY AtHand, LookUpLooks
<1>. HIDE DEF r1, r2
<1>3. ASSUME NEW pc \in {"parent", "staged"}, NEW r, LookingUp(q, r, pc), Go(c, Cache(c), r)
      PROVE  AccessInv'
  <2>1. r.req = q.req /\ r.pc = pc /\ r.out # "post"
    BY <1>3 DEF LookingUp, Alike
  <2>2. InStep(r)
    BY <1>1, <2>1 DEF InStep, TransferSteps, Uploading
  <2>3. Heeds(mode, q) => Heeds(mode, r)
    BY <1>1, <2>1 DEF Heeds
  <2>. QED  BY <1>1, <1>3, <2>2, <2>3, HandlerLooks
<1>4. CASE Go(c, Cache(c), Returned(q, FALSE))
  <2>. Alike(q, q)
    BY AtHand DEF Alike
  <2>. QED  BY <1>1, <1>4, AtHand, BackKeeps
<1>. QED  BY <1>1, <1>2, <1>3, <1>4, AnswerKeeps

LEMMA HandlerKeeps ==
  ASSUME AccessInv, NEW c \in Callers, Handler(c)
  PROVE  AccessInv'
<1>1. CASE \/ Looked(c) \/ WrittenBackOver(c) \/ PassedOn(c) \/ NewThere(c) \/ RemovalChecked(c)
           \/ StagedVerified(c)
  <2>. UNCHANGED <<flags, made>>
    BY <1>1 DEF Looked, WrittenBackOver, PassedOn, NewThere, RemovalChecked, StagedVerified, Stay
  <2>. QED  BY <1>1, AnsweringKeeps
<1>. QED  BY <1>1, CopyDecidedKeeps, OldSeenKeeps, IntoSeenKeeps, NewSeenKeeps, RenameCheckedKeeps,
             RemovalSeenKeeps, RemoveReturnedKeeps, StagedKeeps DEF Handler
-----------------------------------------------------------------------------
(* A request arrives. *)

\* No mode lets a local file be written back: canWriteFile is set by none.
LEMMA NoneWrites ==
  ASSUME NEW m \in Modes
  PROVE  ~Admits(m, "fs.markDirty")
<1>1. \A i \in 1..8 : "writeFile" \notin Adds[i]
  BY DEF Adds
<1>2. "writeFile" \notin Can(m)
  BY <1>1 DEF Can, Modes
<1>. QED  BY <1>2 DEF Admits, Needs, Modes, FullyWritable

LEMMA TheMode ==
  ASSUME flags \in SUBSET Modes
  PROVE  mode \in {FullyWritable} \union Modes /\ (flags = {} <=> mode = FullyWritable)
<1>1. CASE flags = {}
  BY <1>1 DEF mode, PolicyFrom
<1>2. CASE flags # {}
  <2>1. PolicyFrom(flags) \in Modes
    BY <1>2, PolicyIsLeast
  <2>2. mode \in Modes
    BY <2>1 DEF mode
  <2>3. mode # FullyWritable
    BY <2>2 DEF Modes, FullyWritable
  <2>. QED  BY <1>2, <2>2, <2>3
<1>. QED  BY <1>1, <1>2

LEMMA FreshAnswer ==
  ASSUME NEW m, NEW c, NEW n, NEW q, DOMAIN q = CallFields, NEW good
  PROVE  Sound(m, c, Answered(q, good)) /\ HasDocs(n, Answered(q, good))
<1>. DEFINE r == Answered(q, good)
<1>1. /\ DOMAIN r = CallFields /\ r.pc = "done" /\ r.out = "found" /\ r.ans \in {"ok", "error"}
      /\ r.got = {}
  BY AnsweredIs
<1>. HIDE DEF r
<1>2. Sound(m, c, r) /\ HasDocs(n, r)
  BY <1>1, DoneIsSound
<1>. QED  BY <1>2 DEF r

LEMMA WrittenBackIsSound ==
  ASSUME NEW c, NEW n, NEW k, NEW q, DOMAIN q = CallFields, Requested(c, q.req),
         q.got = {}, flags \in SUBSET Modes, OfDaemon(c), Admits(mode, q.req.op),
         q.req.op \in {"fs.close", "fs.markDirty"}, NEW local
  PROVE  Sound(mode, c, WrittenBack(k, q, local)) /\ HasDocs(n, WrittenBack(k, q, local))
<1>. DEFINE p == [q EXCEPT !.ans = "ok"]
            r == [IntoParent(k, q) EXCEPT !.ans = "ok"]
<1>1. CASE Restricted
  <2>1. mode \in Modes
    BY <1>1, TheMode DEF Restricted
  <2>2. q.req.op = "fs.close"
    BY <2>1, NoneWrites
  <2>. QED  BY <1>1, <2>2, FreshAnswer DEF WrittenBack
<1>2. CASE ~Restricted /\ local /\ q.req.path = <<>>
  <2>1. Alike(q, Returned(q, FALSE)) /\ Returned(q, FALSE).pc = "back" /\ Returned(q, FALSE).got = q.got
        /\ Returned(q, FALSE).out \in {"found", "none"}
    BY ReturnedIs
  <2>2. WrittenBack(k, q, local) = [Returned(q, FALSE) EXCEPT !.ans = "ok"]
    BY <1>2 DEF WrittenBack, IntoParent
  <2>. DEFINE b == [Returned(q, FALSE) EXCEPT !.ans = "ok"]
  <2>3. /\ DOMAIN b = CallFields /\ b.req = q.req /\ b.ans = "ok" /\ b.pc = "back" /\ b.got = q.got
        /\ b.out \in {"found", "none"}
    BY <2>1, CallNames DEF Alike
  <2>. HIDE DEF b
  <2>4. InStep(b)
    BY <2>3 DEF InStep, TransferSteps
  <2>. QED  BY <1>2, <2>2, <2>3, <2>4 DEF Sound, HasDocs, Restricted, b
<1>4. CASE ~Restricted /\ local /\ q.req.path # <<>>
  <2>1. LookingUp(q, IntoParent(k, q), "parent")
    BY <1>4, LookUpLooks DEF IntoParent
  <2>2. DOMAIN p = CallFields /\ p.req = q.req /\ p.ans = "ok"
    BY CallNames
  <2>3. LookingUp(p, r, "parent")
    BY <2>1, CallNames DEF LookingUp, Alike
  <2>4. WrittenBack(k, q, local) = r
    BY <1>4 DEF WrittenBack
  <2>. HIDE DEF p, r
  <2>5. Starts(mode, c, p.req.op, "parent")
    BY <2>2 DEF Starts, Uploading
  <2>6. Sound(mode, c, r) /\ HasDocs(n, r)
    BY <1>4, <2>2, <2>3, <2>5, FreshLook DEF Restricted
  <2>. QED  BY <2>4, <2>6
<1>3. CASE ~Restricted /\ ~local
  BY <1>3, FreshAnswer DEF WrittenBack
<1>. QED  BY <1>1, <1>2, <1>3, <1>4

LEMMA DaemonBeginsSound ==
  ASSUME NEW c, NEW n, NEW k, NEW q, DOMAIN q = CallFields, q.got = {}, q.ans = "none",
         Requested(c, q.req), flags \in SUBSET Modes, OfDaemon(c), Admits(mode, q.req.op), NEW local
  PROVE  Sound(mode, c, DaemonBegins(k, q, local)) /\ HasDocs(n, DaemonBegins(k, q, local))
<1>. DEFINE op == q.req.op
<1>1. op \in FSRequests
  BY DEF Requested
<1>2. CASE op \in {"fs.close", "fs.markDirty"}
  BY <1>2, WrittenBackIsSound DEF DaemonBegins
<1>3. CASE op \notin {"fs.close", "fs.markDirty"}
  <2>1. ASSUME NEW pc, Starts(mode, c, op, pc), NEW goal, NEW whole
        PROVE  Sound(mode, c, LookUp(k, q, pc, goal, whole)) /\ HasDocs(n, LookUp(k, q, pc, goal, whole))
    <3>. DEFINE r == LookUp(k, q, pc, goal, whole)
    <3>1. LookingUp(q, r, pc)
      BY LookUpLooks
    <3>. HIDE DEF r
    <3>2. Sound(mode, c, r) /\ HasDocs(n, r)
      BY <1>3, <2>1, <3>1, FreshLook
    <3>. QED  BY <3>2 DEF r
  <2>2. CASE op = "fs.list"
    <3>. Starts(mode, c, op, "listed")
      BY DEF Starts
    <3>. QED  BY <2>1, <2>2 DEF DaemonBegins
  <2>3. CASE op = "fs.stat"
    <3>. Starts(mode, c, op, "seen")
      BY DEF Starts
    <3>. QED  BY <2>1, <2>3 DEF DaemonBegins
  <2>4. CASE op = "fs.open"
    <3>. Starts(mode, c, op, "resolve")
      BY <2>4 DEF Starts, Resolving
    <3>. QED  BY <2>1, <2>4 DEF DaemonBegins, OnDocument
  <2>5. CASE op = "fs.mkdir"
    <3>. Starts(mode, c, op, "parent")
      BY <2>5 DEF Starts, Making
    <3>1. Sound(mode, c, Returned(q, FALSE)) /\ HasDocs(n, Returned(q, FALSE))
      BY <1>3, FreshBack
    <3>. QED  BY <2>1, <2>5, <3>1 DEF DaemonBegins, IntoParent
  <2>6. CASE op = "fs.rename"
    <3>1. CASE Restricted
      <4>. Starts(mode, c, op, "old")
        BY <2>6 DEF Starts
      <4>. QED  BY <2>1, <2>6, <3>1 DEF DaemonBegins
    <3>2. CASE ~Restricted
      <4>. Starts(mode, c, op, "resolve")
        BY <2>6, <3>2 DEF Starts, Resolving, Restricted
      <4>. QED  BY <2>1, <2>6, <3>2 DEF DaemonBegins, OnDocument
    <3>. QED  BY <3>1, <3>2
  <2>7. CASE op = "fs.remove"
    <3>. Starts(mode, c, op, "removing")
      BY <2>7 DEF Starts
    <3>. QED  BY <2>1, <2>7, FreshAnswer DEF DaemonBegins
  <2>8. CASE op = "fs.uploadStaged"
    <3>. Starts(mode, c, op, "target")
      BY <2>8 DEF Starts
    <3>. QED  BY <2>1, <2>8 DEF DaemonBegins
  <2>. QED  BY <1>1, <1>3, <2>2, <2>3, <2>4, <2>5, <2>6, <2>7, <2>8 DEF FSRequests
<1>. QED  BY <1>2, <1>3

LEMMA CommandBeginsSound ==
  ASSUME NEW m, NEW c, NEW n, NEW k, NEW q, DOMAIN q = CallFields, q.got = {}, q.ans = "none",
         Requested(c, q.req), ~OfDaemon(c)
  PROVE  Sound(m, c, CommandBegins(k, q)) /\ HasDocs(n, CommandBegins(k, q))
<1>. DEFINE op == q.req.op
<1>1. op \in RemoteCommands
  BY DEF Requested
<1>2. ASSUME NEW pc, Starts(m, c, op, pc), NEW goal, NEW whole
      PROVE  Sound(m, c, LookUp(k, q, pc, goal, whole)) /\ HasDocs(n, LookUp(k, q, pc, goal, whole))
  <2>. DEFINE r == LookUp(k, q, pc, goal, whole)
  <2>1. LookingUp(q, r, pc)
    BY LookUpLooks
  <2>. HIDE DEF r
  <2>2. Sound(m, c, r) /\ HasDocs(n, r)
    BY <1>2, <2>1, FreshLook
  <2>. QED  BY <2>2 DEF r
<1>3. CASE op \in {"ls", "stat"}
  <2>. Starts(m, c, op, "listed") /\ Starts(m, c, op, "seen")
    BY DEF Starts
  <2>. QED  BY <1>2, <1>3 DEF CommandBegins
<1>4. CASE op \in {"mkdir", "upload"}
  <2>. Starts(m, c, op, "parent")
    BY <1>4 DEF Starts, Making, Uploading
  <2>1. Sound(m, c, Returned(q, FALSE)) /\ HasDocs(n, Returned(q, FALSE))
    BY FreshBack
  <2>. QED  BY <1>2, <1>4, <2>1 DEF CommandBegins, IntoParent
<1>5. CASE op = "upload-dir"
  <2>. Starts(m, c, op, "dir_parent")
    BY <1>5 DEF Starts
  <2>. QED  BY <1>2, <1>5 DEF CommandBegins
<1>6. CASE op \in {"copy", "move"}
  <2>1. Sound(m, c, Returned(q, FALSE)) /\ HasDocs(n, Returned(q, FALSE))
    BY FreshBack
  <2>2. Starts(m, c, op, "source")
    BY <1>6 DEF Starts
  <2>3. Sound(m, c, Transfer(k, q)) /\ HasDocs(n, Transfer(k, q))
    BY <1>2, <2>1, <2>2 DEF Transfer
  <2>4. CASE op = "move"
    BY <2>3, <2>4 DEF CommandBegins, MoveCommand
  <2>5. CASE op = "copy"
    <3>. Starts(m, c, op, "copying")
      BY <2>5 DEF Starts
    <3>. QED  BY <1>2, <2>3, <2>5 DEF CommandBegins, CopyCommand
  <2>. QED  BY <1>6, <2>4, <2>5
<1>7. CASE op \in {"download", "rename", "rm"}
  <2>1. Starts(m, c, op, "resolve")
    BY <1>7 DEF Starts, Resolving
  <2>2. Sound(m, c, OnDocument(k, q)) /\ HasDocs(n, OnDocument(k, q))
    BY <1>2, <2>1 DEF OnDocument
  <2>3. Sound(m, c, Answered(q, FALSE)) /\ HasDocs(n, Answered(q, FALSE))
    BY FreshAnswer
  <2>4. CommandBegins(k, q) \in {OnDocument(k, q), Answered(q, FALSE)}
    BY <1>7 DEF CommandBegins, DownloadCommand, RenameCommand, RemoveCommand
  <2>. QED  BY <2>2, <2>3, <2>4
<1>. QED  BY <1>1, <1>3, <1>4, <1>5, <1>6, <1>7 DEF RemoteCommands

\* What others do leaves a call as it is, up to its history.
LEMMA AloneIsSound ==
  ASSUME NEW m, NEW c, NEW n, NEW q, Sound(m, c, q), HasDocs(n, q)
  PROVE  LET r == [q EXCEPT !.alone = FALSE] IN Sound(m, c, r) /\ HasDocs(n, r)
<1>. DEFINE r == [q EXCEPT !.alone = FALSE]
<1>1. /\ DOMAIN r = CallFields /\ r.req = q.req /\ r.pc = q.pc /\ r.out = q.out /\ r.ans = q.ans
      /\ r.verb = q.verb /\ r.was = q.was /\ r.got = q.got /\ r.new = q.new /\ r.dst = q.dst
  BY CallNames DEF Sound
<1>. HIDE DEF r
<1>2. (InStep(q) => InStep(r)) /\ (Heeds(m, q) => Heeds(m, r))
  BY <1>1 DEF InStep, Heeds
<1>3. Sound(m, c, r) /\ HasDocs(n, r)
  BY <1>1, <1>2 DEF Sound, HasDocs
<1>. QED  BY <1>3 DEF r

LEMMA RequestKeeps ==
  ASSUME AccessInv, NEW c \in Callers, NEW r \in Menu[c], NEW local, Request(c, r, local)
  PROVE  AccessInv'
<1>. DEFINE others == {d \in Callers \ {c} : Active(d)}
            fresh == IF OfDaemon(c) THEN known ELSE [known EXCEPT ![Process[c]] = <<>>]
            q == [NoCall EXCEPT !.req = r, !.alone = (others = {})]
            k == fresh[Process[c]]
            first == IF OfDaemon(c)
                     THEN IF Admits(mode, r.op) THEN DaemonBegins(k, q, local) ELSE Answered(q, FALSE)
                     ELSE CommandBegins(k, q)
<1>1. /\ made < MaxCalls /\ made' = made + 1 /\ known' = fresh
      /\ UNCHANGED <<docs, faults, flags>>
      /\ call' = [d \in Callers |->
           CASE d \in others -> [call[d] EXCEPT !.alone = FALSE] [] d = c -> first [] OTHER -> call[d]]
  BY DEF Request
<1>2. /\ DOMAIN q = CallFields /\ q.req = r /\ q.ans = "none" /\ q.got = {}
  BY DEF CallFields, NoCall
<1>. HIDE DEF q, k
<1>3. Requested(c, r)
  BY RequestsAssumption DEF Requested
<1>4. Sound(mode, c, first) /\ HasDocs(Len(docs), first)
  <2>1. CASE OfDaemon(c) /\ Admits(mode, r.op)
    BY <1>2, <1>3, <2>1, DaemonBeginsSound DEF AccessInv
  <2>2. CASE OfDaemon(c) /\ ~Admits(mode, r.op)
    BY <1>2, <2>2, FreshAnswer
  <2>3. CASE ~OfDaemon(c)
    BY <1>2, <1>3, <2>3, CommandBeginsSound
  <2>. QED  BY <2>1, <2>2, <2>3
<1>. HIDE DEF first
<1>5. mode' = mode
  BY <1>1 DEF mode
<1>6. \A d \in Callers : Sound(mode, d, call'[d]) /\ HasDocs(Len(docs), call'[d])
  <2>. SUFFICES ASSUME NEW d \in Callers PROVE Sound(mode, d, call'[d]) /\ HasDocs(Len(docs), call'[d])
    OBVIOUS
  <2>1. CASE d = c
    BY <1>1, <1>4, <2>1
  <2>2. CASE d # c /\ d \in others
    <3>1. call'[d] = [call[d] EXCEPT !.alone = FALSE]
      BY <1>1, <2>2
    <3>2. Sound(mode, d, call[d]) /\ HasDocs(Len(docs), call[d])
      BY AtHand
    <3>3. LET w == [call[d] EXCEPT !.alone = FALSE] IN Sound(mode, d, w) /\ HasDocs(Len(docs), w)
      BY <3>2, AloneIsSound
    <3>. QED  BY <3>1, <3>3
  <2>3. CASE d # c /\ d \notin others
    BY <1>1, <2>3, AtHand
  <2>. QED  BY <2>1, <2>2, <2>3
<1>7. CallsAreSound'
  BY <1>1, <1>5, <1>6 DEF CallsAreSound
<1>8. DocsAreKnown'
  <2>. DEFINE P == {Process[d] : d \in Callers}
  <2>1. known = [p \in P |-> known[p]] /\ \A p \in P : ToDocs(Len(docs), known[p])
    BY DEF AccessInv, DocsAreKnown
  <2>2. known' = [p \in P |-> known'[p]] /\ \A p \in P : known'[p] = known[p] \/ known'[p] = <<>>
    BY <1>1, <2>1
  <2>3. ToDocs(Len(docs), <<>>)
    BY DEF ToDocs
  <2>4. \A p \in DOMAIN known' : ToDocs(Len(docs'), known'[p])
    BY <1>1, <2>1, <2>2, <2>3
  <2>. QED  BY <1>1, <1>6, <2>2, <2>4 DEF DocsAreKnown
<1>9. made' \in 0..MaxCalls
  BY <1>1, RequestsAssumption DEF AccessInv
<1>. QED  BY <1>1, <1>7, <1>8, <1>9 DEF AccessInv
-----------------------------------------------------------------------------
(* The server answers. *)

LEMMA StillHas ==
  ASSUME NEW n, n \in Nat, NEW l, l \in Nat, n <= l
  PROVE  /\ \A k : ToDocs(n, k) => ToDocs(l, k)
         /\ \A q : HasDocs(n, q) => HasDocs(l, q)
<1>. 1..n \subseteq 1..l
  OBVIOUS
<1>. QED  BY DEF ToDocs, HasDocs

\* A step of c that may change the documents, and no cache.
LEMMA WorldKeeps ==
  ASSUME AccessInv, NEW c \in Callers, call' = [d \in Callers |-> call'[d]],
         \A d \in Callers \ {c} : call'[d] = call[d], known' = known, UNCHANGED <<flags, made>>,
         faults' \in 0..MaxFaults, AreDocs(docs'), IsTree(docs'), Len(docs') >= Len(docs),
         Sound(mode, c, call'[c]), HasDocs(Len(docs'), call'[c])
  PROVE  AccessInv'
<1>1. mode' = mode
  BY DEF mode
<1>2. Len(docs) \in Nat /\ Len(docs') \in Nat /\ Len(docs) <= Len(docs')
  BY DEF AccessInv, AreDocs
<1>3. CallsAreSound'
  BY <1>1, AtHand DEF CallsAreSound
<1>4. DocsAreKnown'
  <2>1. \A d \in Callers : HasDocs(Len(docs'), call'[d])
    BY <1>2, AtHand, StillHas
  <2>2. \A p \in DOMAIN known' : ToDocs(Len(docs'), known'[p])
    BY <1>2, StillHas DEF AccessInv, DocsAreKnown
  <2>. QED  BY <2>1, <2>2 DEF AccessInv, DocsAreKnown
<1>. QED  BY <1>3, <1>4 DEF AccessInv

\* r is q with an answer to what it had asked.
Heard(q, r) ==
  /\ DOMAIN r = CallFields
  /\ r.req = q.req /\ r.was = q.was /\ r.ans = q.ans /\ r.pc = q.pc
  /\ r.verb = q.verb /\ r.dst = q.dst

LEMMA HeardIsSound ==
  ASSUME NEW m, NEW c, NEW q, Sound(m, c, q), NEW n, HasDocs(n, q), q.pc # "done", NEW r, Heard(q, r),
         \/ r.out \in {"ask", "got", "found", "none"} /\ q.pc # "posted"
         \/ r.out = "none",
         \A e \in r.got : e.id \in 1..n
  PROVE  Sound(m, c, r) /\ HasDocs(n, r)
<1>1. InStep(q) => InStep(r)
  BY DEF InStep, Heard
<1>2. Heeds(m, q) => Heeds(m, r)
  BY DEF Heeds, Heard
<1>. QED  BY <1>1, <1>2 DEF Sound, HasDocs, Heard

LEMMA FailsKeeps ==
  ASSUME AccessInv, NEW c \in Callers, Active(c), NEW after, AreDocs(after), IsTree(after),
         Len(after) >= Len(docs), Fails(c, after), UNCHANGED <<flags, made>>
  PROVE  AccessInv'
<1>1. /\ docs' = after /\ known' = known /\ faults' \in 0..MaxFaults
  BY RequestsAssumption DEF Fails, AccessInv
<1>2. /\ call' = [d \in Callers |-> call'[d]] /\ \A d \in Callers \ {c} : call'[d] = call[d]
      /\ Heard(call[c], call'[c]) /\ call'[c].out = "none" /\ call'[c].got = {}
  <2>1. call = [d \in Callers |-> call[d]] /\ DOMAIN call[c] = CallFields
    BY AtHand DEF AccessInv, CallsAreSound
  <2>. QED  BY <2>1, CallNames DEF Fails, Heard
<1>3. Sound(mode, c, call[c]) /\ HasDocs(Len(after), call[c])
  BY AtHand, StillHas DEF AccessInv, AreDocs
<1>4. Sound(mode, c, call'[c]) /\ HasDocs(Len(after), call'[c])
  BY <1>2, <1>3, HeardIsSound DEF Active
<1>. QED  BY <1>1, <1>2, <1>4, WorldKeeps

LEMMA AskKeeps ==
  ASSUME AccessInv, NEW c \in Callers, Ask(c), UNCHANGED <<flags, made>>
  PROVE  AccessInv'
<1>1. Active(c) /\ call[c].out = "ask"
  BY DEF Ask
<1>2. CASE Fails(c, docs)
  <2>. Len(docs) >= Len(docs)
    BY DEF AccessInv, AreDocs
  <2>. QED  BY <1>1, <1>2, FailsKeeps DEF AccessInv
<1>3. CASE ~Fails(c, docs)
  <2>1. UNCHANGED <<docs, known, faults>>
    BY <1>3 DEF Ask
  <2>2. /\ call' = [d \in Callers |-> call'[d]] /\ \A d \in Callers \ {c} : call'[d] = call[d]
        /\ Heard(call[c], call'[c])
        /\ \/ call'[c].out = "got" /\ call'[c].got = Listing(docs, call[c].at.id)
           \/ call'[c].out = "none" /\ call'[c].got = call[c].got
    <3>1. call = [d \in Callers |-> call[d]] /\ DOMAIN call[c] = CallFields
      BY AtHand DEF AccessInv, CallsAreSound
    <3>. DEFINE l == Listing(docs, call[c].at.id)
    <3>2. \/ call' = [call EXCEPT ![c].out = "got", ![c].got = l]
          \/ call' = [call EXCEPT ![c].out = "none"]
      BY <1>3 DEF Ask
    <3>. HIDE DEF l
    <3>3. CASE call' = [call EXCEPT ![c].out = "got", ![c].got = l]
      BY <3>1, <3>3, CallNames DEF Heard, l
    <3>4. CASE call' = [call EXCEPT ![c].out = "none"]
      BY <3>1, <3>4, CallNames DEF Heard
    <3>. QED  BY <3>2, <3>3, <3>4
  <2>3. \A e \in Listing(docs, call[c].at.id) : e.id \in 1..Len(docs)
    BY DEF Listing, Children, Live
  <2>4. \A e \in call'[c].got : e.id \in 1..Len(docs)
    BY <2>2, <2>3, AtHand DEF HasDocs
  <2>5. call[c].pc # "posted"
    BY <1>1, AtHand DEF Active, Sound, InStep
  <2>6. Sound(mode, c, call'[c]) /\ HasDocs(Len(docs), call'[c])
    BY <1>1, <2>2, <2>4, <2>5, AtHand, HeardIsSound DEF Active
  <2>7. AreDocs(docs') /\ IsTree(docs') /\ Len(docs') >= Len(docs)
    BY <2>1 DEF AccessInv, AreDocs
  <2>8. faults' \in 0..MaxFaults
    BY <2>1 DEF AccessInv
  <2>. QED  BY <2>1, <2>2, <2>6, <2>7, <2>8, WorldKeeps
<1>. QED  BY <1>2, <1>3

LEMMA LearnKeeps ==
  ASSUME AccessInv, NEW c \in Callers, Learn(c), UNCHANGED <<flags, made>>
  PROVE  AccessInv'
<1>. DEFINE q == call[c]
            k == Cached(Cache(c), Prefix(q.goal, q.at.n), q.got)
            r1 == [q EXCEPT !.out = "found"]
            r2 == Descend(k, q)
<1>1. q.pc # "done" /\ q.out = "got" /\ (Go(c, k, r1) \/ Go(c, k, r2))
  BY DEF Learn, Active, Go
<1>2. ToDocs(Len(docs), k)
  BY AtHand, CachedToDocs DEF HasDocs
<1>. HIDE DEF k
<1>3. Heard(q, r1) /\ r1.got = q.got /\ r1.out = "found"
  BY AtHand, CallNames DEF Heard
<1>4. LookingUp(q, r2, q.pc)
  BY AtHand, DescendLooks
<1>. HIDE DEF r1, r2
<1>5. q.pc # "posted"
  BY <1>1, AtHand DEF Sound, InStep
<1>6. Sound(mode, c, r1) /\ HasDocs(Len(docs), r1)
  <2>. \A e \in r1.got : e.id \in 1..Len(docs)
    BY <1>3, AtHand DEF HasDocs
  <2>. QED  BY <1>1, <1>3, <1>5, AtHand, HeardIsSound
<1>7. Sound(mode, c, r2) /\ HasDocs(Len(docs), r2)
  <2>. Heard(q, r2) /\ r2.got = {} /\ r2.out \in {"ask", "found", "none"}
    BY <1>4 DEF LookingUp, Alike, Heard
  <2>. QED  BY <1>1, <1>5, AtHand, HeardIsSound
<1>. QED  BY <1>1, <1>2, <1>6, <1>7, GoKeeps

\* What each post does to the documents.
PostDoes(q, d, a) ==
  /\ q.verb = "dir/create" => Made(d, a, TRUE, 1)
  /\ q.verb \in {"dupload", "osendupload"} => Made(d, a, FALSE, UploadOnDup(UploadPolicy(q)))
  /\ q.verb = "copy" => Made(d, a, FALSE, TransferOnDup(q.req.dup))
  /\ q.verb \in {"rename", "delete", "move"} => Len(a) = Len(d)
  /\ q.verb = "rename" => \A i \in 1..Len(d) : a[i].up = d[i].up /\ a[i].size = d[i].size
  /\ q.verb = "delete" => \A i \in 1..Len(d) : /\ a[i].name = d[i].name /\ a[i].size = d[i].size
                                               /\ a[i].up \in {d[i].up, Gone}
  /\ q.verb = "move" =>
       /\ q.src \in 1..Len(d)
       /\ \A i \in 1..Len(d) : /\ a[i].size = d[i].size
                               /\ a[i].up = Gone /\ i \in Live(d) => TransferOnDup(q.req.dup) = 3
       /\ TransferOnDup(q.req.dup) = 1 =>
            a[q.src].name = d[q.src].name /\ \A i \in 1..Len(d) \ {q.src} : a[i] = d[i]
  /\ q.verb \notin {"dir/create", "dupload", "osendupload", "copy", "rename", "delete", "move"} => a = d

LEMMA EffectKeeps ==
  ASSUME AreDocs(docs), IsTree(docs), NEW q, Effect(q) # Refused
  PROVE  LET a == Effect(q) IN
         AreDocs(a) /\ IsTree(a) /\ Len(a) >= Len(docs) /\ PostDoes(q, docs, a)
<1>. DEFINE a == Effect(q)
<1>0. Len(docs) \in Nat
  BY DEF AreDocs
<1>1. ASSUME NEW name, NEW dir \in BOOLEAN, NEW size, NEW dup,
             a = Created(docs, q.dst, name, dir, size, dup)
      PROVE  AreDocs(a) /\ IsTree(a) /\ Len(a) >= Len(docs) /\ Made(docs, a, dir, dup)
  <2>1. AreDocs(a) /\ IsTree(a) /\ Made(docs, a, dir, dup)
    BY <1>1, CreatedKeeps
  <2>. HIDE DEF a
  <2>2. Len(a) >= Len(docs)
    BY <1>0, <2>1 DEF Made
  <2>. QED  BY <2>1, <2>2
<1>2. CASE q.verb = "dir/create"
  <2>1. a = Created(docs, q.dst, q.name, TRUE, 0, 1)
    BY <1>2 DEF Effect
  <2>2. AreDocs(a) /\ IsTree(a) /\ Len(a) >= Len(docs) /\ Made(docs, a, TRUE, 1)
    BY <1>1, <2>1
  <2>. HIDE DEF a
  <2>3. PostDoes(q, docs, a)
    BY <1>2, <2>2 DEF PostDoes
  <2>. QED  BY <2>2, <2>3 DEF a
<1>3. CASE q.verb \in {"dupload", "osendupload"}
  <2>1. a = Created(docs, q.dst, q.name, FALSE, q.req.size, UploadOnDup(UploadPolicy(q)))
    BY <1>3 DEF Effect
  <2>2. /\ AreDocs(a) /\ IsTree(a) /\ Len(a) >= Len(docs)
        /\ Made(docs, a, FALSE, UploadOnDup(UploadPolicy(q)))
    BY <1>1, <2>1
  <2>. HIDE DEF a
  <2>3. PostDoes(q, docs, a)
    BY <1>3, <2>2 DEF PostDoes
  <2>. QED  BY <2>2, <2>3 DEF a
<1>4. CASE q.verb = "copy"
  <2>1. a = Copied(docs, q.src, q.dst, TransferOnDup(q.req.dup))
    BY <1>4 DEF Effect
  <2>2. a = Created(docs, q.dst, docs[q.src].name, FALSE, docs[q.src].size, TransferOnDup(q.req.dup))
    BY <2>1 DEF Copied
  <2>3. /\ AreDocs(a) /\ IsTree(a) /\ Len(a) >= Len(docs)
        /\ Made(docs, a, FALSE, TransferOnDup(q.req.dup))
    BY <1>1, <2>2
  <2>. HIDE DEF a
  <2>4. PostDoes(q, docs, a)
    BY <1>4, <2>3 DEF PostDoes
  <2>. QED  BY <2>3, <2>4 DEF a
<1>5. CASE q.verb = "rename"
  <2>1. a = Renamed(docs, q.src, q.name)
    BY <1>5 DEF Effect
  <2>2. /\ AreDocs(a) /\ IsTree(a) /\ Len(a) = Len(docs)
        /\ \A i \in 1..Len(docs) : a[i].up = docs[i].up /\ a[i].size = docs[i].size
    BY <2>1, RenamedKeeps
  <2>. HIDE DEF a
  <2>3. PostDoes(q, docs, a)
    BY <1>5, <2>2 DEF PostDoes
  <2>. QED  BY <1>0, <2>2, <2>3 DEF a
<1>6. CASE q.verb = "delete"
  <2>1. a = Deleted(docs, q.src)
    BY <1>6 DEF Effect
  <2>2. /\ AreDocs(a) /\ IsTree(a) /\ Len(a) = Len(docs)
        /\ \A i \in 1..Len(docs) : /\ a[i].name = docs[i].name /\ a[i].size = docs[i].size
                                   /\ a[i].up \in {docs[i].up, Gone}
    BY <2>1, DeletedKeeps
  <2>. HIDE DEF a
  <2>3. PostDoes(q, docs, a)
    BY <1>6, <2>2 DEF PostDoes
  <2>. QED  BY <1>0, <2>2, <2>3 DEF a
<1>7. CASE q.verb = "move"
  <2>. DEFINE dup == TransferOnDup(q.req.dup)
  <2>1. a = Moved(docs, q.src, q.dst, dup)
    BY <1>7 DEF Effect
  <2>. HIDE DEF dup
  <2>2. /\ AreDocs(a) /\ IsTree(a) /\ Len(a) = Len(docs) /\ q.src \in Live(docs)
        /\ dup # 3 => \A i \in 1..Len(docs) \ {q.src} : a[i] = docs[i]
        /\ \A i \in 1..Len(docs) : /\ a[i].size = docs[i].size
                                   /\ a[i].up = Gone /\ i \in Live(docs) => dup = 3
        /\ dup = 1 => a[q.src].name = docs[q.src].name
    BY <2>1, MovedKeeps
  <2>. HIDE DEF a
  <2>3. PostDoes(q, docs, a)
    BY <1>7, <2>2, LiveIn DEF PostDoes, dup
  <2>. QED  BY <1>0, <2>2, <2>3 DEF a
<1>8. CASE q.verb \notin {"dir/create", "dupload", "osendupload", "copy", "rename", "delete", "move"}
  <2>1. a = docs
    BY <1>8 DEF Effect
  <2>. HIDE DEF a
  <2>2. PostDoes(q, docs, a)
    BY <1>8, <2>1 DEF PostDoes
  <2>. QED  BY <1>0, <2>1, <2>2 DEF a
<1>. QED  BY <1>2, <1>3, <1>4, <1>5, <1>6, <1>7, <1>8

\* A post that the server carries out.
Takes(c, after) ==
  /\ Active(c) /\ call[c].out = "post" /\ after = Effect(call[c]) /\ after # Refused
  /\ docs' = after /\ known' = known

LEMMA PostKeeps ==
  ASSUME AccessInv, NEW c \in Callers, Post(c), UNCHANGED <<flags, made>>
  PROVE  AccessInv'
<1>. DEFINE q == call[c]
            after == Effect(q)
<1>1. Active(c) /\ q.out = "post"
  BY DEF Post
<1>2. after # Refused => AreDocs(after) /\ IsTree(after) /\ Len(after) >= Len(docs) /\ PostDoes(q, docs, after)
  BY EffectKeeps DEF AccessInv
<1>3. AreDocs(docs) /\ IsTree(docs) /\ Len(docs) \in Nat
  BY DEF AccessInv, AreDocs
<1>4. call = [d \in Callers |-> call[d]] /\ DOMAIN q = CallFields
  BY AtHand DEF AccessInv, CallsAreSound
<1>5. q.pc = "posted" /\ q.pc # "done" /\ InStep(q)
  BY <1>1, AtHand DEF Active, Sound, InStep
<1>6. CASE Fails(c, docs)
  BY <1>1, <1>3, <1>6, FailsKeeps
<1>7. CASE after # Refused /\ Fails(c, after)
  <2>. HIDE DEF after
  <2>. QED  BY <1>1, <1>2, <1>7, FailsKeeps
<1>8. CASE after = Refused /\ call' = [call EXCEPT ![c].out = "none"] /\ UNCHANGED <<docs, known, faults>>
  <2>. HIDE DEF after
  <2>1. /\ call' = [d \in Callers |-> call'[d]] /\ \A d \in Callers \ {c} : call'[d] = call[d]
        /\ Heard(q, call'[c]) /\ call'[c].out = "none" /\ call'[c].got = q.got
    BY <1>4, <1>8, CallNames DEF Heard
  <2>2. \A e \in call'[c].got : e.id \in 1..Len(docs)
    BY <2>1, AtHand DEF HasDocs
  <2>3. Sound(mode, c, call'[c]) /\ HasDocs(Len(docs), call'[c])
    BY <1>5, <2>1, <2>2, AtHand, HeardIsSound
  <2>4. AreDocs(docs') /\ IsTree(docs') /\ Len(docs') >= Len(docs) /\ faults' \in 0..MaxFaults
    BY <1>3, <1>8 DEF AccessInv
  <2>. QED  BY <1>8, <2>1, <2>3, <2>4, WorldKeeps
<1>9. ASSUME NEW v \in Follows(q), after # Refused, docs' = after, UNCHANGED <<known, faults>>,
             call' = [call EXCEPT ![c].verb = v,
                        ![c].out = IF v = q.verb THEN "found" ELSE "post",
                        ![c].new = Answers(q, after),
                        ![c].name = IF q.verb = "getsuggestname" THEN Suggested(q)
                                    ELSE IF Answers(q, after) # Gone THEN after[Answers(q, after)].name
                                    ELSE @,
                        ![c].took = @ \/ after # docs]
      PROVE  AccessInv'
  <2>. DEFINE r == call'[c]
              new == Answers(q, after)
              named == IF q.verb = "getsuggestname" THEN Suggested(q)
                       ELSE IF new # Gone THEN after[new].name ELSE q.name
              taken == q.took \/ after # docs
              out == IF v = q.verb THEN "found" ELSE "post"
  <2>1. call' = [call EXCEPT ![c].verb = v, ![c].out = out, ![c].new = new, ![c].name = named,
                             ![c].took = taken]
    BY <1>9
  <2>2. q.verb = "dir/create" => new \in 1..Len(after)
    <3>. SUFFICES ASSUME q.verb = "dir/create" PROVE new \in 1..Len(after)
      OBVIOUS
    <3>1. Len(after) = Len(docs) + 1
      BY <1>2, <1>9 DEF PostDoes, Made
    <3>. HIDE DEF after
    <3>2. Answers(q, after) = Len(after)
      BY <1>3, <3>1 DEF Answers
    <3>. QED  BY <1>3, <3>1, <3>2
  <2>. HIDE DEF after, new, named, taken, out
  <2>3. /\ call' = [d \in Callers |-> call'[d]] /\ \A d \in Callers \ {c} : call'[d] = call[d]
        /\ DOMAIN r = CallFields /\ r.req = q.req /\ r.pc = q.pc /\ r.ans = q.ans /\ r.was = q.was
        /\ r.got = q.got /\ r.dst = q.dst /\ r.verb = v /\ r.new = new
        /\ r.out = out
    BY <1>4, <2>1, CallNames
  <2>. HIDE DEF r
  <2>4. \/ v = q.verb
        \/ q.verb \in UploadVerbs /\ v \in UploadVerbs
        \/ q.verb = "osdownload" /\ v = "fetch"
    BY <1>9 DEF Follows, UploadVerbs
  <2>5. InStep(r)
    BY <1>5, <2>3, <2>4 DEF InStep, UploadVerbs, TransferSteps, out
  <2>6. Heeds(mode, q) => Heeds(mode, r)
    BY <1>5, <2>3, <2>4 DEF Heeds, UploadVerbs, TransferSteps, out
  <2>7. Sound(mode, c, r)
    BY <1>5, <2>3, <2>5, <2>6, AtHand DEF Sound, out
  <2>8. HasDocs(Len(after), q)
    BY <1>2, <1>3, <1>9, AtHand, StillHas DEF AreDocs
  <2>9. HasDocs(Len(after), r)
    BY <1>5, <2>2, <2>3, <2>4, <2>8 DEF HasDocs, UploadVerbs, out
  <2>. QED  BY <1>2, <1>9, <2>3, <2>7, <2>9, WorldKeeps DEF AccessInv, r
<1>. QED  BY <1>6, <1>7, <1>8, <1>9 DEF Post

LEMMA StepKeeps ==
  ASSUME AccessInv, NEW c \in Callers, Step(c)
  PROVE  AccessInv'
<1>. UNCHANGED <<flags, made>> /\ ProviderStep(c)
  BY DEF Step
<1>1. CASE PostFailed(c)
  BY <1>1, GivesUpKeeps DEF PostFailed
<1>2. CASE Ask(c) \/ Learn(c) \/ Post(c)
  BY <1>2, AskKeeps, LearnKeeps, PostKeeps
<1>3. CASE \/ ParentResolved(c) \/ NameSuggested(c) \/ DirectoryMade(c) \/ Uploaded(c) \/ UploadVerified(c)
           \/ DirectoryParentSeen(c) \/ RootMade(c) \/ ChildSent(c) \/ ChildVerified(c)
  BY <1>3, ParentResolvedKeeps, NameSuggestedKeeps, DirectoryMadeKeeps, UploadedKeeps, UploadVerifiedKeeps,
     DirectoryParentSeenKeeps, RootMadeKeeps, ChildSentKeeps, ChildVerifiedKeeps
<1>4. CASE \/ Resolved(c) \/ RenamedOrRemoved(c) \/ Downloaded(c)
  BY <1>4, ResolvedKeeps, RenamedOrRemovedKeeps, DownloadedKeeps
<1>5. CASE \/ SourceSeen(c) \/ DestinationSeen(c) \/ SourceResolved(c) \/ DestinationResolved(c)
           \/ DestinationListed(c) \/ Transferred(c) \/ InDestination(c) \/ OutOfSource(c)
  BY <1>5, SourceSeenKeeps, DestinationSeenKeeps, SourceResolvedKeeps, DestinationResolvedKeeps,
     DestinationListedKeeps, TransferredKeeps, InDestinationKeeps, OutOfSourceKeeps
<1>. QED  BY <1>1, <1>2, <1>3, <1>4, <1>5 DEF ProviderStep

LEMMA StutterKeeps ==
  ASSUME AccessInv, UNCHANGED vars
  PROVE  AccessInv'
<1>1. mode' = mode
  BY DEF vars, mode
<1>. QED  BY <1>1 DEF vars, AccessInv, CallsAreSound, DocsAreKnown

\* What is at a path other than the root's is a live document.
LEMMA AtIsLive ==
  ASSUME NEW d, NEW p, Len(p) \in Nat, Len(p) # 0
  PROVE  At(d, p) \subseteq Live(d)
BY DEF At, Ways, NamedIn, Children

LEMMA AllKnownToDocs ==
  ASSUME NEW d, Len(d) \in Nat
  PROVE  ToDocs(Len(d), AllKnown(d))
<1>. DEFINE k == AllKnown(d)
            names == {d[i].name : i \in Live(d)}
            pick(p) == OneOf(At(d, p))
<1>. SUFFICES ASSUME NEW p \in DOMAIN k PROVE k[p].id \in 1..Len(d)
  BY DEF ToDocs
<1>1. /\ p \in UNION {[1..n -> names] : n \in 1..Len(d)}
      /\ At(d, p) # {} /\ k[p] = Entry(pick(p), d[pick(p)].dir, d[pick(p)].size)
  BY DEF AllKnown
<1>2. PICK n \in 1..Len(d) : p \in [1..n -> names]
  BY <1>1
<1>3. Len(p) = n
  <2>. HIDE DEF names
  <2>. p \in Seq(names)
    BY <1>2, SeqDef
  <2>. QED  BY <1>2, LenProperties
<1>4. pick(p) \in Live(d)
  BY <1>1, <1>2, <1>3, AtIsLive DEF OneOf
<1>. HIDE DEF pick, k
<1>5. k[p].id = pick(p)
  BY <1>1 DEF Entry
<1>. QED  BY <1>4, <1>5, LiveIn

LEMMA AccessInit == Init => AccessInv
<1>. SUFFICES ASSUME Init PROVE AccessInv
  OBVIOUS
<1>1. flags \in SUBSET Modes /\ made \in 0..MaxCalls /\ faults \in 0..MaxFaults
  BY RequestsAssumption DEF Init
<1>2. docs \in Trees /\ IsTree(docs)
  BY RequestsAssumption DEF Init
<1>3. AreDocs(docs)
  <2>. DEFINE D == [up : Nat, name : Names, dir : BOOLEAN, size : Nat]
  <2>1. docs \in Seq(D)
    BY <1>2, RequestsAssumption
  <2>2. \A e \in D : DOMAIN e = DocFields /\ e.dir \in BOOLEAN
    BY DEF DocFields
  <2>. HIDE DEF D
  <2>3. Len(docs) \in Nat /\ docs \in [1..Len(docs) -> D]
    BY <2>1, LenProperties
  <2>. QED  BY <2>2, <2>3 DEF AreDocs
<1>4. call = [c \in Callers |-> NoCall]
  BY DEF Init
<1>5. \A c \in Callers : Sound(mode, c, NoCall)
  BY DEF Sound, NoCall, CallFields
<1>6. HasDocs(Len(docs), NoCall)
  BY DEF HasDocs, NoCall
<1>7. DocsAreKnown
  <2>. DEFINE P == {Process[c] : c \in Callers}
  <2>1. PICK k \in {<<>>, AllKnown(docs)} : known = [p \in P |-> IF p = "daemon" THEN k ELSE <<>>]
    BY DEF Init
  <2>2. ToDocs(Len(docs), <<>>)
    BY DEF ToDocs
  <2>3. ToDocs(Len(docs), k)
    BY <2>1, <2>2, AllKnownToDocs
  <2>4. known = [p \in P |-> known[p]] /\ \A p \in DOMAIN known : ToDocs(Len(docs), known[p])
    BY <2>1, <2>2, <2>3
  <2>. QED  BY <1>4, <1>6, <2>4 DEF DocsAreKnown
<1>8. CallsAreSound
  BY <1>4, <1>5 DEF CallsAreSound
<1>. QED  BY <1>1, <1>2, <1>3, <1>7, <1>8 DEF AccessInv

\* Whatever callers do, and however requests fail, the invariant holds.
THEOREM AccessIsSound == Spec => []AccessInv
<1>1. AccessInv /\ [Next]_vars => AccessInv'
  <2>. SUFFICES ASSUME AccessInv, [Next]_vars PROVE AccessInv'
    OBVIOUS
  <2>1. CASE Next
    BY <2>1, RequestKeeps, StepKeeps, HandlerKeeps DEF Next
  <2>2. CASE UNCHANGED vars
    BY <2>2, StutterKeeps
  <2>. QED  BY <2>1, <2>2
<1>. QED  BY <1>1, AccessInit, PTL DEF Spec

\* Whatever is asked, calls, caches and mode flags stay of the kinds the handlers and the
\* provider use, every cached docid is one the server has given out, and the documents
\* stay a tree whose directories have no two entries of one name.
THEOREM CloudTypeCorrect == Spec => []CloudTypeOK
<1>1. AccessInv => CloudTypeOK
  BY DEF AccessInv, CallsAreSound, Sound, Requested, DocsAreKnown, ToDocs, CloudTypeOK, Active
<1>. QED  BY <1>1, AccessIsSound, PTL
-----------------------------------------------------------------------------
(* What becomes of the documents. *)

\* The documents change only by the post of one call, which has its own name in it.
LEMMA OnlyPostsChange ==
  ASSUME AccessInv, Next, docs' # docs
  PROVE  \E c \in Callers :
           /\ call[c].pc = "posted" /\ call[c].out = "post"
           /\ InStep(call[c]) /\ Requested(c, call[c].req)
           /\ OfDaemon(c) /\ Restricted => Heeds(mode, call[c])
           /\ AreDocs(docs) /\ AreDocs(docs') /\ PostDoes(call[c], docs, docs')
           /\ \A d \in Callers \ {c} : call'[d] = call[d]
<1>1. PICK c \in Callers : (\E r \in Menu[c], local \in BOOLEAN : Request(c, r, local)) \/ Step(c) \/ Handler(c)
  BY DEF Next
<1>2. ~\E r \in Menu[c], local \in BOOLEAN : Request(c, r, local)
  BY DEF Request
<1>3. ~Handler(c)
  <2>1. ~(\/ Looked(c) \/ WrittenBackOver(c) \/ CopyDecided(c) \/ PassedOn(c))
    BY DEF Looked, WrittenBackOver, CopyDecided, PassedOn, Answer, Go
  <2>2. ~(OldSeen(c) \/ IntoSeen(c) \/ NewSeen(c) \/ RenameReturned(c) \/ OldGone(c) \/ NewThere(c))
    BY DEF OldSeen, IntoSeen, NewSeen, RenameReturned, OldGone, NewThere, Answer, Go
  <2>3. ~(RemovalSeen(c) \/ RemoveReturned(c) \/ RemovalChecked(c))
    BY DEF RemovalSeen, RemoveReturned, RemovalChecked, Answer, Go
  <2>4. ~(TargetSeen(c) \/ StagedReturned(c) \/ StagedVerified(c))
    BY DEF TargetSeen, StagedReturned, StagedVerified, Answer, Go
  <2>. QED  BY <2>1, <2>2, <2>3, <2>4 DEF Handler
<1>4. ProviderStep(c)
  BY <1>1, <1>2, <1>3 DEF Step
<1>5. Post(c)
  <2>1. ~(Ask(c) \/ Learn(c) \/ PostFailed(c))
    BY DEF Ask, Learn, Fails, PostFailed, GivesUp, Go
  <2>2. ~(\/ ParentResolved(c) \/ NameSuggested(c) \/ DirectoryMade(c) \/ Uploaded(c) \/ UploadVerified(c))
    BY DEF ParentResolved, NameSuggested, DirectoryMade, Uploaded, UploadVerified, GivesUp, Go
  <2>3. ~(DirectoryParentSeen(c) \/ RootMade(c) \/ ChildSent(c) \/ ChildVerified(c))
    BY DEF DirectoryParentSeen, RootMade, ChildSent, ChildVerified, GivesUp, Go
  <2>4. ~(Resolved(c) \/ RenamedOrRemoved(c) \/ Downloaded(c))
    BY DEF Resolved, RenamedOrRemoved, Downloaded, GivesUp, Go
  <2>5. ~(SourceSeen(c) \/ DestinationSeen(c) \/ SourceResolved(c) \/ DestinationResolved(c))
    BY DEF SourceSeen, DestinationSeen, SourceResolved, DestinationResolved, GivesUp, Go
  <2>6. ~(DestinationListed(c) \/ Transferred(c) \/ InDestination(c) \/ OutOfSource(c))
    BY DEF DestinationListed, Transferred, InDestination, OutOfSource, GivesUp, Go
  <2>. QED  BY <1>4, <2>1, <2>2, <2>3, <2>4, <2>5, <2>6 DEF ProviderStep
<1>. DEFINE q == call[c]
            after == Effect(q)
<1>6. Active(c) /\ q.out = "post" /\ after # Refused /\ docs' = after
  BY <1>5 DEF Post, Fails
<1>7. \A d \in Callers \ {c} : call'[d] = call[d]
  <2>. call = [d \in Callers |-> call[d]]
    BY DEF AccessInv, CallsAreSound
  <2>. HIDE DEF after
  <2>. QED  BY <1>5 DEF Post, Fails
<1>8. /\ q.pc = "posted" /\ InStep(q) /\ Requested(c, q.req)
      /\ OfDaemon(c) /\ Restricted => Heeds(mode, q)
  BY <1>6, AtHand DEF Active, Sound, InStep, Restricted
<1>9. AreDocs(docs) /\ AreDocs(after) /\ PostDoes(q, docs, after)
  BY <1>6, EffectKeeps DEF AccessInv
<1>. HIDE DEF after
<1>10. AreDocs(docs) /\ AreDocs(docs') /\ PostDoes(q, docs, docs')
  BY <1>6, <1>9
<1>. QED  BY <1>6, <1>7, <1>8, <1>10

\* However calls overlap between the look and the upload, no document's content is
\* changed but by a command that says overwrite, and none disappears but by a removal
\* or such a command (uploadSeekableNamed, transferOnDup, handleFSRename).
THEOREM NothingIsOverwritten == Spec => NothingOverwritten
<1>. DEFINE Spared(c) ==
       \A i \in Live(docs) :
         docs'[i].size # docs[i].size \/ (docs'[i].up = Gone /\ call[c].verb # "delete")
         => call[c].req.dup \in {"overwrite", "merge"} /\ ~OfDaemon(c)
<1>1. ASSUME AccessInv, Next, docs' # docs, NEW d \in Callers, call'[d] # call[d]
      PROVE  Spared(d)
  <2>1. PICK c \in Callers :
          /\ call[c].pc = "posted" /\ InStep(call[c]) /\ Requested(c, call[c].req)
          /\ AreDocs(docs) /\ AreDocs(docs') /\ PostDoes(call[c], docs, docs')
          /\ \A e \in Callers \ {c} : call'[e] = call[e]
    BY <1>1, OnlyPostsChange
  <2>2. c = d
    BY <1>1, <2>1
  <2>. DEFINE q == call[c]
  <2>. SUFFICES ASSUME NEW i \in Live(docs),
                       docs'[i].size # docs[i].size \/ (docs'[i].up = Gone /\ q.verb # "delete")
                PROVE  q.req.dup \in {"overwrite", "merge"} /\ ~OfDaemon(c)
    BY <2>2
  <2>3. i \in 1..Len(docs) /\ docs[i].up # Gone
    BY DEF Live
  <2>4. ASSUME NEW dir, NEW dup, Made(docs, docs', dir, dup)
        PROVE  dup = 3
    BY <2>3, <2>4 DEF Made
  <2>5. CASE q.verb = "dir/create"
    <3>1. Made(docs, docs', TRUE, 1)
      BY <2>1, <2>5 DEF PostDoes
    <3>2. 1 = 3
      BY <2>4, <3>1
    <3>. QED  BY <3>2
  <2>6. CASE q.verb \in {"dupload", "osendupload"}
    <3>1. UploadOnDup(UploadPolicy(q)) = 3
      BY <2>1, <2>4, <2>6 DEF PostDoes
    <3>2. q.req.op = "upload" /\ q.req.dup = "overwrite"
      BY <3>1 DEF UploadOnDup, UploadPolicy
    <3>. QED  BY <2>1, <3>2 DEF Requested, FSRequests
  <2>7. CASE q.verb = "copy"
    <3>1. TransferOnDup(q.req.dup) = 3
      BY <2>1, <2>4, <2>7 DEF PostDoes
    <3>2. q.req.dup \in {"overwrite", "merge"}
      BY <3>1 DEF TransferOnDup
    <3>. QED  BY <2>1, <2>7, <3>2 DEF InStep, Requested, FSRequests
  <2>8. CASE q.verb = "move"
    <3>1. TransferOnDup(q.req.dup) = 3
      BY <2>1, <2>3, <2>8 DEF PostDoes
    <3>2. q.req.dup \in {"overwrite", "merge"}
      BY <3>1 DEF TransferOnDup
    <3>. QED  BY <2>1, <2>8, <3>2 DEF InStep, Requested, FSRequests
  <2>9. CASE q.verb \in {"rename", "delete"}
    BY <2>1, <2>3, <2>9 DEF PostDoes
  <2>10. CASE q.verb \notin {"dir/create", "dupload", "osendupload", "copy", "rename", "delete", "move"}
    BY <1>1, <2>1, <2>10 DEF PostDoes
  <2>. QED  BY <2>5, <2>6, <2>7, <2>8, <2>9, <2>10
<1>2. AccessInv /\ [Next]_vars =>
        [\A c \in Callers : docs' # docs /\ call'[c] # call[c] => Spared(c)]_vars
  BY <1>1
<1>. QED  BY <1>2, AccessIsSound, PTL DEF Spec, NothingOverwritten

\* A mode that lets files be moved lets them be renamed.
LEMMA MovesThenRenames ==
  ASSUME NEW m \in Modes, "moveFile" \in Can(m)
  PROVE  "renameFile" \in Can(m)
<1>1. PICK i \in 1..m : "moveFile" \in Adds[i]
  BY DEF Can
<1>2. \A j \in 1..5 : "moveFile" \notin Adds[j]
  BY DEF Adds
<1>3. 5 \in 1..m
  BY <1>1, <1>2 DEF Modes
<1>4. "renameFile" \in Adds[5]
  BY DEF Adds
<1>. QED  BY <1>3, <1>4, Rung

\* Whatever flags are combined on the daemon's command line, and whatever its clients
\* ask for: what it does to the documents every one of the flags permits
\* (policyAllowsRequest, handleFSRename, handleFSRemove, writePolicyFromArgs).
THEOREM DaemonWithinPolicy == Spec => WithinPolicy
<1>. DEFINE Keeps(c) ==
       LET dir == call[c].was.dir IN
       \A i \in 1..Len(docs') :
         IF i > Len(docs) THEN Permitted(Kind(docs'[i].dir, "mkdir", "copyUploadFile"))
         ELSE IF docs'[i].up = docs[i].up
         THEN docs'[i].name # docs[i].name => Permitted(Kind(dir, "renameDir", "renameFile"))
         ELSE Permitted(IF docs'[i].up = Gone THEN Kind(dir, "deleteDir", "deleteFile")
                        ELSE Kind(dir, "moveDir", "moveFile"))
<1>1. ASSUME AccessInv, Next, docs' # docs, NEW d \in Callers, OfDaemon(d), Restricted, call'[d] # call[d]
      PROVE  Keeps(d)
  <2>1. PICK c \in Callers :
          /\ call[c].pc = "posted" /\ InStep(call[c]) /\ Requested(c, call[c].req)
          /\ OfDaemon(c) /\ Restricted => Heeds(mode, call[c])
          /\ AreDocs(docs) /\ AreDocs(docs') /\ PostDoes(call[c], docs, docs')
          /\ \A e \in Callers \ {c} : call'[e] = call[e]
    BY <1>1, OnlyPostsChange
  <2>2. c = d
    BY <1>1, <2>1
  <2>. DEFINE q == call[c]
              a == docs'
              same == SameParent(q.req.path, q.req.to)
  <2>3. /\ q.req.op \in FSRequests \ {"fs.close", "fs.markDirty"}
        /\ Admits(mode, q.req.op) /\ Heeds(mode, q) /\ q.pc = "posted" /\ InStep(q)
    BY <1>1, <2>1, <2>2 DEF Requested, Heeds
  <2>4. mode \in Modes /\ flags \in SUBSET Modes
    BY <1>1, TheMode DEF AccessInv, Restricted
  <2>5. ASSUME NEW permission \in Can(mode) PROVE Permitted(permission)
    BY <2>4, MostRestrictiveWins DEF Permitted, mode
  <2>6. Len(docs) \in Nat /\ Len(a) \in Nat
    BY <2>1 DEF AreDocs
  <2>. HIDE DEF a
  <2>. SUFFICES ASSUME NEW i \in 1..Len(a)
                PROVE  IF i > Len(docs) THEN Permitted(Kind(a[i].dir, "mkdir", "copyUploadFile"))
                       ELSE IF a[i].up = docs[i].up
                       THEN a[i].name # docs[i].name => Permitted(Kind(q.was.dir, "renameDir", "renameFile"))
                       ELSE Permitted(IF a[i].up = Gone THEN Kind(q.was.dir, "deleteDir", "deleteFile")
                                      ELSE Kind(q.was.dir, "moveDir", "moveFile"))
    BY <2>2 DEF a
  <2>7. PostDoes(q, docs, a)
    BY <2>1 DEF a
  <2>8. ASSUME NEW dir \in BOOLEAN, NEW dup, Made(docs, a, dir, dup)
        PROVE  \/ i > Len(docs) /\ a[i].dir = dir
               \/ ~(i > Len(docs)) /\ a[i].up = docs[i].up /\ a[i].name = docs[i].name
    BY <2>6, <2>8 DEF Made
  <2>9. CASE q.verb = "dir/create"
    <3>1. q.req.op = "fs.mkdir"
      BY <2>3, <2>9 DEF InStep, FSRequests, Making
    <3>2. "mkdir" \in Can(mode)
      BY <2>3, <2>4, <3>1 DEF Admits, Needs, Modes, FullyWritable
    <3>3. Made(docs, a, TRUE, 1)
      BY <2>7, <2>9 DEF PostDoes
    <3>. QED  BY <2>5, <2>8, <3>2, <3>3 DEF Kind
  <2>10. CASE q.verb \in {"dupload", "osendupload"}
    <3>1. q.req.op = "fs.uploadStaged"
      BY <2>3, <2>10 DEF InStep, FSRequests, Uploading, UploadVerbs
    <3>2. "copyUploadFile" \in Can(mode)
      BY <2>3, <2>4, <3>1 DEF Admits, Needs, Modes, FullyWritable
    <3>3. Made(docs, a, FALSE, UploadOnDup(UploadPolicy(q)))
      BY <2>7, <2>10 DEF PostDoes
    <3>. QED  BY <2>5, <2>8, <3>2, <3>3 DEF Kind
  <2>11. CASE q.verb = "copy"
    BY <2>3, <2>11 DEF InStep, FSRequests
  <2>12. CASE q.verb = "rename"
    <3>1. q.req.op = "fs.rename"
      BY <2>3, <2>12 DEF InStep, FSRequests
    <3>2. same /\ LetsRename(mode, q.was.dir, same, SameName(q.req.path, q.req.to))
      BY <2>3, <2>12, <3>1 DEF Heeds
    <3>3. Kind(q.was.dir, "renameDir", "renameFile") \in Can(mode)
      BY <2>4, <3>2, MovesThenRenames DEF LetsRename, Kind
    <3>4. ~(i > Len(docs)) /\ a[i].up = docs[i].up
      BY <2>6, <2>7, <2>12 DEF PostDoes
    <3>. QED  BY <2>5, <3>3, <3>4
  <2>13. CASE q.verb = "delete"
    <3>1. q.req.op = "fs.remove"
      BY <2>3, <2>13 DEF InStep, FSRequests
    <3>2. Kind(q.was.dir, "deleteDir", "deleteFile") \in Can(mode)
      BY <2>3, <3>1 DEF Heeds, Kind
    <3>3. ~(i > Len(docs)) /\ a[i].up \in {docs[i].up, Gone} /\ a[i].name = docs[i].name
      BY <2>6, <2>7, <2>13 DEF PostDoes
    <3>. QED  BY <2>5, <3>2, <3>3
  <2>14. CASE q.verb = "move"
    <3>1. q.req.op = "fs.rename" /\ q.req.dup = "fail"
      BY <2>1, <2>3, <2>14 DEF InStep, FSRequests, Requested
    <3>2. ~same /\ LetsRename(mode, q.was.dir, same, SameName(q.req.path, q.req.to))
      BY <2>3, <2>14, <3>1 DEF Heeds
    <3>3. Kind(q.was.dir, "moveDir", "moveFile") \in Can(mode)
      BY <3>2 DEF LetsRename, Kind
    <3>4. TransferOnDup(q.req.dup) = 1
      BY <3>1 DEF TransferOnDup
    <3>5. /\ ~(i > Len(docs)) /\ a[i].name = docs[i].name
          /\ a[i].up = Gone => i \notin Live(docs)
      BY <2>6, <2>7, <2>14, <3>4 DEF PostDoes
    <3>6. a[i].up = Gone => a[i].up = docs[i].up
      BY <2>6, <3>5 DEF Live
    <3>. QED  BY <2>5, <3>3, <3>5, <3>6
  <2>15. CASE q.verb \notin {"dir/create", "dupload", "osendupload", "copy", "rename", "delete", "move"}
    BY <1>1, <2>7, <2>15 DEF PostDoes, a
  <2>. QED  BY <2>9, <2>10, <2>11, <2>12, <2>13, <2>14, <2>15
<1>2. AccessInv /\ [Next]_vars =>
        [\A c \in Callers : OfDaemon(c) /\ Restricted /\ docs' # docs /\ call'[c] # call[c] => Keeps(c)]_vars
  BY <1>1
<1>. QED  BY <1>2, AccessIsSound, PTL DEF Spec, WithinPolicy
=============================================================================
