------------------------------ MODULE AnyShare ------------------------------
(***************************************************************************)
(* The AnyShare server, which is not part of this repository: what the     *)
(* provider relies on, as the requests it sends and the answers it expects *)
(* show.  Documents form a tree; a document is known by its docid, here    *)
(* its position in the sequence of all documents ever made, and keeps the  *)
(* docid when it is renamed, moved or given new content.  A directory has  *)
(* no two entries of one name.                                             *)
(***************************************************************************)
EXTENDS Integers, Sequences, FiniteSets

CONSTANT Names          \* names of documents

Root == 0
Gone == -1              \* the parent of a deleted document

Doc(up, name, dir, size) == [up |-> up, name |-> name, dir |-> dir, size |-> size]

Live(docs) == {i \in 1..Len(docs) : docs[i].up # Gone}
Directory(docs, id) == id = Root \/ (id \in Live(docs) /\ docs[id].dir)
Children(docs, id) == {i \in Live(docs) : docs[i].up = id}
NamedIn(docs, id, name) == {i \in Children(docs, id) : docs[i].name = name}

\* Documents are in directories, which have no two entries of one name.
IsTree(docs) ==
  \A i \in Live(docs) : Directory(docs, docs[i].up) /\ NamedIn(docs, docs[i].up, docs[i].name) = {i}

\* The ways down from the root along a path: at each level a document of that name
\* in the one before.
Ways(docs, path) ==
  LET named == {i \in Live(docs) : \E n \in 1..Len(path) : docs[i].name = path[n]} IN
  {w \in [0..Len(path) -> {Root} \union named] :
     w[0] = Root /\ \A n \in 1..Len(path) : w[n] \in NamedIn(docs, w[n - 1], path[n])}

\* The document at a path, as a set of at most one.
At(docs, path) == {w[Len(path)] : w \in Ways(docs, path)}

\* The documents of a directory tree: what is in every set of documents that has the
\* top and, with a directory, what is in it.
Within(docs, id, top) ==
  \A tree \in SUBSET Live(docs) :
    top \in tree /\ (\A i \in Live(docs) : docs[i].up \in tree => i \in tree) => id \in tree

\* A listing gives every entry's name, docid, kind and size.
Listing(docs, id) ==
  {[name |-> docs[i].name, id |-> i, dir |-> docs[i].dir, size |-> docs[i].size] :
     i \in Children(docs, id)}

OneOf(set) == CHOOSE x \in set : TRUE
FreeNames(docs, id) == {n \in Names : NamedIn(docs, id, n) = {}}
FreeName(docs, id) == OneOf(FreeNames(docs, id))

\* ondup: 1 refuses a taken name, 2 takes a free one (if the instance has one left),
\* 3 replaces what is there.
\* Each operation below returns the documents after it, or Refused.
Refused == <<>>          \* there is always a document, so no state of the server is empty

Deleted(docs, id) ==
  IF id \notin Live(docs) THEN Refused
  ELSE [i \in DOMAIN docs |->
          IF i \in Live(docs) /\ Within(docs, i, id) THEN [docs[i] EXCEPT !.up = Gone] ELSE docs[i]]

Created(docs, up, name, dir, size, dup) ==
  LET same == NamedIn(docs, up, name) IN
  IF ~Directory(docs, up) THEN Refused
  ELSE
  CASE same = {} -> Append(docs, Doc(up, name, dir, size))
    [] same # {} /\ dup = 2 /\ FreeNames(docs, up) # {} -> Append(docs, Doc(up, FreeName(docs, up), dir, size))
    [] same # {} /\ dup = 3 /\ ~dir /\ (\A i \in same : ~docs[i].dir) ->
         [docs EXCEPT ![OneOf(same)].size = size]
    [] OTHER -> Refused

Renamed(docs, id, name) ==
  IF id \notin Live(docs) \/ NamedIn(docs, docs[id].up, name) \ {id} # {} THEN Refused
  ELSE [docs EXCEPT ![id].name = name]

Moved(docs, id, up, dup) ==
  LET same == NamedIn(docs, up, docs[id].name) \ {id} IN
  CASE id \notin Live(docs) \/ ~Directory(docs, up) -> Refused
    [] id \in Live(docs) /\ up # Root /\ Within(docs, up, id) -> Refused
    [] OTHER ->
         CASE same = {} -> [docs EXCEPT ![id].up = up]
           [] same # {} /\ dup = 2 /\ FreeNames(docs, up) # {} -> [docs EXCEPT ![id].up = up, ![id].name = FreeName(docs, up)]
           [] same # {} /\ dup = 3 /\ ~docs[id].dir /\ (\A i \in same : ~docs[i].dir) ->
                [docs EXCEPT ![id].up = up, ![OneOf(same)].up = Gone]
           [] OTHER -> Refused

\* Copies of directories are left out: the server refuses them here.
Copied(docs, id, up, dup) ==
  IF id \notin Live(docs) \/ docs[id].dir THEN Refused
  ELSE Created(docs, up, docs[id].name, FALSE, docs[id].size, dup)
=============================================================================
