--------------------------- MODULE HuadianProvider ---------------------------
(***************************************************************************)
(* The Huadian provider (internal/cloud/huadian) as its callers use it: a  *)
(* path is resolved to a docid through a cache that never expires, level   *)
(* by level with one listing each; an operation is then posted by docid,   *)
(* and the cached paths it may have changed are forgotten.                 *)
(*                                                                         *)
(* Every call is a sequence of steps: a request is answered by the server  *)
(* (Ask, Post), its answer reaches the provider (Learn, or the reaction of *)
(* the operation).  Calls of one process share the cache.  A request may   *)
(* fail, with or without having taken effect.  The docid and the entry of  *)
(* a path are cached together and read together here.                      *)
(***************************************************************************)
EXTENDS AnyShare, RemotePath, FiniteSetsExt

CONSTANTS
  Callers,      \* whoever calls a provider
  Process,      \* Process[c]: the process c runs in; its calls share a cache
  MaxFaults     \* bound: requests that fail

VARIABLES
  docs,         \* the server's documents
  known,        \* known[p]: process p's cache, from paths to entries
  call,         \* call[c]: c's call, the last one when it is done
  faults        \* requests that have failed

Entry(id, dir, size) == [id |-> id, dir |-> dir, size |-> size]
NoEntry == Entry(Gone, FALSE, 0)

\* Mutant: only the path itself is forgotten.
ForgetOne(k, path) == [p \in DOMAIN k \ {path} |-> k[p]]

\* invalidateCache: the path and what lies below it; for the root the prefix it
\* looks for is "//", which no path has, so nothing is forgotten.
Forget(k, path) ==
  IF path = <<>> THEN k ELSE [p \in {q \in DOMAIN k : ~Below(q, path)} |-> k[p]]

\* cacheDocID and cacheEntry for every entry of a listing of dir.
Cached(k, dir, listing) ==
  LET new == {Append(dir, e.name) : e \in listing} IN
  [p \in DOMAIN k \union new |->
     IF p \in new THEN LET e == CHOOSE e \in listing : Append(dir, e.name) = p
                       IN Entry(e.id, e.dir, e.size)
     ELSE k[p]]

InCache(k, path) == IF path = <<>> THEN Entry(Root, TRUE, 0)
                    ELSE IF path \in DOMAIN k THEN k[path] ELSE NoEntry
-----------------------------------------------------------------------------
NoCall ==
  [req |-> [op |-> "none", path |-> <<>>, to |-> <<>>, dup |-> "fail", size |-> 0],
   pc |-> "done", ans |-> "none",
   goal |-> <<>>, whole |-> FALSE,   \* what is looked up; whole: its listing is wanted
   at |-> [n |-> 0, id |-> Root],    \* the level the walk has reached
   out |-> "found",                  \* ask, got, post, found or none
   got |-> {},                       \* the last listing received
   info |-> NoEntry,                 \* the entry last looked up
   was |-> NoEntry,                  \* the source as its caller looked it up first
   source |-> NoEntry,               \* the source as the transfer looked it up
   src |-> Gone, dst |-> Gone,       \* docids the post is about
   verb |-> "none", name |-> "none", new |-> Gone,
   left |-> 0,                       \* children a directory upload has still to send
   gone |-> FALSE,                   \* the old path was looked up in vain
   took |-> FALSE, hurt |-> FALSE, lost |-> FALSE, alone |-> TRUE]   \* history

Active(c) == call[c].pc # "done"
Cache(c) == known[Process[c]]

\* The walk stands at level n with docid id: the lookup is over, or the next
\* request is a listing.
Settled(k, q, n, id) ==
  LET e == InCache(k, q.goal) IN
  [q EXCEPT !.at = [n |-> n, id |-> id], !.got = {},
            !.info = IF n = Len(q.goal) THEN e ELSE NoEntry,
            !.out = CASE n < Len(q.goal) -> "ask"
                      [] n = Len(q.goal) /\ ~q.whole -> "found"
                      [] n = Len(q.goal) /\ q.whole /\ e.id # Gone /\ ~e.dir -> "none"
                      [] OTHER -> "ask"]

\* The last level that is reached from level n without asking the server.
Reach(k, goal, n) ==
  Max({m \in n..Len(goal) : \A i \in (n + 1)..m : Prefix(goal, i) \in DOMAIN k})

\* resolvePath's fast path and its walk over the levels that are cached.
LookUp(k, q, pc, goal, whole) ==
  LET n == IF goal \in DOMAIN k THEN Len(goal) ELSE Reach(k, goal, 0)
  IN Settled(k, [q EXCEPT !.pc = pc, !.goal = goal, !.whole = whole],
             n, InCache(k, Prefix(goal, n)).id)

\* The listing of level n has been cached: go on with the level below.
Descend(k, q) ==
  LET next == Prefix(q.goal, q.at.n + 1) IN
  IF next \notin DOMAIN k \/ (~k[next].dir /\ q.at.n + 1 < Len(q.goal))
  THEN [q EXCEPT !.out = "none", !.got = {}, !.info = NoEntry]
  ELSE LET n == Reach(k, q.goal, q.at.n + 1)
       IN Settled(k, q, n, InCache(k, Prefix(q.goal, n)).id)

\* A request fails: nothing more is known of it.
Fails(c, after) ==
  /\ faults < MaxFaults
  /\ faults' = faults + 1
  /\ docs' = after
  /\ call' = [call EXCEPT ![c].out = "none", ![c].got = {}, ![c].info = NoEntry, ![c].hurt = TRUE,
                          ![c].took = @ \/ after # docs, ![c].lost = @ \/ after # docs]
  /\ UNCHANGED known

\* dir/list by docid.
Ask(c) ==
  /\ Active(c) /\ call[c].out = "ask"
  /\ \/ Fails(c, docs)
     \/ /\ IF Directory(docs, call[c].at.id)
           THEN call' = [call EXCEPT ![c].out = "got", ![c].got = Listing(docs, call[c].at.id)]
           ELSE call' = [call EXCEPT ![c].out = "none"]
        /\ UNCHANGED <<docs, known, faults>>

\* The listing is cached, and the lookup goes on from there.
Learn(c) ==
  /\ Active(c) /\ call[c].out = "got"
  /\ LET q == call[c]
         k == Cached(Cache(c), Prefix(q.goal, q.at.n), q.got)
     IN /\ known' = [known EXCEPT ![Process[c]] = k]
        /\ call' = [call EXCEPT ![c] = IF q.at.n = Len(q.goal) THEN [q EXCEPT !.out = "found"]
                                       ELSE Descend(k, q)]
  /\ UNCHANGED <<docs, faults>>
-----------------------------------------------------------------------------
\* Mutant: only auto-rename is told from overwrite.
OverwritesUnlessRenamed(policy) == IF policy = "auto-rename" THEN 1 ELSE 3

\* uploadSeekableNamed: an upload under a suggested name must not find it taken.
UploadOnDup(policy) == IF policy = "overwrite" THEN 3 ELSE 1

\* Only hddctl's upload has a choice; Upload and UploadDirectory always fail.
UploadPolicy(q) == IF q.req.op = "upload" THEN q.req.dup ELSE "fail"

\* transferOnDup.
TransferOnDup(policy) ==
  CASE policy = "auto-rename" -> 2 [] policy \in {"overwrite", "merge"} -> 3 [] OTHER -> 1

\* validateTransferPolicy.
TransferAllowed(move, dir, policy) ==
  CASE dir /\ ~move -> policy = "auto-rename"
    [] dir /\ move -> policy \in {"fail", "merge"}
    [] OTHER -> policy \in {"fail", "auto-rename", "overwrite"}

\* What a post does to the documents; Refused when the server says no.  An upload
\* that the server does not know by its hash is announced, stored and finished.
Effect(q) ==
  CASE q.verb = "dir/create" -> Created(docs, q.dst, q.name, TRUE, 0, 1)
    [] q.verb = "rename" -> Renamed(docs, q.src, q.name)
    [] q.verb = "delete" -> Deleted(docs, q.src)
    [] q.verb = "move" -> Moved(docs, q.src, q.dst, TransferOnDup(q.req.dup))
    [] q.verb = "copy" -> Copied(docs, q.src, q.dst, TransferOnDup(q.req.dup))
    [] q.verb \in {"dupload", "osendupload"} ->
         Created(docs, q.dst, q.name, FALSE, q.req.size, UploadOnDup(UploadPolicy(q)))
    [] q.verb = "osbeginupload" ->
         IF Created(docs, q.dst, q.name, FALSE, q.req.size, UploadOnDup(UploadPolicy(q))) = Refused
         THEN Refused ELSE docs
    [] q.verb = "osdownload" -> IF q.src \in Live(docs) /\ ~docs[q.src].dir THEN docs ELSE Refused
    [] OTHER -> docs

\* What follows when the server has answered: the next request of the upload or
\* the download, or the caller's reaction.
Follows(q) ==
  CASE q.verb = "predupload" -> {"dupload", "osbeginupload"}
    [] q.verb = "osbeginupload" -> {"storage"}
    [] q.verb = "storage" -> {"osendupload"}
    [] q.verb = "osdownload" -> {"fetch"}
    [] OTHER -> {q.verb}

\* suggestName: the name itself when it is free.
Suggested(q) == IF NamedIn(docs, q.dst, q.name) = {} THEN q.name ELSE FreeName(docs, q.dst)

\* The docid a post answers with: of what was made or replaced, if anything was.
Answers(q, after) ==
  LET there == NamedIn(docs, q.dst, IF q.verb = "copy" THEN docs[q.src].name ELSE q.name) IN
  CASE q.verb \in {"move", "rename"} -> q.src
    [] q.verb \notin {"move", "rename"} /\ Len(after) > Len(docs) -> Len(after)
    [] OTHER -> IF there = {} THEN Gone ELSE OneOf(there)

Post(c) ==
  /\ Active(c) /\ call[c].out = "post"
  /\ LET q == call[c]
         after == Effect(q)
     IN \/ Fails(c, docs)
        \/ after # Refused /\ Fails(c, after)
        \/ /\ after = Refused
           /\ call' = [call EXCEPT ![c].out = "none"]
           /\ UNCHANGED <<docs, known, faults>>
        \/ /\ after # Refused
           /\ docs' = after
           /\ \E v \in Follows(q) :
                call' = [call EXCEPT ![c].verb = v,
                           ![c].out = IF v = q.verb THEN "found" ELSE "post",
                           ![c].new = Answers(q, after),
                           ![c].name = IF q.verb = "getsuggestname" THEN Suggested(q)
                                       ELSE IF Answers(q, after) # Gone THEN after[Answers(q, after)].name
                                       ELSE @,
                           ![c].took = @ \/ after # docs]
           /\ UNCHANGED <<known, faults>>
=============================================================================
