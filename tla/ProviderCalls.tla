---------------------------- MODULE ProviderCalls ----------------------------
(***************************************************************************)
(* The provider's operations as sequences of lookups and posts.  An        *)
(* operation ends at pc "back", with out telling its caller whether it     *)
(* returned an error.                                                      *)
(***************************************************************************)
EXTENDS HuadianProvider

\* Mutant: the error of a failed request is dropped.
ReturnedWell(q, good) == [q EXCEPT !.pc = "back", !.out = "found"]

Returned(q, good) == [q EXCEPT !.pc = "back", !.out = IF good THEN "found" ELSE "none"]
Posting(q, verb) == [q EXCEPT !.pc = "posted", !.out = "post", !.verb = verb]

\* c's lookup or post of step pc is over.
On(c, pc) == call[c].pc = pc /\ call[c].out \in {"found", "none"}
Good(c) == call[c].out = "found"

Go(c, k, q) ==
  /\ known' = [known EXCEPT ![Process[c]] = k]
  /\ call' = [call EXCEPT ![c] = q]
  /\ UNCHANGED <<docs, faults>>

\* A step whose lookup failed ends the operation with an error.
GivesUp(c, pc) == On(c, pc) /\ ~Good(c) /\ Go(c, Cache(c), Returned(call[c], FALSE))

\* A move by rename goes to the parent of the new path.
Destination(q) == IF q.req.op = "fs.rename" THEN Parent(q.req.to) ELSE q.req.to
-----------------------------------------------------------------------------
\* Mkdir, Upload, UploadFile: the parent is resolved first.  The root has no name to
\* make anything under.
IntoParent(k, q) ==
  IF q.req.path = <<>> THEN Returned(q, FALSE) ELSE LookUp(k, q, "parent", Parent(q.req.path), FALSE)

FirstPost(q) ==
  CASE q.req.op \in {"fs.mkdir", "mkdir"} -> "dir/create"
    [] q.req.op = "upload" /\ q.req.dup = "auto-rename" -> "getsuggestname"
    [] OTHER -> "predupload"

ParentResolved(c) ==
  \/ GivesUp(c, "parent")
  \/ /\ On(c, "parent") /\ Good(c)
     /\ Go(c, Cache(c), Posting([call[c] EXCEPT !.dst = call[c].at.id, !.name = Base(call[c].req.path)],
                             FirstPost(call[c])))

NameSuggested(c) ==
  /\ On(c, "posted") /\ Good(c) /\ call[c].verb = "getsuggestname"
  /\ Go(c, Cache(c), Posting(call[c], "predupload"))

DirectoryMade(c) ==
  /\ On(c, "posted") /\ Good(c) /\ call[c].verb = "dir/create" /\ call[c].req.op # "upload-dir"
  /\ Go(c, Forget(Cache(c), Parent(call[c].req.path)), Returned(call[c], TRUE))

\* Upload returns; UploadFile lists the parent to verify what is there now.
Uploaded(c) ==
  /\ On(c, "posted") /\ Good(c) /\ call[c].verb \in {"dupload", "osendupload"}
  /\ call[c].req.op # "upload-dir"
  /\ LET k == Forget(Cache(c), Parent(call[c].req.path)) IN
     IF call[c].req.op = "upload"
     THEN Go(c, k, LookUp(k, call[c], "verify", Parent(call[c].req.path), TRUE))
     ELSE Go(c, k, Returned(call[c], TRUE))

\* verifyUploadedFile.
Verified(q, name) ==
  LET matches == {e \in q.got : ~e.dir /\ e.name = name}
  IN Cardinality(matches) = 1 /\ \A e \in matches : e.size = q.req.size

UploadVerified(c) ==
  \/ GivesUp(c, "verify")
  \/ /\ On(c, "verify") /\ Good(c)
     /\ Go(c, Cache(c), Returned(call[c], Verified(call[c], call[c].name)))
-----------------------------------------------------------------------------
\* UploadDirectory of a directory of files: req.path is to be made, req.to are the
\* names of the files.
DirectoryParentSeen(c) ==
  \/ GivesUp(c, "dir_parent")
  \/ /\ On(c, "dir_parent") /\ Good(c)
     /\ Go(c, Cache(c),
           IF call[c].info.dir
           THEN Posting([call[c] EXCEPT !.dst = call[c].at.id, !.name = Base(call[c].req.path)], "dir/create")
           ELSE Returned(call[c], FALSE))

\* The next file is sent by docid, or all have been.
NextChild(k, q) ==
  IF q.left = 0 THEN Returned(q, TRUE)
  ELSE Posting([q EXCEPT !.name = q.req.to[q.left]], "predupload")

RootMade(c) ==
  /\ On(c, "posted") /\ Good(c) /\ call[c].verb = "dir/create" /\ call[c].req.op = "upload-dir"
  /\ LET k == Cached(Cache(c), Parent(call[c].req.path),
                     {[name |-> call[c].name, id |-> call[c].new, dir |-> TRUE, size |-> 0]})
     IN Go(c, k, NextChild(k, [call[c] EXCEPT !.dst = call[c].new, !.left = Len(call[c].req.to)]))

ChildSent(c) ==
  /\ On(c, "posted") /\ Good(c) /\ call[c].verb \in {"dupload", "osendupload"}
  /\ call[c].req.op = "upload-dir"
  /\ LET k == Cached(Forget(Cache(c), call[c].req.path), Parent(call[c].req.path),
                     {[name |-> Base(call[c].req.path), id |-> call[c].dst, dir |-> TRUE, size |-> 0]})
     IN Go(c, k, LookUp(k, call[c], "child", call[c].req.path, TRUE))

\* After the last child the cache below the parent is forgotten.
ChildVerified(c) ==
  \/ GivesUp(c, "child")
  \/ /\ On(c, "child") /\ Good(c)
     /\ LET q == [call[c] EXCEPT !.left = @ - 1]
            k == IF q.left = 0 THEN Forget(Cache(c), Parent(q.req.path)) ELSE Cache(c)
        IN IF Verified(q, q.name) THEN Go(c, k, NextChild(k, q)) ELSE Go(c, Cache(c), Returned(q, FALSE))
-----------------------------------------------------------------------------
\* Rename, Remove and Download act on the docid the path resolves to.
OnDocument(k, q) == LookUp(k, q, "resolve", q.req.path, FALSE)

DocumentPost(q) ==
  CASE q.req.op \in {"fs.rename", "rename"} -> "rename"
    [] q.req.op \in {"fs.remove", "rm"} -> "delete"
    [] OTHER -> "osdownload"

\* Rename uses nothing of the new path but its last name, which the root has not.
Resolved(c) ==
  \/ GivesUp(c, "resolve")
  \/ /\ On(c, "resolve") /\ Good(c)
     /\ LET q == [call[c] EXCEPT !.src = call[c].at.id] IN
        Go(c, Cache(c),
           CASE DocumentPost(q) # "rename" -> Posting(q, DocumentPost(q))
             [] DocumentPost(q) = "rename" /\ q.req.to # <<>> ->
                  Posting([q EXCEPT !.name = Base(q.req.to)], "rename")
             [] OTHER -> Returned(q, FALSE))

\* Mutant: only the parent is forgotten.
OldPathKept(c) ==
  /\ On(c, "posted") /\ Good(c) /\ call[c].verb \in {"rename", "delete"}
  /\ Go(c, Forget(Cache(c), Parent(call[c].req.path)), Returned(call[c], TRUE))

\* The path that was acted on is forgotten, and the parent of the path it was
\* renamed to or removed from.
RenamedOrRemoved(c) ==
  /\ On(c, "posted") /\ Good(c) /\ call[c].verb \in {"rename", "delete"}
  /\ LET q == call[c]
         into == IF q.verb = "rename" THEN Parent(q.req.to) ELSE Parent(q.req.path)
     IN Go(c, Forget(Forget(Cache(c), q.req.path), into), Returned(q, TRUE))

Downloaded(c) ==
  /\ On(c, "posted") /\ Good(c) /\ call[c].verb = "fetch"
  /\ Go(c, Cache(c), Returned(call[c], TRUE))

PostFailed(c) == GivesUp(c, "posted")
-----------------------------------------------------------------------------
\* Move and Copy (transfer).
Moves(q) == q.req.op \in {"fs.rename", "move"}

Transfer(k, q) ==
  IF q.req.path = <<>> THEN Returned(q, FALSE) ELSE LookUp(k, q, "source", q.req.path, FALSE)

SourceSeen(c) ==
  \/ GivesUp(c, "source")
  \/ /\ On(c, "source") /\ Good(c)
     /\ LET q == [call[c] EXCEPT !.source = call[c].info]
        IN Go(c, Cache(c), LookUp(Cache(c), q, "dest", Destination(q), FALSE))

\* Not into a file, into itself, into its own parent, nor with a policy that the
\* server does not offer for the kind of document.
DestinationSeen(c) ==
  \/ GivesUp(c, "dest")
  \/ /\ On(c, "dest") /\ Good(c)
     /\ LET q == call[c] IN
        Go(c, Cache(c),
           IF /\ q.info.dir
              /\ ~(q.source.dir /\ Below(Destination(q), q.req.path))
              /\ ~(Moves(q) /\ Parent(q.req.path) = Destination(q))
              /\ TransferAllowed(Moves(q), q.source.dir, q.req.dup)
           THEN LookUp(Cache(c), q, "source_id", q.req.path, FALSE)
           ELSE Returned(q, FALSE))

SourceResolved(c) ==
  \/ GivesUp(c, "source_id")
  \/ /\ On(c, "source_id") /\ Good(c)
     /\ LET q == [call[c] EXCEPT !.src = call[c].at.id]
        IN Go(c, Cache(c), LookUp(Cache(c), q, "dest_id", Destination(q), FALSE))

DestinationResolved(c) ==
  \/ GivesUp(c, "dest_id")
  \/ /\ On(c, "dest_id") /\ Good(c)
     /\ LET q == [call[c] EXCEPT !.dst = call[c].at.id]
        IN Go(c, Cache(c), LookUp(Cache(c), q, "list", Destination(q), TRUE))

DestinationListed(c) ==
  \/ GivesUp(c, "list")
  \/ /\ On(c, "list") /\ Good(c)
     /\ Go(c, Cache(c), Posting(call[c], IF Moves(call[c]) THEN "move" ELSE "copy"))

\* What may have changed is forgotten before the destination is listed again.  What
\* was replaced lies below the destination and is forgotten by its own path too,
\* because Forget does nothing for the root.
Transferred(c) ==
  /\ On(c, "posted") /\ Good(c) /\ call[c].verb \in {"move", "copy"}
  /\ LET q == call[c]
         there == Append(Destination(q), Base(q.req.path))
         k1 == Forget(Cache(c), Destination(q))
         k2 == IF q.req.dup \in {"overwrite", "merge"} /\ (\E e \in q.got : e.name = Base(there))
               THEN Forget(k1, there) ELSE k1
         k3 == IF Moves(q) THEN Forget(Forget(k2, Parent(q.req.path)), q.req.path) ELSE k2
     IN Go(c, k3, LookUp(k3, q, "moved", Destination(q), TRUE))

\* entryByDocID: entries of a listing whose path is cached with this docid.
ByDocID(k, q, dir, id) ==
  {e \in q.got : Append(dir, e.name) \in DOMAIN k /\ k[Append(dir, e.name)].id = id}

\* The document is in the destination under the name the server gave, of the kind
\* and size it had; then its old parent is listed.
InDestination(c) ==
  \/ GivesUp(c, "moved")
  \/ /\ On(c, "moved") /\ Good(c)
     /\ LET q == call[c]
            there == ByDocID(Cache(c), q, Destination(q), q.new)
            from == Parent(q.req.path)
            k == Forget(Cache(c), from)
        IN IF ~\E e \in there : /\ e.name = q.name /\ e.dir = q.source.dir
                                /\ e.dir \/ e.size = q.source.size
           THEN Go(c, Cache(c), Returned(q, FALSE))
           ELSE IF from = Destination(q)
           THEN Go(c, Cache(c), Returned(q, Moves(q) = (ByDocID(Cache(c), q, from, q.src) = {})))
           ELSE Go(c, k, LookUp(k, q, "left", from, TRUE))

OutOfSource(c) ==
  \/ GivesUp(c, "left")
  \/ /\ On(c, "left") /\ Good(c)
     /\ LET q == call[c]
            here == ByDocID(Cache(c), q, Parent(q.req.path), q.src)
        IN Go(c, Cache(c), Returned(q, Moves(q) = (here = {})))

ProviderStep(c) ==
  \/ Ask(c) \/ Learn(c) \/ Post(c) \/ PostFailed(c)
  \/ ParentResolved(c) \/ NameSuggested(c) \/ DirectoryMade(c) \/ Uploaded(c) \/ UploadVerified(c)
  \/ DirectoryParentSeen(c) \/ RootMade(c) \/ ChildSent(c) \/ ChildVerified(c)
  \/ Resolved(c) \/ RenamedOrRemoved(c) \/ Downloaded(c)
  \/ SourceSeen(c) \/ DestinationSeen(c) \/ SourceResolved(c) \/ DestinationResolved(c)
  \/ DestinationListed(c) \/ Transferred(c) \/ InDestination(c) \/ OutOfSource(c)
=============================================================================
