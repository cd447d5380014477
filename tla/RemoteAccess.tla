---------------------------- MODULE RemoteAccess ----------------------------
(***************************************************************************)
(* What the provider is asked to do: the daemon's file system requests     *)
(* (dispatchFS and the fs handlers of cmd/hddsyncd) under a write policy,  *)
(* and the commands of hddctl remote, each a process of its own with an    *)
(* empty cache.                                                            *)
(***************************************************************************)
EXTENDS ProviderCalls, WritePolicy

CONSTANTS
  Menu,         \* Menu[c]: the requests c may make
  FlagSets,     \* the sets of mode flags the daemon may be started with
  Trees,        \* the server's documents to start from
  MaxCalls      \* bound: requests made

FSRequests == {"fs.list", "fs.stat", "fs.open", "fs.mkdir", "fs.rename", "fs.remove",
               "fs.uploadStaged", "fs.close", "fs.markDirty"}
RemoteCommands == {"ls", "stat", "download", "mkdir", "upload", "upload-dir", "rename", "rm", "copy", "move"}
Policies == {"fail", "auto-rename", "overwrite", "merge", "unset"}
Paths == Seq(Names)

OfDaemon(c) == Process[c] = "daemon"

\* Only the daemon's clients make its requests.  A rename asks the provider for a move
\* that fails on a taken name (TransferConflictFail), whatever the client says.  A local
\* directory has a name, and no two files of one name.
ASSUME RequestsAssumption ==
  /\ MaxCalls \in Nat /\ MaxFaults \in Nat
  /\ FlagSets \subseteq SUBSET Modes
  /\ Menu \in [Callers -> SUBSET [op : FSRequests \union RemoteCommands, path : Paths, to : Paths,
                                   dup : Policies, size : Nat]]
  /\ \A c \in Callers : \A r \in Menu[c] :
       /\ r.op \in FSRequests <=> OfDaemon(c)
       /\ r.op = "fs.rename" => r.dup = "fail"
       /\ r.op = "upload-dir" => r.path # <<>> /\ IsInjective(r.to)
  /\ Trees \subseteq Seq([up : Nat, name : Names, dir : BOOLEAN, size : Nat])
  /\ \A tree \in Trees : IsTree(tree)

VARIABLES
  flags,        \* the mode flags on the daemon's command line
  staging,      \* staging[c]: the staged file of c's upload is on disk
  made,         \* requests made
  doubt         \* history: the daemon's cache may be out of date, because calls were
                \* active together, hddctl changed something or an answer was lost

vars == <<docs, known, call, faults, flags, staging, made, doubt>>

mode == PolicyFrom(flags)
Restricted == mode # FullyWritable
May(permission) == permission \in Can(mode)

Stay == UNCHANGED <<flags, staging, made, doubt>>

\* Mutant: the last lookup's outcome is left behind.
AnsweredAsLeft(q, good) == [q EXCEPT !.pc = "done", !.ans = IF good THEN "ok" ELSE "error"]

Answered(q, good) == [q EXCEPT !.pc = "done", !.ans = IF good THEN "ok" ELSE "error",
                               !.out = "found", !.got = {}]
Answer(c, good) == Go(c, Cache(c), Answered(call[c], good))

\* What the cache has of a tree of documents once every directory was listed.
AllKnown(tree) ==
  LET names == {tree[i].name : i \in Live(tree)}
      paths == {p \in UNION {[1..n -> names] : n \in 1..Len(tree)} : At(tree, p) # {}}
  IN [p \in paths |-> LET i == OneOf(At(tree, p)) IN Entry(i, tree[i].dir, tree[i].size)]

\* The daemon has been asked nothing yet, or has listed every directory.
Init ==
  /\ docs \in Trees /\ flags \in {f \in FlagSets : Accepted(f)}
  /\ \E k \in {<<>>, AllKnown(docs)} :
       known = [p \in {Process[c] : c \in Callers} |-> IF p = "daemon" THEN k ELSE <<>>]
  /\ call = [c \in Callers |-> NoCall]
  /\ staging = [c \in Callers |-> FALSE]
  /\ faults = 0 /\ made = 0 /\ doubt = FALSE
-----------------------------------------------------------------------------
\* handleFSClose (of a file written to) and handleFSMarkDirty answer at once; a
\* goroutine then uploads the local file of the same path, should there be one.
WrittenBack(k, q, local) ==
  IF Restricted /\ q.req.op = "fs.close" THEN Answered(q, FALSE)
  ELSE IF local THEN [IntoParent(k, q) EXCEPT !.ans = "ok"]
  ELSE Answered(q, TRUE)

\* Its error is dropped.
WrittenBackOver(c) ==
  /\ On(c, "back") /\ call[c].req.op \in {"fs.close", "fs.markDirty"}
  /\ Answer(c, call[c].ans = "ok") /\ Stay

\* Where the handlers begin.
DaemonBegins(k, q, local) ==
  CASE q.req.op \in {"fs.close", "fs.markDirty"} -> WrittenBack(k, q, local)
    [] q.req.op = "fs.list" -> LookUp(k, q, "listed", q.req.path, TRUE)
    [] q.req.op = "fs.stat" -> LookUp(k, q, "seen", q.req.path, FALSE)
    [] q.req.op = "fs.open" -> OnDocument(k, q)
    [] q.req.op = "fs.mkdir" -> IntoParent(k, q)
    [] q.req.op = "fs.rename" -> IF Restricted THEN LookUp(k, q, "old", q.req.path, FALSE)
                                 ELSE OnDocument(k, q)
    [] q.req.op = "fs.remove" -> IF q.req.path = <<>> THEN Answered(q, FALSE)
                                 ELSE LookUp(k, q, "removing", q.req.path, FALSE)
    [] q.req.op = "fs.uploadStaged" -> LookUp(k, q, "target", q.req.path, FALSE)

\* cmdRemoteRename and cmdRemoteRm refuse the root, and a rename across parents.
RenameCommand(k, q) ==
  IF q.req.path \in {<<>>, q.req.to} \/ ~SameParent(q.req.path, q.req.to)
  THEN Answered(q, FALSE) ELSE OnDocument(k, q)

RemoveCommand(k, q) == IF q.req.path = <<>> THEN Answered(q, FALSE) ELSE OnDocument(k, q)
DownloadCommand(k, q) == OnDocument(k, q)
MoveCommand(k, q) == Transfer(k, q)

\* An explicit policy of a copy is kept, otherwise the kind of the source decides.
CopyCommand(k, q) == IF q.req.dup = "unset" THEN LookUp(k, q, "copying", q.req.path, FALSE)
                     ELSE Transfer(k, q)

CommandBegins(k, q) ==
  CASE q.req.op = "ls" -> LookUp(k, q, "listed", q.req.path, TRUE)
    [] q.req.op = "stat" -> LookUp(k, q, "seen", q.req.path, FALSE)
    [] q.req.op \in {"mkdir", "upload"} -> IntoParent(k, q)
    [] q.req.op = "upload-dir" -> LookUp(k, q, "dir_parent", Parent(q.req.path), FALSE)
    [] q.req.op = "copy" -> CopyCommand(k, q)
    [] q.req.op = "download" -> DownloadCommand(k, q)
    [] q.req.op = "rename" -> RenameCommand(k, q)
    [] q.req.op = "move" -> MoveCommand(k, q)
    [] q.req.op = "rm" -> RemoveCommand(k, q)

\* A request arrives; the policy's gate may refuse it at once.
Request(c, r, local) ==
  LET others == {d \in Callers \ {c} : Active(d)}
      fresh == IF OfDaemon(c) THEN known ELSE [known EXCEPT ![Process[c]] = <<>>]
      q == [NoCall EXCEPT !.req = r, !.alone = (others = {})]
      k == fresh[Process[c]]
  IN /\ ~Active(c) /\ made < MaxCalls
     /\ made' = made + 1
     /\ known' = fresh
     /\ call' = [d \in Callers |->
          CASE d \in others -> [call[d] EXCEPT !.alone = FALSE]
            [] d = c -> IF OfDaemon(c)
                        THEN IF Admits(mode, r.op) THEN DaemonBegins(k, q, local) ELSE Answered(q, FALSE)
                        ELSE CommandBegins(k, q)
            [] OTHER -> call[d]]
     /\ staging' = [staging EXCEPT ![c] = r.op = "fs.uploadStaged"]
     /\ doubt' = (doubt \/ others # {})
     /\ UNCHANGED <<docs, faults, flags>>

Step(c) ==
  /\ ProviderStep(c)
  /\ doubt' = (doubt \/ (docs' # docs /\ (~OfDaemon(c) \/ faults' # faults)))
  /\ UNCHANGED <<flags, staging, made>>
-----------------------------------------------------------------------------
\* handleFSList, handleFSStat, hddctl ls and stat.
Looked(c) ==
  /\ \E pc \in {"listed", "seen"} : On(c, pc)
  /\ Answer(c, Good(c)) /\ Stay

\* cmdRemoteCopy without --conflict.
CopyDecided(c) ==
  /\ On(c, "copying")
  /\ LET q == [call[c] EXCEPT !.req.dup = IF call[c].info.dir THEN "auto-rename" ELSE "fail"] IN
     IF Good(c) THEN Go(c, Cache(c), Transfer(Cache(c), q)) ELSE Answer(c, FALSE)
  /\ Stay

\* The provider has returned to a caller that passes its result on: every command
\* of hddctl, and of the daemon's handlers those that do not verify.
PassedOn(c) ==
  /\ On(c, "back")
  /\ ~OfDaemon(c) \/ call[c].req.op \in {"fs.open", "fs.mkdir"} \/ (~Restricted /\ call[c].req.op = "fs.rename")
  /\ Answer(c, Good(c)) /\ Stay
-----------------------------------------------------------------------------
\* Mutant: a leave to rename or move is one for files and directories alike.
AnyKindPermitted(q, dir) ==
  /\ q.req.path # <<>>
  /\ IF SameParent(q.req.path, q.req.to) THEN May("renameDir") \/ May("renameFile")
     ELSE (May("moveDir") \/ May("moveFile")) /\ Base(q.req.path) = Base(q.req.to)

\* handleFSRename in a restricted mode: the source, the parent it goes to (not for
\* the renaming of a directory) and the target are looked up first.
RenamePermitted(q, dir) ==
  /\ dir => q.req.path # <<>>
  /\ LetsRename(mode, dir, SameParent(q.req.path, q.req.to), SameName(q.req.path, q.req.to))

OldSeen(c) ==
  /\ On(c, "old") /\ Stay
  /\ LET q == [call[c] EXCEPT !.was = call[c].info]
         k == Cache(c)
     IN CASE ~Good(c) \/ ~RenamePermitted(q, q.was.dir) -> Answer(c, FALSE)
          [] Good(c) /\ RenamePermitted(q, FALSE) /\ ~q.was.dir /\ q.req.path = q.req.to -> Answer(c, TRUE)
          [] OTHER -> IF q.was.dir /\ SameParent(q.req.path, q.req.to)
                      THEN Go(c, k, LookUp(k, q, "new", q.req.to, FALSE))
                      ELSE Go(c, k, LookUp(k, q, "into", Parent(q.req.to), FALSE))

IntoSeen(c) ==
  /\ On(c, "into") /\ Stay
  /\ LET q == call[c]
         k == Cache(c)
     IN IF ~Good(c) \/ ~q.info.dir \/ (q.was.dir /\ Below(Parent(q.req.to), q.req.path))
        THEN Answer(c, FALSE)
        ELSE Go(c, k, LookUp(k, q, "new", q.req.to, FALSE))

\* A target that cannot be looked up counts as absent.
NewSeen(c) ==
  /\ On(c, "new") /\ Stay
  /\ LET q == call[c]
         k == Cache(c)
     IN IF Good(c) THEN Answer(c, FALSE)
        ELSE Go(c, k, IF SameParent(q.req.path, q.req.to) THEN OnDocument(k, q) ELSE Transfer(k, q))

\* What the provider reports is checked by looking both paths up again: always for
\* a file, for a directory only after a move that succeeded.
RenameReturned(c) ==
  /\ On(c, "back") /\ OfDaemon(c) /\ call[c].req.op = "fs.rename" /\ Restricted /\ Stay
  /\ LET q == call[c]
         k == Cache(c)
     IN IF q.was.dir /\ (SameParent(q.req.path, q.req.to) \/ ~Good(c)) THEN Answer(c, Good(c))
        ELSE Go(c, k, LookUp(k, q, "old_gone", q.req.path, FALSE))

OldGone(c) ==
  /\ On(c, "old_gone") /\ Stay
  /\ LET q == [call[c] EXCEPT !.gone = ~Good(c)]
     IN Go(c, Cache(c), LookUp(Cache(c), q, "new_there", q.req.to, FALSE))

\* Success if the old path is gone and the new one has what the old one had,
\* whether or not the provider reported an error.
NewThere(c) ==
  /\ On(c, "new_there") /\ Stay
  /\ LET q == call[c] IN
     Answer(c, Good(c) /\ q.gone /\ q.info.dir = q.was.dir /\ (q.info.dir \/ q.info.size = q.was.size))
-----------------------------------------------------------------------------
\* handleFSRemove.
RemovalSeen(c) ==
  /\ On(c, "removing") /\ Stay
  /\ LET q == [call[c] EXCEPT !.was = call[c].info] IN
     IF Good(c) /\ May(IF q.was.dir THEN "deleteDir" ELSE "deleteFile")
     THEN Go(c, Cache(c), OnDocument(Cache(c), q)) ELSE Answer(c, FALSE)

\* After an error the path is looked up again too, only for the log.
RemoveReturned(c) ==
  /\ On(c, "back") /\ call[c].req.op = "fs.remove" /\ Stay
  /\ Go(c, Cache(c), LookUp(Cache(c), [call[c] EXCEPT !.gone = Good(c)], "removed", call[c].req.path, FALSE))

RemovalChecked(c) ==
  /\ On(c, "removed") /\ Stay
  /\ Answer(c, call[c].gone /\ ~Good(c))
-----------------------------------------------------------------------------
\* handleFSUploadStaged: a target that exists is refused under policy fail, and
\* the staged file is kept.
TargetSeen(c) ==
  /\ On(c, "target") /\ Stay
  /\ IF Good(c) /\ call[c].req.dup = "fail" THEN Answer(c, FALSE)
     ELSE Go(c, Cache(c), IntoParent(Cache(c), call[c]))

\* An upload that failed leaves no staged file either.
StagedReturned(c) ==
  /\ On(c, "back") /\ call[c].req.op = "fs.uploadStaged"
  /\ IF Good(c)
     THEN /\ Go(c, Cache(c), LookUp(Cache(c), call[c], "staged", call[c].req.path, FALSE))
          /\ UNCHANGED staging
     ELSE /\ Answer(c, FALSE)
          /\ staging' = [staging EXCEPT ![c] = FALSE]
  /\ UNCHANGED <<flags, made, doubt>>

StagedVerified(c) ==
  /\ On(c, "staged")
  /\ Answer(c, Good(c) /\ ~call[c].info.dir /\ call[c].info.size = call[c].req.size)
  /\ staging' = [staging EXCEPT ![c] = FALSE]
  /\ UNCHANGED <<flags, made, doubt>>

Handler(c) ==
  \/ Looked(c) \/ WrittenBackOver(c) \/ CopyDecided(c) \/ PassedOn(c)
  \/ OldSeen(c) \/ IntoSeen(c) \/ NewSeen(c) \/ RenameReturned(c) \/ OldGone(c) \/ NewThere(c)
  \/ RemovalSeen(c) \/ RemoveReturned(c) \/ RemovalChecked(c)
  \/ TargetSeen(c) \/ StagedReturned(c) \/ StagedVerified(c)

Next == \E c \in Callers : (\E r \in Menu[c], local \in BOOLEAN : Request(c, r, local)) \/ Step(c) \/ Handler(c)

Spec == Init /\ [][Next]_vars
-----------------------------------------------------------------------------
Finishes(c) == Active(c) /\ call'[c].pc = "done"

\* Calls, caches and documents are of the kinds the handlers and the provider use;
\* the documents form a tree whose directories have no two entries of one name.
CloudTypeOK ==
  /\ flags \subseteq Modes /\ made \in 0..MaxCalls /\ faults \in 0..MaxFaults
  /\ \A c \in Callers : /\ call[c].out \in {"ask", "got", "post", "found", "none"}
                        /\ call[c].ans \in {"none", "ok", "error"}
                        /\ Active(c) => call[c].req \in Menu[c] \/ call[c].req.op = "copy"
                        /\ ~Active(c) => call[c].out = "found"
  /\ \A p \in DOMAIN known : \A path \in DOMAIN known[p] : known[p][path].id \in 1..Len(docs)
  /\ IsTree(docs)

\* While calls come one after the other, no answer is lost and only the daemon changes
\* the documents, whatever its cache says between two calls is what the server has:
\* every operation forgets all that it may have changed.
TrueOf(tree, path, e) == \E i \in At(tree, path) : e = Entry(i, tree[i].dir, tree[i].size)
CacheTrueWhenQuiet ==
  ~doubt /\ (\A c \in Callers : ~Active(c)) =>
    \A c \in Callers : OfDaemon(c) => \A path \in DOMAIN Cache(c) : TrueOf(docs, path, Cache(c)[path])

\* The change a call asked for is to be seen on the server.
Done(tree, q) ==
  CASE q.req.op \in {"fs.rename", "rename"} ->
         /\ \E i \in At(tree, q.req.to) : i = q.src
         /\ At(tree, q.req.path) = {}
    [] q.req.op \in {"fs.remove", "rm"} -> At(tree, q.req.path) = {}
    [] q.req.op \in {"fs.mkdir", "mkdir"} -> \E i \in At(tree, q.req.path) : tree[i].dir
    [] q.req.op = "fs.uploadStaged" -> \E i \in At(tree, q.req.path) : tree[i].size = q.req.size
    [] q.req.op = "upload" -> \E i \in NamedIn(tree, q.dst, q.name) : tree[i].size = q.req.size
    [] q.req.op = "upload-dir" ->
         \A n \in Range(q.req.to) : At(tree, Append(q.req.path, n)) # {}
    [] q.req.op \in {"copy", "move"} -> q.new \in Children(tree, q.dst)
    [] OTHER -> TRUE

\* Renames that only look done: of nothing to itself, and in the fully writable mode
\* across parents, where only the last name of the new path counts.
Special(q) == q.req.op = "fs.rename" /\ (q.req.path = q.req.to \/ (~Restricted /\ ~SameParent(q.req.path, q.req.to)))

\* A call that had the provider to itself and answers ok has done what it was asked,
\* even after requests that failed, unless it is the daemon's and its cache was out of
\* date: the verification afterwards resolves the path through the same cache.
OkIsTrue ==
  [][\A c \in Callers :
       Finishes(c) /\ call'[c].ans = "ok" /\ call[c].alone /\ ~Special(call[c]) /\ (doubt => ~OfDaemon(c))
       => Done(docs, call[c])]_vars

\* A call that had the provider to itself and changed the server does not answer with
\* an error unless a request failed or the daemon's cache was out of date: the
\* verification after a rename, a move, a removal or an upload raises no false alarm.
ErrorIsTrue ==
  [][\A c \in Callers :
       Finishes(c) /\ call'[c].ans = "error" /\ call[c].alone /\ (doubt => ~OfDaemon(c))
       => ~call[c].took \/ call[c].hurt]_vars

\* No call changes the content of a document unless it is a command that says
\* overwrite, and none but a removal makes one disappear, however calls overlap between
\* the look and the upload.
NothingOverwritten ==
  [][\A c \in Callers :
       docs' # docs /\ call'[c] # call[c]
       => \A i \in Live(docs) :
            docs'[i].size # docs[i].size \/ (docs'[i].up = Gone /\ call[c].verb # "delete")
            => call[c].req.dup \in {"overwrite", "merge"} /\ ~OfDaemon(c)]_vars

\* While the cache is true, what the daemon renames, moves or removes is the document
\* that is at the path it was asked about.
ActsOnNamedPath ==
  [][\A c \in Callers :
       Active(c) /\ OfDaemon(c) /\ ~doubt /\ docs' # docs /\ call'[c].took /\ ~call[c].took
         /\ call[c].verb \in {"rename", "move", "delete"}
       => At(docs, call[c].req.path) = {call[c].src}]_vars

\* Whatever the requests, what the daemon does to the documents every mode flag on
\* its command line permits: nothing is removed, renamed, moved or made that one of
\* them excludes, going by the kind the handler was told the document has
\* (policyAllowsRequest, handleFSRename, handleFSRemove, writePolicyFromArgs).
Permitted(permission) == \A f \in flags : permission \in Can(f)
Kind(dir, ofDirectory, ofFile) == IF dir THEN ofDirectory ELSE ofFile

WithinPolicy ==
  [][\A c \in Callers :
       OfDaemon(c) /\ Restricted /\ docs' # docs /\ call'[c] # call[c]
       => LET dir == call[c].was.dir IN
          \A i \in 1..Len(docs') :
            IF i > Len(docs) THEN Permitted(Kind(docs'[i].dir, "mkdir", "copyUploadFile"))
            ELSE IF docs'[i].up = docs[i].up
            THEN docs'[i].name # docs[i].name => Permitted(Kind(dir, "renameDir", "renameFile"))
            ELSE Permitted(IF docs'[i].up = Gone THEN Kind(dir, "deleteDir", "deleteFile")
                           ELSE Kind(dir, "moveDir", "moveFile"))]_vars
=============================================================================
