------------------------------- MODULE MCCloud -------------------------------
(***************************************************************************)
(* A file /a, a directory /d with a file /d/b, and an empty directory /e.  *)
(***************************************************************************)
EXTENDS RemoteAccess

SmallTree == {<<Doc(Root, "a", FALSE, 1), Doc(Root, "d", TRUE, 0), Doc(2, "b", FALSE, 2),
                Doc(Root, "e", TRUE, 0)>>}

ProcessOf == [c \in Callers |-> IF c = "ctl" THEN "hddctl" ELSE "daemon"]

Req(op, path, to, dup) == [op |-> op, path |-> path, to |-> to, dup |-> dup, size |-> 3]

FromMount ==
  {Req("fs.list", <<>>, <<>>, "fail"),
   Req("fs.open", <<"d", "b">>, <<>>, "fail"),
   Req("fs.mkdir", <<"x">>, <<>>, "fail"),
   Req("fs.rename", <<"a">>, <<"x">>, "fail"),
   Req("fs.rename", <<"a">>, <<"d", "a">>, "fail"),
   Req("fs.rename", <<"d">>, <<"x">>, "fail"),
   Req("fs.rename", <<"d">>, <<"e", "d">>, "fail"),
   Req("fs.rename", <<"d", "b">>, <<"d", "x">>, "fail"),
   Req("fs.remove", <<"a">>, <<>>, "fail"),
   Req("fs.remove", <<"d">>, <<>>, "fail"),
   Req("fs.uploadStaged", <<"a">>, <<>>, "overwrite"),
   Req("fs.uploadStaged", <<"d", "x">>, <<>>, "fail"),
   Req("fs.close", <<"a">>, <<>>, "fail"),
   Req("fs.markDirty", <<"d", "x">>, <<>>, "fail")}

FromSecondMount ==
  {Req("fs.stat", <<"d", "b">>, <<>>, "fail"),
   Req("fs.remove", <<"d">>, <<>>, "fail"),
   Req("fs.uploadStaged", <<"d", "x">>, <<>>, "fail")}

Commands ==
  {Req("ls", <<"d">>, <<>>, "fail"),
   Req("stat", <<"a">>, <<>>, "fail"),
   Req("download", <<"d", "b">>, <<>>, "fail"),
   Req("mkdir", <<"x">>, <<>>, "fail"),
   Req("upload", <<"a">>, <<>>, "overwrite"),
   Req("upload", <<"a">>, <<>>, "auto-rename"),
   Req("upload-dir", <<"x">>, <<"b", "a">>, "fail"),
   Req("rename", <<"d">>, <<"x">>, "fail"),
   Req("rm", <<"a">>, <<>>, "fail"),
   Req("copy", <<"a">>, <<"d">>, "unset"),
   Req("move", <<"a">>, <<"d">>, "auto-rename"),
   Req("move", <<"d">>, <<"e">>, "fail")}

Requests == [c \in Callers |-> CASE c = "m1" -> FromMount [] c = "m2" -> FromSecondMount
                                 [] c = "ctl" -> Commands]
=============================================================================
