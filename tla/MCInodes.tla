------------------------------ MODULE MCInodes -----------------------------
EXTENDS Inodes

Call(op, abs, path) == [op |-> op, abs |-> abs, path |-> path, new |-> <<"c">>]

\* Directories that are made, entered, left and removed by two processes.
Dirs == [files |-> <<"b">>, calls |->
  {Call(op, FALSE, <<"a">>) : op \in {"chdir", "mkdir", "fork", "exit"}} \cup
  {Call("unlink", TRUE, <<"a">>), Call("unlink", TRUE, <<"a", "a">>),
   Call("chdir", FALSE, <<"..">>)}]

\* A file that two processes make, link, open and remove.
Linked == [files |-> <<"b", "x", "y">>, calls |->
  {Call(op, TRUE, <<"b">>) : op \in {"create", "link", "unlink", "open", "close", "fork"}}]

\* A file that grows.
Data == [files |-> <<"b">>, calls |->
  {Call(op, TRUE, <<"b">>) : op \in {"create", "unlink", "mkdir", "close", "write"}}]

\* Calls that fail, and crashes.
Fails == [files |-> <<"b">>, calls |->
  {Call(op, TRUE, <<"b">>) : op \in {"mkdir", "unlink", "open", "close", "chdir", "crash"}} \cup
  {Call("mkdir", TRUE, <<"b", "c">>), [Call("link", TRUE, <<"b">>) EXCEPT !.new = <<"b", "c">>]}]

MCMenus == {Dirs, Linked, Data, Fails}
=============================================================================
