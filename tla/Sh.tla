--------------------------------- MODULE Sh --------------------------------
(***************************************************************************)
(* The shell, sh.c, as a client of the system calls of Files: it parses a  *)
(* line, and runs it with fork, pipe, dup, close, open, exec and wait.     *)
(*                                                                         *)
(* A process executes its list "code" of calls.  A command that exec has   *)
(* started reads its standard input to the end, and exits.  Beside the     *)
(* shell, a process may also make any calls ("any"), as programs do.       *)
(***************************************************************************)
EXTENDS Files

CONSTANTS
  Lines,    \* token sequences typed at the prompt: "w" is a word
  MAXARGS,
  AnyCalls  \* how many calls of its own choice a program makes

VARIABLES
  line,
  code,     \* per process: what it has still to do
  pp,       \* per process: the array p[2] of runcmd
  tag,      \* pipe -> position of its "|" in the line
  ran       \* commands started: [id, in, out]

svars == <<line, code, pp, tag, ran>>
vars == <<fvars, svars>>

\* Parsing.  A parser takes the position of the next token, and returns a
\* command and the position after it; panic is a command that is not ok.
Tok(ts, i) == IF i \in DOMAIN ts THEN ts[i] ELSE "end"

Cmd(type, id, subs, fd) ==
  [ok |-> \A i \in DOMAIN subs : subs[i].ok, type |-> type, id |-> id, subs |-> subs, fd |-> fd]
Panic == [ok |-> FALSE, type |-> "panic", id |-> 0, subs |-> <<>>, fd |-> 0]
At(cmd, i) == [cmd |-> cmd, at |-> i]

\* redircmd around redircmd, the first redirection innermost.
RECURSIVE Redirs(_, _)
Redirs(cmd, fds) ==
  IF fds = <<>> THEN cmd ELSE Redirs(Cmd("REDIR", 0, <<cmd>>, Head(fds)), Tail(fds))

FdOf(t) == IF t = "<" THEN 0 ELSE 1

\* parseredirs, after a block.
RECURSIVE parseredirs(_, _, _)
parseredirs(ts, cmd, i) ==
  IF Tok(ts, i) \notin {"<", ">"} THEN At(cmd, i)
  ELSE IF Tok(ts, i + 1) # "w" THEN At(Panic, i)
  ELSE parseredirs(ts, Cmd("REDIR", 0, <<cmd>>, FdOf(Tok(ts, i))), i + 2)

\* The loop of parseexec: words and redirections, in any order.
RECURSIVE ExecLoop(_, _, _, _, _)
ExecLoop(ts, id, i, argc, fds) ==
  IF Tok(ts, i) \in {"<", ">"}
  THEN IF Tok(ts, i + 1) # "w" THEN At(Panic, i)
       ELSE ExecLoop(ts, id, i + 2, argc, Append(fds, FdOf(Tok(ts, i))))
  ELSE IF Tok(ts, i) \in {"|", ")", "&", ";", "end"}
  THEN At(Redirs(Cmd("EXEC", IF argc = 0 THEN 0 ELSE id, <<>>, 0), fds), i)
  ELSE IF Tok(ts, i) # "w" \/ argc + 1 >= MAXARGS THEN At(Panic, i)
  ELSE ExecLoop(ts, id, i + 1, argc + 1, fds)

RECURSIVE Backs(_, _)
Backs(ts, r) == IF Tok(ts, r.at) = "&" THEN Backs(ts, At(Cmd("BACK", 0, <<r.cmd>>, 0), r.at + 1)) ELSE r

RECURSIVE parseline(_, _)
RECURSIVE parsepipe(_, _)
parseblock(ts, i) ==
  LET r == parseline(ts, i + 1)
  IN  IF Tok(ts, r.at) # ")" THEN At(Panic, r.at) ELSE parseredirs(ts, r.cmd, r.at + 1)

parseexec(ts, i) == IF Tok(ts, i) = "(" THEN parseblock(ts, i) ELSE ExecLoop(ts, i, i, 0, <<>>)

\* Fault for PlumbedRight: a pipeline associates with the wrong position.
parsepipeLate(ts, i) ==
  LET l == parseexec(ts, i)
      r == parsepipe(ts, l.at + 1)
  IN  IF Tok(ts, l.at) # "|" THEN l
      ELSE At(Cmd("PIPE", l.at, <<r.cmd, l.cmd>>, 0), r.at)

parsepipe(ts, i) ==
  LET l == parseexec(ts, i)
      r == parsepipe(ts, l.at + 1)
  IN  IF Tok(ts, l.at) # "|" THEN l
      ELSE At(Cmd("PIPE", l.at, <<l.cmd, r.cmd>>, 0), r.at)

parseline(ts, i) ==
  LET l == Backs(ts, parsepipe(ts, i))
      r == parseline(ts, l.at + 1)
  IN  IF Tok(ts, l.at) # ";" THEN l
      ELSE At(Cmd("LIST", 0, <<l.cmd, r.cmd>>, 0), r.at)

parsecmd(ts) ==
  LET r == parseline(ts, 1)
  IN  IF r.at <= Len(ts) THEN Panic ELSE r.cmd

Parsed == [ts \in Lines |-> parsecmd(ts)]
-----------------------------------------------------------------------------
\* Running.  A call is a record; "n" is a descriptor, an index of p[2] or a
\* position, "then" the code of a child, "cmd" a command.
Do(what, n) == [do |-> what, n |-> n, then |-> <<>>, cmd |-> Panic]
Fork1(then) == [Do("fork", 0) EXCEPT !.then = then]
Run(cmd) == [Do("run", 0) EXCEPT !.cmd = cmd]

\* Fault for PromptReturns: the parent keeps the write end.
PipeCodeKeep(id, left, right) ==
  <<Do("pipe", id), Do("piped", id),
    Fork1(<<Do("close", 1), Do("dup", 2), Do("closep", 1), Do("closep", 2), Run(left)>>),
    Fork1(<<Do("close", 0), Do("dup", 1), Do("closep", 1), Do("closep", 2), Run(right)>>),
    Do("closep", 1), Do("wait", 0), Do("wait", 0), Do("exit", 0)>>

\* case PIPE of runcmd.
PipeCode(id, left, right) ==
  <<Do("pipe", id), Do("piped", id),
    Fork1(<<Do("close", 1), Do("dup", 2), Do("closep", 1), Do("closep", 2), Run(left)>>),
    Fork1(<<Do("close", 0), Do("dup", 1), Do("closep", 1), Do("closep", 2), Run(right)>>),
    Do("closep", 1), Do("closep", 2), Do("wait", 0), Do("wait", 0), Do("exit", 0)>>

runcmd(cmd) ==
  CASE ~cmd.ok -> <<Do("exit", 0)>>
    [] cmd.type = "EXEC" /\ cmd.id = 0 -> <<Do("exit", 0)>>
    [] cmd.type = "EXEC" /\ cmd.id # 0 -> <<Do("exec", cmd.id), Do("drain", 0), Do("exit", 0)>>
    [] cmd.type = "REDIR" -> <<Do("close", cmd.fd), Do("open", cmd.fd),
                               Do("opened", cmd.fd), Run(cmd.subs[1])>>
    [] cmd.type = "LIST" -> <<Fork1(<<Run(cmd.subs[1])>>), Do("wait", 0), Run(cmd.subs[2])>>
    [] cmd.type = "PIPE" -> PipeCode(cmd.id, cmd.subs[1], cmd.subs[2])
    [] cmd.type = "BACK" -> <<Fork1(<<Run(cmd.subs[1])>>), Do("exit", 0)>>

\* main after getcmd: the child parses and runs the line, the shell waits.
Shell == <<Fork1(<<Run(Parsed[line])>>), Do("wait", 0)>>
\* A program of its own: calls of its choice.
Program == [i \in 1..AnyCalls + 1 |-> IF i <= AnyCalls THEN Do("any", 0) ELSE Do("exit", 0)]

First == Min(Proc)
Console == <<"console", 0>>

\* init has opened the console, and dup'ed it twice.
Init ==
  /\ line \in Lines
  /\ code = [p \in Proc |-> IF p # First THEN <<>> ELSE IF line = <<>> THEN Program ELSE Shell]
  /\ pp = [p \in Proc |-> <<0, 0>>]
  /\ tag = [k \in 1..NPIPE |-> 0]
  /\ ran = {}
  /\ ofile = [p \in Proc |-> [fd \in Fd |-> IF p = First /\ fd < 3 THEN 1 ELSE NoFile]]
  /\ ftable = [f \in File |-> IF f # 1 THEN Closed ELSE
       [ref |-> 3, type |-> "INODE", obj |-> "console", writable |-> TRUE]]
  /\ pipes = [k \in 1..NPIPE |-> Unmade]
  /\ iref = [ip \in Inode |-> IF ip = "console" THEN 1 ELSE 0]
  /\ leaked = [ip \in Inode |-> 0]
  /\ call = [p \in Proc |-> Idle]
  /\ state = [p \in Proc |-> IF p = First THEN "RUN" ELSE "UNUSED"]
  /\ parent = [p \in Proc |-> Ancestor]

\* What a descriptor leads to.
Leads(p, fd) ==
  LET f == ftable[ofile[p][fd]]
  IN  IF ofile[p][fd] = NoFile THEN <<"none", 0>>
      ELSE IF f.type = "PIPE" THEN <<"pipe", tag[f.obj]>> ELSE <<f.obj, 0>>

Next1(p) == Head(code[p])
Doing(p, what) == Here(p, "user") /\ code[p] # <<>> /\ Next1(p).do = what
\* A command that is next is run at once.
Ready(c) == IF c # <<>> /\ Head(c).do = "run" THEN runcmd(Head(c).cmd) ELSE c
Become(p, new) == code' = [code EXCEPT ![p] = Ready(new)]
Popped(p) == Become(p, Tail(code[p]))
Die(p) == Become(p, <<Do("exit", 0)>>)

\* fork1: the child goes on with "then", or with the parent's own code; it
\* panics when no process is free.
fork1(p) ==
  /\ Doing(p, "fork")
  /\ \/ \E kid \in Proc :
          /\ state[kid] = "UNUSED" /\ \A q \in Proc : q < kid => state[q] # "UNUSED"
          /\ Fork(p, kid)
          /\ code' = [code EXCEPT ![p] = Ready(Tail(@)), ![kid] = Ready(Next1(p).then)]
          /\ pp' = [pp EXCEPT ![kid] = pp[p]]
     \/ /\ \A q \in Proc : state[q] # "UNUSED"
        /\ Die(p) /\ UNCHANGED <<fvars, pp>>
  /\ UNCHANGED <<line, tag, ran>>

close(p) ==
  /\ \/ Doing(p, "close") /\ sys_close(p, Next1(p).n)
     \/ Doing(p, "closep") /\ sys_close(p, pp[p][Next1(p).n])
  /\ Popped(p) /\ UNCHANGED <<line, pp, tag, ran>>

dup(p) ==
  /\ Doing(p, "dup")
  /\ sys_dup(p, pp[p][Next1(p).n])
  /\ Popped(p) /\ UNCHANGED <<line, pp, tag, ran>>

\* A redirection exits when open has failed.
open(p) ==
  /\ Doing(p, "open")
  /\ OpenName(p, "file")
  /\ Popped(p) /\ UNCHANGED <<line, pp, tag, ran>>

opened(p) ==
  /\ Doing(p, "opened")
  /\ IF call[p].failed THEN Die(p) ELSE Popped(p)
  /\ Go(p, Idle)
  /\ UNCHANGED <<res, line, pp, tag, ran>>

\* pipe notes where its descriptors will be; runcmd panics when it has failed.
pipe(p) ==
  /\ Doing(p, "pipe")
  /\ \/ PipeFile1(p) /\ Popped(p)
     \/ FreeFiles = {} /\ Die(p) /\ UNCHANGED fvars
  /\ pp' = [pp EXCEPT ![p] = <<fdalloc(p), Min(FreeFds(p) \ {fdalloc(p)})>>]
  /\ UNCHANGED <<line, tag, ran>>

piped(p) ==
  LET f == ofile[p][pp[p][1]]
  IN  /\ Doing(p, "piped")
      /\ \/ ~call[p].failed /\ Popped(p) /\ tag' = [tag EXCEPT ![ftable[f].obj] = Next1(p).n]
         \/ call[p].failed /\ Die(p) /\ UNCHANGED tag
      /\ Go(p, Idle)
      /\ UNCHANGED <<res, line, pp, ran>>

\* exec starts the command, or fails and runcmd exits.
exec(p) ==
  /\ Doing(p, "exec")
  /\ \/ /\ Popped(p)
        /\ ran' = ran \cup {[id |-> Next1(p).n, in |-> Leads(p, 0), out |-> Leads(p, 1)]}
     \/ Die(p) /\ UNCHANGED ran
  /\ UNCHANGED <<fvars, line, pp, tag>>

\* The command reads its input: piperead returns 0 once no writer is left.
drain(p) ==
  LET f == ftable[ofile[p][0]]
  IN  /\ Doing(p, "drain")
      /\ ofile[p][0] # NoFile /\ f.type = "PIPE" => ~pipes[f.obj].writeopen
      /\ Popped(p)
      /\ UNCHANGED <<fvars, line, pp, tag, ran>>

wait(p) ==
  /\ Doing(p, "wait")
  /\ \E kid \in Proc : Wait(p, kid)
  /\ Popped(p) /\ UNCHANGED <<line, pp, tag, ran>>

exit(p) ==
  /\ Doing(p, "exit")
  /\ Exit(p)
  /\ Popped(p) /\ UNCHANGED <<line, pp, tag, ran>>

\* Any call; as its first one, a program may fork a child that goes on like it.
any(p) ==
  /\ Doing(p, "any")
  /\ \/ /\ \/ sys_dup(p, 0) \/ OpenName(p, "file") \/ PipeFile1(p)
           \/ \E fd \in Fd : sys_close(p, fd)
        /\ Popped(p)
     \/ /\ code[p] = Program
        /\ Fork(p, First + 1)
        /\ code' = [code EXCEPT ![p] = Tail(@), ![First + 1] = Tail(code[p])]
  /\ UNCHANGED <<line, pp, tag, ran>>

\* A step of p; init reaps the orphans.
Proceed(p) ==
  \/ Step(p) /\ UNCHANGED svars
  \/ fork1(p) \/ close(p) \/ dup(p) \/ open(p) \/ opened(p)
  \/ pipe(p) \/ piped(p) \/ exec(p) \/ drain(p) \/ wait(p) \/ exit(p) \/ any(p)

Adopted(kid) ==
  /\ state[kid] = "ZOMBIE" /\ parent[kid] = Ancestor
  /\ Reaped(kid) /\ UNCHANGED svars

Next == \E p \in Proc : Proceed(p) \/ Adopted(p)

\* As long as a process can run, the scheduler runs one.
Spec == Init /\ [][Next]_vars /\ WF_vars(Next)
-----------------------------------------------------------------------------
(* Properties.  What a line means, by position and without parsing: the    *)
(* tokens of one depth of parentheses between two operators are a segment. *)

Depth(i) == Cardinality({j \in 1..i - 1 : line[j] = "("})
              - Cardinality({j \in 1..i - 1 : line[j] = ")"})
Ends(i) == {j \in DOMAIN line : Depth(j) = Depth(i) /\ line[j] \in {"|", ";", "&", ")"}}
Starts(i) == {j \in DOMAIN line : \/ Depth(j) = Depth(i) /\ line[j] \in {"|", ";", "&"}
                                  \/ Depth(j) = Depth(i) - 1 /\ line[j] = "("}
After(i) == Min({j \in Ends(i) : j >= i} \cup {Len(line) + 1})
Before(i) == Max({j \in Starts(i) : j < i} \cup {0})
Group(i) == Max({j \in 1..i - 1 : line[j] = "(" /\ Depth(j) = Depth(i) - 1})
Redirected(i, t) ==
  \E j \in Before(i) + 1..After(i) - 1 : line[j] = t /\ Depth(j) = Depth(i)

RECURSIVE Input(_)
Input(i) ==
  CASE Redirected(i, "<") -> <<"file", 0>>
    [] ~Redirected(i, "<") /\ Tok(line, Before(i)) = "|" -> <<"pipe", Before(i)>>
    [] ~Redirected(i, "<") /\ Tok(line, Before(i)) # "|" ->
         IF Depth(i) = 0 THEN Console ELSE Input(Group(i))

RECURSIVE Output(_)
Output(i) ==
  CASE Redirected(i, ">") -> <<"file", 0>>
    [] ~Redirected(i, ">") /\ Tok(line, After(i)) = "|" -> <<"pipe", After(i)>>
    [] ~Redirected(i, ">") /\ Tok(line, After(i)) # "|" ->
         IF Depth(i) = 0 THEN Console ELSE Output(Group(i))

\* Every command runs with the standard input and output that the line gives
\* it: its own redirection, else the neighbouring pipe, else what the group it
\* stands in has, else the console; whatever files and processes the other
\* commands open and close in the meantime, and whatever calls fail.
PlumbedRight == \A c \in ran : c.in = Input(c.id) /\ c.out = Output(c.id)

\* The shell comes back to its prompt: no process of the line keeps an end of a
\* pipe open that another waits for, and none waits for a child that is lost.
PromptReturns == <>(code[First] = <<>>)
=============================================================================
