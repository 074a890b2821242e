------------------------------- MODULE Files -------------------------------
(***************************************************************************)
(* Descriptors, the table of open files, and what hangs on it: file.c, the *)
(* descriptor calls of sysfile.c, pipealloc and pipeclose of pipe.c, and   *)
(* the part of fork, exit and wait that hands descriptors on.              *)
(*                                                                         *)
(* Each section under ftable.lock, icache.lock or a pipe's lock is a step. *)
(* In between, another process may take or free the same table's slots.    *)
(***************************************************************************)
EXTENDS Integers, Sequences, FiniteSets, FiniteSetsExt

CONSTANTS
  Proc,     \* slots of the process table
  Ancestor, \* init, parent of the orphans
  NOFILE,   \* descriptors of a process
  NFILE,    \* open files of the system
  NPIPE,    \* pages of memory for pipes
  Inode     \* files to open

VARIABLES
  ofile,    \* proc->ofile: descriptor -> file, or 0
  ftable,   \* file -> [ref, type, obj, writable]
  pipes,    \* page -> [live, readopen, writeopen]
  iref,     \* ip->ref, as far as open files count
  leaked,   \* references that failed opens have left behind
  call,     \* per process: the call it is in
  state,    \* per process: "UNUSED", "RUN", "ZOMBIE"
  parent

res == <<ofile, ftable, pipes, iref, leaked, state, parent>>
fvars == <<res, call>>

Fd == 0..NOFILE - 1
File == 1..NFILE
NoFile == 0
NoObj == 0

Closed == [ref |-> 0, type |-> "NONE", obj |-> NoObj, writable |-> FALSE]
Unmade == [live |-> FALSE, readopen |-> FALSE, writeopen |-> FALSE]

\* files: those the call holds; end: what fileclose has still to close; failed:
\* does it return, or has it returned, a negative number?
Idle == [at |-> "user", files |-> <<>>, end |-> Closed, obj |-> NoObj, failed |-> FALSE]
Failed == [Idle EXCEPT !.failed = TRUE]

\* filealloc and fdalloc take the first free slot.
FreeFiles == {f \in File : ftable[f].ref = 0}
filealloc == Min(FreeFiles)
FreeFds(p) == {fd \in Fd : ofile[p][fd] = NoFile}
fdalloc(p) == Min(FreeFds(p))

Here(p, label) == state[p] = "RUN" /\ call[p].at = label

Go(p, new) == call' = [call EXCEPT ![p] = new]

\* filealloc's effect, and that of filedup.
Taken(f) == [ftable EXCEPT ![f].ref = 1]
filedup(f) == [ftable EXCEPT ![f].ref = @ + 1]
-----------------------------------------------------------------------------
sys_dup(p, fd) ==
  LET f == ofile[p][fd]
  IN  /\ Here(p, "user") /\ f # NoFile /\ FreeFds(p) # {}
      /\ ofile' = [ofile EXCEPT ![p][fdalloc(p)] = f]
      /\ ftable' = filedup(f)
      /\ UNCHANGED <<pipes, iref, leaked, call, state, parent>>

\* sys_open: namei takes a reference of the inode, or finds none ...
OpenName(p, ip) ==
  /\ Here(p, "user")
  /\ \/ /\ iref' = [iref EXCEPT ![ip] = @ + 1]
        /\ Go(p, [Idle EXCEPT !.at = "open", !.obj = ip])
     \/ Go(p, Failed) /\ UNCHANGED iref
  /\ UNCHANGED <<ofile, ftable, pipes, leaked, state, parent>>

\* Open files and inodes of which p still owes a close.
Pending(type, obj) ==
  {p \in Proc : call[p].end.type = type /\ call[p].end.obj = obj}

OpenFiles(ip) == {f \in File : ftable[f].type = "INODE" /\ ftable[f].obj = ip}

\* I_VALID: an open of ip has succeeded, and its reference is still there.
Loaded(ip) ==
  \/ OpenFiles(ip) # {} \/ Pending("INODE", ip) # {}
  \/ \E p \in Proc : call[p].at = "openfd" /\ call[p].obj = ip

\* ... whose lock says E_CORRUPTED, and the reference stays; which goes with
\* iunlockput when it is a directory to be written, or when there is no file ...
OpenFile(p) ==
  LET ip == call[p].obj
  IN  /\ Here(p, "open")
      /\ \/ /\ FreeFiles # {}
            /\ ftable' = Taken(filealloc)
            /\ Go(p, [call[p] EXCEPT !.at = "openfd", !.files = <<filealloc>>])
            /\ UNCHANGED <<iref, leaked>>
         \/ /\ iref' = [iref EXCEPT ![ip] = @ - 1]
            /\ Go(p, Failed)
            /\ UNCHANGED <<ftable, leaked>>
         \/ /\ ~Loaded(ip)
            /\ leaked' = [leaked EXCEPT ![ip] = @ + 1]
            /\ Go(p, Failed)
            /\ UNCHANGED <<ftable, iref>>
      /\ UNCHANGED <<ofile, pipes, state, parent>>

\* ... or no descriptor: fileclose finds a file without a type.
OpenFd(p) ==
  LET f == call[p].files[1]
  IN  /\ Here(p, "openfd")
      /\ \/ /\ FreeFds(p) # {}
            /\ ofile' = [ofile EXCEPT ![p][fdalloc(p)] = f]
            /\ ftable' = [ftable EXCEPT ![f] =
                 [ref |-> 1, type |-> "INODE", obj |-> call[p].obj, writable |-> TRUE]]
            /\ Go(p, Idle)
            /\ UNCHANGED iref
         \/ /\ FreeFds(p) = {}
            /\ ftable' = [ftable EXCEPT ![f] = Closed]
            /\ iref' = [iref EXCEPT ![call[p].obj] = @ - 1]
            /\ Go(p, Failed)
            /\ UNCHANGED ofile
      /\ UNCHANGED <<pipes, leaked, state, parent>>

\* sys_pipe: pipealloc takes two files ...
PipeFile1(p) ==
  /\ Here(p, "user") /\ FreeFiles # {}
  /\ ftable' = Taken(filealloc)
  /\ Go(p, [Idle EXCEPT !.at = "pipe1", !.files = <<filealloc>>])
  /\ UNCHANGED <<ofile, pipes, iref, leaked, state, parent>>

PipeFile2(p) ==
  /\ Here(p, "pipe1")
  /\ \/ /\ FreeFiles # {}
        /\ ftable' = Taken(filealloc)
        /\ Go(p, [call[p] EXCEPT !.at = "pipe2", !.files = Append(@, filealloc)])
     \/ /\ FreeFiles = {}
        /\ Go(p, [call[p] EXCEPT !.at = "close", !.failed = TRUE])
        /\ UNCHANGED ftable
  /\ UNCHANGED <<ofile, pipes, iref, leaked, state, parent>>

\* ... and a page, which it makes a pipe, unless kalloc has none ...
PipePage(p) ==
  LET f0 == call[p].files[1]  f1 == call[p].files[2]
  IN  /\ Here(p, "pipe2")
      /\ \/ \E k \in DOMAIN pipes :
              /\ ~pipes[k].live /\ \A j \in 1..k - 1 : pipes[j].live
              /\ pipes' = [pipes EXCEPT ![k] =
                   [live |-> TRUE, readopen |-> TRUE, writeopen |-> TRUE]]
              /\ ftable' = [ftable EXCEPT
                   ![f0] = [ref |-> 1, type |-> "PIPE", obj |-> k, writable |-> FALSE],
                   ![f1] = [ref |-> 1, type |-> "PIPE", obj |-> k, writable |-> TRUE]]
              /\ Go(p, [call[p] EXCEPT !.at = "pipe3"])
         \/ /\ Go(p, [call[p] EXCEPT !.at = "close", !.failed = TRUE])
            /\ UNCHANGED <<pipes, ftable>>
      /\ UNCHANGED <<ofile, iref, leaked, state, parent>>

\* The descriptors of a pipe whose files are rf and wf.
Piped(p, rf, wf) ==
  LET fd0 == fdalloc(p)
      fd1 == Min(FreeFds(p) \ {fd0})
  IN  [ofile EXCEPT ![p][fd0] = rf, ![p][fd1] = wf]

\* ... for which it takes two descriptors, or closes both files.
PipeFds(p) ==
  /\ Here(p, "pipe3")
  /\ \/ /\ Cardinality(FreeFds(p)) >= 2
        /\ ofile' = Piped(p, call[p].files[1], call[p].files[2])
        /\ Go(p, Idle)
     \/ /\ Cardinality(FreeFds(p)) < 2
        /\ Go(p, [call[p] EXCEPT !.at = "close", !.failed = TRUE])
        /\ UNCHANGED ofile
  /\ UNCHANGED <<ftable, pipes, iref, leaked, state, parent>>

sys_close(p, fd) ==
  /\ Here(p, "user") /\ ofile[p][fd] # NoFile
  /\ ofile' = [ofile EXCEPT ![p][fd] = NoFile]
  /\ Go(p, [Idle EXCEPT !.at = "close", !.files = <<ofile[p][fd]>>])
  /\ UNCHANGED <<ftable, pipes, iref, leaked, state, parent>>

\* Fault for RefsExact: the slot is freed by the first close of several.
LastAlways(f) == TRUE

Last(f) == ftable[f].ref = 1

Closing(p) == Here(p, "close") \/ Here(p, "exit")
AllClosed(c) == c.files = <<>> /\ c.end = Closed

\* A close, or a pipe that fails, returns when nothing is left to close; exit goes
\* on.
CloseGo(p, new) ==
  Go(p, IF AllClosed(new) /\ new.at = "close" THEN [Idle EXCEPT !.failed = new.failed] ELSE new)

\* fileclose under ftable.lock.  The last reference frees the slot, and leaves
\* a copy of it to be closed.
fileclose(p) ==
  LET f == Head(call[p].files)
  IN  /\ Closing(p) /\ call[p].files # <<>> /\ call[p].end = Closed
      /\ ftable' = [ftable EXCEPT ![f] =
           IF Last(f) THEN Closed ELSE [@ EXCEPT !.ref = @ - 1]]
      /\ CloseGo(p, [call[p] EXCEPT
           !.files = Tail(@), !.end = IF Last(f) THEN [ftable[f] EXCEPT !.ref = 0] ELSE Closed])
      /\ UNCHANGED <<ofile, pipes, iref, leaked, state, parent>>

\* Fault for PipesExact: the page is freed with the first end.
pipecloseEager(k, w) == Unmade

pipeclose(k, w) ==
  LET q == IF w THEN [pipes[k] EXCEPT !.writeopen = FALSE]
                ELSE [pipes[k] EXCEPT !.readopen = FALSE]
  IN  IF q.readopen \/ q.writeopen THEN q ELSE Unmade

\* The rest of fileclose: pipeclose, or iput in a transaction.
CloseEnd(p) ==
  LET ff == call[p].end
  IN  /\ Closing(p) /\ ff # Closed
      /\ pipes' = IF ff.type = "PIPE"
                  THEN [pipes EXCEPT ![ff.obj] = pipeclose(ff.obj, ff.writable)] ELSE pipes
      /\ iref' = IF ff.type = "INODE" THEN [iref EXCEPT ![ff.obj] = @ - 1] ELSE iref
      /\ CloseGo(p, [call[p] EXCEPT !.end = Closed])
      /\ UNCHANGED <<ofile, ftable, leaked, state, parent>>

\* fork: the child gets every descriptor.
Fork(p, kid) ==
  /\ Here(p, "user") /\ state[kid] = "UNUSED"
  /\ ofile' = [ofile EXCEPT ![kid] = ofile[p]]
  /\ ftable' = [f \in File |-> [ftable[f] EXCEPT
       !.ref = @ + Cardinality({fd \in Fd : ofile[p][fd] = f})]]
  /\ state' = [state EXCEPT ![kid] = "RUN"]
  /\ parent' = [parent EXCEPT ![kid] = p]
  /\ UNCHANGED <<pipes, iref, leaked, call>>

\* exit closes every descriptor, in order ...
Exit(p) ==
  LET open == {fd \in Fd : ofile[p][fd] # NoFile}
      nth(i) == CHOOSE fd \in open : Cardinality({e \in open : e < fd}) = i - 1
  IN  /\ Here(p, "user")
      /\ ofile' = [ofile EXCEPT ![p] = [fd \in Fd |-> NoFile]]
      /\ Go(p, [Idle EXCEPT !.at = "exit",
                 !.files = [i \in 1..Cardinality(open) |-> ofile[p][nth(i)]]])
      /\ UNCHANGED <<ftable, pipes, iref, leaked, state, parent>>

\* ... gives its children to init, and becomes a zombie.
ExitDone(p) ==
  /\ Here(p, "exit") /\ AllClosed(call[p])
  /\ state' = [state EXCEPT ![p] = "ZOMBIE"]
  /\ parent' = [q \in Proc |-> IF parent[q] = p THEN Ancestor ELSE parent[q]]
  /\ Go(p, Idle)
  /\ UNCHANGED <<ofile, ftable, pipes, iref, leaked>>

Reaped(kid) ==
  /\ state' = [state EXCEPT ![kid] = "UNUSED"]
  /\ UNCHANGED <<ofile, ftable, pipes, iref, leaked, call, parent>>

\* wait finds a zombie child.
Wait(p, kid) ==
  /\ Here(p, "user") /\ state[kid] = "ZOMBIE" /\ parent[kid] = p
  /\ Reaped(kid)

\* A step inside a call.
Step(p) ==
  \/ OpenFile(p) \/ OpenFd(p)
  \/ PipeFile2(p) \/ PipePage(p) \/ PipeFds(p)
  \/ fileclose(p) \/ CloseEnd(p)
  \/ ExitDone(p)
-----------------------------------------------------------------------------
(* Properties.                                                             *)

Descriptors(f) == {<<p, fd>> \in Proc \X Fd : ofile[p][fd] = f}

\* Files that a call of p holds without a descriptor.
HeldBy(p, f) == Cardinality({i \in DOMAIN call[p].files : call[p].files[i] = f})

\* Counts are exact: a file counts the descriptors of all processes that refer
\* to it, and the calls that hold it; an inode counts its open files, and the
\* calls about to open or to release it.  So no slot is freed, and no inode
\* recycled, under a descriptor, and none is kept once the last one is gone, but
\* for the references of opens that returned E_CORRUPTED, one each.
RefsExact ==
  /\ \A f \in File : ftable[f].ref =
       Cardinality(Descriptors(f)) + MapThenSumSet(LAMBDA p : HeldBy(p, f), Proc)
  /\ \A ip \in Inode : iref[ip] =
       Cardinality(OpenFiles(ip)) + Cardinality(Pending("INODE", ip)) + leaked[ip]
         + Cardinality({p \in Proc : call[p].at \in {"open", "openfd"} /\ call[p].obj = ip})

\* One end of a pipe is open while a file refers to it or fileclose is about to
\* close it, and no longer: a reader sees the end of the file when the last
\* descriptor of the other end is closed, and the page is freed exactly when
\* nothing refers to it.
PipesExact ==
  \A k \in DOMAIN pipes : \A w \in BOOLEAN :
    LET open == \/ \E f \in File : ftable[f].type = "PIPE" /\ ftable[f].obj = k
                                   /\ ftable[f].writable = w
                \/ \E p \in Pending("PIPE", k) : call[p].end.writable = w
    IN  open <=> /\ pipes[k].live
                 /\ IF w THEN pipes[k].writeopen ELSE pipes[k].readopen
=============================================================================
