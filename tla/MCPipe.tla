------------------------------- MODULE MCPipe -------------------------------
EXTENDS Pipe

CONSTANTS p1, p2, p3, a, b

\* Two readers and a writer, a reader and two writers; one of each, with contents
\* to tell apart; two processes that share both ends and are killed at any time,
\* with writes longer than the pipe.
MCWorlds ==
  {[ends |-> {<<{p1}, {p2, p3}>>, <<{p1, p2}, {p3}>>},
    bytes |-> {a}, sizes |-> {1, 2}, kills |-> FALSE],
   [ends |-> {<<{p1}, {p2}>>}, bytes |-> {a, b}, sizes |-> {1, 2, 3}, kills |-> FALSE],
   [ends |-> {<<{p1, p2}, {p1, p2}>>}, bytes |-> {a}, sizes |-> {0, 3}, kills |-> TRUE]}
=============================================================================
