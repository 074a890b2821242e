-------------------------------- MODULE MCSh -------------------------------
(* Lines for the shell: <<>> stands for a program that makes any calls;    *)
(* every line of up to two tokens, or of three after a word; a pipeline; a *)
(* list in a pipeline; redirections twice; background jobs.                *)
EXTENDS Sh

Token == {"w", "|", ";", "&", "(", ")", "<", ">"}

MCLines ==
  UNION {[1..n -> Token] : n \in 0..2} \cup
  {<<"w", s, t>> : s \in Token, t \in Token} \cup
  { <<"w", "|", "w", "|", "w">>,
    <<"(", "w", ";", "w", ">", "w", ")", "|", "w">>,
    <<"(", "w", "|", "w", ")", ">", "w">>,
    <<"w", "<", "w", "<", "w", "&", ";", "w">>,
    <<"w", "&", "&", ";", "w", "&">> }
=============================================================================
