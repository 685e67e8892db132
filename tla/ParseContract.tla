---------------------------- MODULE ParseContract ----------------------------
(***************************************************************************)
(* What parse() promises a caller who parses one file after another: how a *)
(* call ends, what it may report meanwhile, and that finished ASTs are not *)
(* touched.  Of the arena the caller knows the nodes of finished ASTs.     *)
(***************************************************************************)
EXTENDS Integers, Sequences

VARIABLES
  parsing,   \* a call is in progress
  pending,   \* the diagnostics reported and not printed
  refused,   \* the call in progress, or the last one, met a syntax error
  asts,      \* the nodes of the finished ASTs
  result     \* what the last call returned: a node, or 0 for nullptr

vars == << parsing, pending, refused, asts, result >>

Start == ~ parsing /\ pending = << >> /\ ~ refused /\ asts = << >> /\ result = 0

Prefix(s, t) == Len(s) < Len(t) /\ SubSeq(t, 1, Len(s)) = s

Call ==
  /\ ~ parsing /\ parsing' /\ ~ refused'
  /\ UNCHANGED << pending, asts, result >>

\* One diagnostic more, for a syntax error or from the builder.
Report ==
  /\ parsing /\ Prefix(pending, pending') /\ Len(pending') = Len(pending) + 1
  /\ refused => refused'
  /\ UNCHANGED << parsing, asts, result >>

\* nullptr, for a reason the caller can print.
Refuse ==
  /\ parsing /\ ~ parsing' /\ pending # << >> /\ result' = 0
  /\ UNCHANGED << pending, refused, asts >>

\* A Program of its own, the first of its nodes, without syntax error.
Deliver ==
  /\ parsing /\ ~ parsing' /\ ~ refused
  /\ Prefix(asts, asts') /\ result' = Len(asts) + 1
  /\ UNCHANGED << pending, refused >>

PrintOut ==
  /\ ~ parsing /\ pending' = << >>
  /\ UNCHANGED << parsing, refused, asts, result >>

Step == Call \/ Report \/ Refuse \/ Deliver \/ PrintOut

Contract == Start /\ [][Step]_vars
=============================================================================
