------------------------------ MODULE MCContext ------------------------------
(***************************************************************************)
(* Two files that share some of their text, and two decoded strings of one *)
(* length, so that the second overwrites the first where they are decoded. *)
(***************************************************************************)
EXTENDS ASTContext

MCFiles == << << "a", "b", "a" >>, << "b", "a" >> >>
MCDecoded == {<< >>, << "a" >>, << "b" >>}
=============================================================================
