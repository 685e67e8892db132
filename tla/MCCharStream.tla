---------------------------- MODULE MCCharStream -----------------------------
(***************************************************************************)
(* Every buffer of up to four symbols out of two, with queries up to two   *)
(* places beyond its end.                                                  *)
(***************************************************************************)
EXTENDS SourceMgrCharStream

MCBuffers == UNION {[1..n -> {"x", "y"}] : n \in 0..4}
=============================================================================
