-------------------------- MODULE DiagnosticsEngine --------------------------
(***************************************************************************)
(* The engine every part of the frontend reports to.  The builder, the     *)
(* ErrorListener and the driver use its operations; parse() only asks      *)
(* HasErrors.                                                              *)
(***************************************************************************)
EXTENDS Sequences

VARIABLES
  Diagnostics,   \* what was reported and not printed yet
  HasErrors

diagVars == << Diagnostics, HasErrors >>

NoDiagnostics == Diagnostics = << >> /\ HasErrors = FALSE

\* report(Range, Kind, Message).
report(start, end, kind, message) ==
  /\ Diagnostics' = Append(Diagnostics,
       [start |-> start, end |-> end, kind |-> kind, message |-> message])
  /\ HasErrors' = IF kind = "error" THEN TRUE ELSE HasErrors

\* Mutant: the flag is not reset.
print_KeepsErrors == Diagnostics' = << >> /\ UNCHANGED HasErrors

\* print(OS) also clears the engine.
print == Diagnostics' = << >> /\ HasErrors' = FALSE
=============================================================================
