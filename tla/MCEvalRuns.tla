------------------------------- MODULE MCEvalRuns -------------------------------
(* Everything may go wrong, or everything but the filling of the dataset. *)
EXTENDS EvalRuns

CONSTANTS i1, i2

TwoRuns == <<"pdfplumber", "pymupdf">>
Files == {i1, i2}
MCFaultSets == {FaultKinds, {"request", "item", "disk"}}
OnlyFill == {{"fill"}}
=============================================================================
