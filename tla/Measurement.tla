---------------------------- MODULE Measurement ----------------------------
(***************************************************************************)
(* What one analysis invocation measures in the files it selected, in the  *)
(* order of run_analysis() of code_guard.py: the source files with their   *)
(* callable guards, then the sections of a Markdown document.              *)
(***************************************************************************)
EXTENDS SourceAnalysis, MarkdownScan

measurementVars == <<vars, scanVars>>

AnalyseSource == Next /\ UNCHANGED scanVars

\* An error other than a file's own unavailability has ended the invocation.
ScanDocument == step = "done" /\ ScanNext /\ UNCHANGED vars

MeasurementInit == Init /\ ScanInit

MeasurementNext == AnalyseSource \/ ScanDocument

MeasurementSpec == MeasurementInit /\ [][MeasurementNext]_measurementVars

---------------------------------------------------------------------------
\* Every variable of both parts keeps its type (run_analysis in code_guard.py).
MeasurementTypeOK == TypeOK /\ ScanTypeOK
=============================================================================
