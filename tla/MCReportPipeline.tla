-------------------------- MODULE MCReportPipeline --------------------------
(* Model values and symmetry for ReportPipeline. *)
EXTENDS ReportPipeline, TLC

Symmetry == Permutations(Workers) \cup Permutations(Reports)

=============================================================================
