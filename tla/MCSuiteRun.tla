------------------------------ MODULE MCSuiteRun ------------------------------
(* Instances of SuiteRun for TLC. *)
EXTENDS SuiteRun

(* A filter that matches some of the objects, and one that matches none. *)
MCFilters == <<{1, N}, {}>>
=============================================================================
