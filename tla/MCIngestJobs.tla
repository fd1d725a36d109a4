---------------------------- MODULE MCIngestJobs ----------------------------
(* The instance of IngestJobs that TLC checks: its cfg gives all constants. *)
EXTENDS IngestJobs
=============================================================================
