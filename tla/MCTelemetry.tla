---------------------------- MODULE MCTelemetry ----------------------------
(* Queries and sessions for the runs of Telemetry. *)
EXTENDS Telemetry, TLC

CONSTANTS r1, r2, r3, s1, s2

\* Two queries of one session and one of another.
TwoSessions == [r \in Records |-> IF r = r3 THEN s2 ELSE s1]
=============================================================================
