---------------------------- MODULE MCAssessment ----------------------------
(***************************************************************************)
(* Small instances of Assessment.                                          *)
(***************************************************************************)
EXTENDS Assessment, TLC

CONSTANTS smoke, clear, s1, s2, s3, n1, q1, r1

\* Every signal repeats the same report, so that conclusions can be reused.
MCUnchanged == [s \in Signals |-> smoke]

\* The third signal reports another state of the device.
MCChanging == [s \in Signals |-> IF s = s3 THEN clear ELSE smoke]
=============================================================================
