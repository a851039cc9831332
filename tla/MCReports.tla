----------------------------- MODULE MCReports ------------------------------
(* Instances of Reports for TLC.                                           *)
EXTENDS Reports

CONSTANTS c1, c2, r1, u1, u2
=============================================================================
