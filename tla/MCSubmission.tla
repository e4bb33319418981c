---------------------------- MODULE MCSubmission ----------------------------
(* SubmissionGuard for TLC.  The tabs are interchangeable, but the runs    *)
(* check a liveness property, for which symmetry is not sound.             *)
EXTENDS SubmissionGuard
=============================================================================
