----------------------------- MODULE MCStopJob ------------------------------
(* Instances of StopJob.                                                     *)
EXTENDS StopJob
=============================================================================
