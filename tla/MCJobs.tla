------------------------------- MODULE MCJobs -------------------------------
(* Bounded instance of Jobs: more submissions than registry entries, and    *)
(* more accepted jobs than slots.                                           *)
EXTENDS Jobs
=============================================================================
