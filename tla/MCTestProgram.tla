----------------------------- MODULE MCTestProgram -----------------------------
(***************************************************************************)
(* TestProgram with two runs of the program and two loads of the module:   *)
(* an rmmod and an insmod between the runs, a failed init before them.     *)
(***************************************************************************)
EXTENDS TestProgram

MCJobs == { [hits |-> {1}, first |-> 0, last |-> 2] }
=============================================================================
