---------------------------- MODULE MCKernelDriver ----------------------------
(***************************************************************************)
(* KernelDriver with two searches: one that can end in every way the       *)
(* hardware knows, the second long enough to be stopped or overtaken.      *)
(***************************************************************************)
EXTENDS KernelDriver

MCJobs == { [hits |-> {}, first |-> 0, last |-> 2] }
=============================================================================
