------------------------------ MODULE MCEdcMiner ------------------------------
(***************************************************************************)
(* EdcMiner with as many searches as a stale result needs: one that leaves *)
(* it behind, and one that finds it.                                       *)
(***************************************************************************)
EXTENDS EdcMiner

MCJobs == { [hits |-> {}, first |-> 0, last |-> 2] }

MCProcs == {Miner, Other}
=============================================================================
