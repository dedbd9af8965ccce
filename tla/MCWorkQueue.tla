------------------------------ MODULE MCWorkQueue ------------------------------
(***************************************************************************)
(* WorkQueue for TLC: one mining thread besides the scheduler, the long    *)
(* poll and the restart threads; a pool whose works can be rolled once and *)
(* a stratum pool; two works and two blocks, so that one work can be of an *)
(* older block than the other; the memory is of the header that a master   *)
(* and its clone would both have if it were rolled once too little.        *)
(***************************************************************************)
EXTENDS WorkHistory

MCWatched == <<0, 1>>
=============================================================================
