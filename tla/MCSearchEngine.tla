---------------------------- MODULE MCSearchEngine ----------------------------
(***************************************************************************)
(* SearchEngine on a short range.  The jobs are those in which the ends of *)
(* the range and the hits meet: no hit, hits side by side, a hit on the    *)
(* first nonce, on the last nonces of the range, behind it, a range that   *)
(* wraps around, and the ranges of one and of two nonces.                  *)
(***************************************************************************)
EXTENDS SearchEngine

Job(h, f, l) == [hits |-> h, first |-> f, last |-> l]

MCJobs ==
    { Job({}, 0, N - 1), Job({1, 2}, 0, N - 1), Job({0, N - 3}, 0, N - 1),
      Job({N - 2, N - 1}, 0, N - 1), Job({0}, 4, 2), Job({1}, 1, 1),
      Job({1}, 0, 1) }

\* For the runs that look for one bad behaviour.
FewJobs == { Job({}, 0, N - 1), Job({1, 2}, 0, N - 1), Job({N - 2}, 0, N - 1) }
=============================================================================
