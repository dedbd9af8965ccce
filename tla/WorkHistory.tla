------------------------------ MODULE WorkHistory ------------------------------
(***************************************************************************)
(* WorkQueue with a memory: whether a mining thread has ever got a work    *)
(* with a certain header.  It outlives the work.                           *)
(***************************************************************************)
EXTENDS WorkQueue

CONSTANT Watched    \* any header

VARIABLE handed     \* history: it has been handed to a mining thread

hvars == <<vars, handed>>

\* What get_work returns to thread m has the header.
Handed(m) == work'[m] \notin {work[m], NoWork} /\ Header(work'[m]) = Watched

HistoryInit == Init /\ handed = FALSE

HistoryNext == Next /\ handed' = (handed \/ \E m \in Miners : Handed(m))

HistorySpec == HistoryInit /\ [][HistoryNext]_hvars

FairHistorySpec == HistorySpec /\ Fairness

(***************************************************************************)
(* The threads never get a header again, not even long after the work that *)
(* had it was done, nor do two of them get it at once: get_work hands out  *)
(* every header once at most, however works are rolled, cloned, staged,    *)
(* discarded and popped by several threads.                                *)
(***************************************************************************)
HandedOnce == [][\A m \in Miners : Handed(m) => ~handed]_hvars
=============================================================================
