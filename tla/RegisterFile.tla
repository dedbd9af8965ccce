----------------------------- MODULE RegisterFile -----------------------------
(***************************************************************************)
(* What the AXI slave promises: a write takes effect once, all of it in    *)
(* one step, in the order of issue, and is answered once; a read returns   *)
(* the value its register has at one moment between request and answer; no *)
(* answer is withdrawn before the master takes it.                         *)
(***************************************************************************)
EXTENDS RegisterMap

CONSTANT None           \* no request, no answer

VARIABLES
    params,             \* the parameter words
    control, irq_mask,  \* one-cycle pulses
    pending,            \* writes issued that have not taken effect
    owed,               \* writes in effect that are not answered
    bready, rready,     \* does the master take an answer in this cycle?
    request, response   \* a read waiting for its answer, an answer on offer

vars == <<params, control, irq_mask, pending, owed, bready, rready,
          request, response>>

Init ==
    /\ params = ParamsAtReset
    /\ control = Zeros /\ irq_mask = FALSE
    /\ pending = <<>> /\ owed = 0
    /\ request = None /\ response = None
    /\ bready \in BOOLEAN /\ rready \in BOOLEAN

\* The master may issue one more write.
Issue(old) ==
    LET new == pending'[Len(pending')] IN
    \/ pending' = old
    \/ pending' # <<>> /\ new \in Writes /\ pending' = Append(old, new)

\* The oldest write takes effect, and is owed an answer.
Apply ==
    /\ pending # <<>>
    /\ params' = Written(params, Head(pending))
    /\ control' = ControlOf(Head(pending))
    /\ irq_mask' = Acknowledges(Head(pending))
    /\ Issue(Tail(pending))
    /\ owed' = owed + 1

\* No write takes effect; an answer the master is ready for is given.
Keep ==
    /\ UNCHANGED params
    /\ control' = Zeros /\ irq_mask' = FALSE
    /\ Issue(pending)
    /\ owed' = IF bready /\ owed > 0 THEN owed - 1 ELSE owed

Sample(engine) ==
    /\ request # None /\ response = None
    /\ response' = ReadOf(params, engine, request)
    /\ request' \in Addresses \cup {None}

NoSample ==
    /\ response' = IF rready THEN None ELSE response
    /\ request' = request \/ (request = None /\ request' \in Addresses)

Edge ==
    /\ Apply \/ Keep
    /\ NoSample \/ \E engine \in Words : Sample(engine)
    /\ bready' \in BOOLEAN /\ rready' \in BOOLEAN

\* A reset of the bus clears the slave and what its master has under way.
Reset ==
    /\ params' = ParamsAtReset
    /\ control' = Zeros /\ irq_mask' = FALSE
    /\ pending' = <<>> /\ owed' = 0
    /\ request' = None /\ response' = None
    /\ bready' \in BOOLEAN /\ rready' \in BOOLEAN

Next == Edge \/ Reset

Spec == Init /\ [][Next]_vars
=============================================================================
