------------------------------ MODULE MCAxiSlave ------------------------------
(***************************************************************************)
(* AxiSlave with words of two bytes and bytes of two values.  The writes   *)
(* are a whole word, a part of one, the two pulses, and registers that     *)
(* take no write.                                                          *)
(***************************************************************************)
EXTENDS AxiSlave

Word(low, high) == [b \in Lanes |-> IF b = 0 THEN low ELSE high]
Write(a, d, s) == [addr |-> a, data |-> d, strb |-> s]

MCParams == {"PREFIX", "NONCE_LAST"}

MCRequests ==
    { Write("PREFIX", Word(1, 0), Lanes), Write("PREFIX", Word(0, 1), {1}),
      Write("NONCE_LAST", Word(0, 1), Lanes), Write("CONTROL", Word(1, 1), {0}),
      Write("IRQ_MASK", Word(1, 0), Lanes), Write("STATUS", Word(1, 1), Lanes) }

MCSources == {"PREFIX", "STATUS"}
MCEngine == {Zeros, Word(1, 1)}

\* For the master that does not wait: two words and a pulse.
FewRequests ==
    { Write("PREFIX", Word(1, 0), Lanes), Write("NONCE_LAST", Word(0, 1), {0}),
      Write("CONTROL", Word(1, 1), {0}) }
FewSources == {"PREFIX", "STATUS", "CONTROL"}
=============================================================================
