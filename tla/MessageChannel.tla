----------------------------- MODULE MessageChannel -----------------------------
(***************************************************************************)
(* What sha256_accel_msg_list and sha256_accel_msg are for                 *)
(* (kernel_module/sha256_accel.c): a channel between the interrupt handler *)
(* and read.  The handler puts one message per interrupt, read takes them  *)
(* out; what is in the channel is neither changed nor overtaken, and       *)
(* nothing but a read takes it out.                                        *)
(***************************************************************************)
EXTENDS Naturals, Sequences

CONSTANTS
    Statuses, Nonces    \* what the handler reads from the registers

VARIABLES
    channel,    \* the messages that have been put and not taken
    put,        \* number of messages put
    got         \* number of the message taken last

vars == <<channel, put, got>>

Init ==
    /\ channel = <<>>
    /\ put = 0 /\ got = 0

\* list_add_tail: a message is numbered by its interrupt.
Put(s, n) ==
    /\ put' = put + 1
    /\ channel' = Append(channel,
                     [status |-> s, nonce_candidate |-> n, number |-> put'])
    /\ UNCHANGED got

\* copy_to_user, after which the message is done.
Take ==
    /\ channel # <<>>
    /\ got' = Head(channel).number
    /\ channel' = Tail(channel)
    /\ UNCHANGED put

Next == Take \/ \E s \in Statuses, n \in Nonces : Put(s, n)

Spec == Init /\ [][Next]_vars
=============================================================================
