----------------------------- MODULE Sha256Stream -----------------------------
(***************************************************************************)
(* The streaming of sha256/sha256.c: what sha256_update keeps in the       *)
(* buffer of the context and what it hands to sha256_process, and the      *)
(* padding of sha256_finish.  The test program feeds it the head of a      *)
(* block, then the nonce, then the first digest (userspace_app/main.c).    *)
(*                                                                         *)
(* The bytes are those of Sha256; ctx->state is the sequence of the bytes  *)
(* sha256_process has been given.                                          *)
(***************************************************************************)
EXTENDS Integers, Sequences

CONSTANTS Block, LenSize, Pieces, MaxTotal   \* of Sha256

ASSUME BlockAssumption == LenSize \in Nat \ {0} /\ Block \in Nat /\ Block > LenSize
ASSUME PiecesAssumption == Pieces \subseteq Nat /\ MaxTotal \in Nat

VARIABLES
    total, buffer, state,  \* struct sha256_context
    digest,                \* the digest of the caller
    open                   \* the context has been initialised since sha256_finish

ctx == <<total, buffer, state>>
vars == <<ctx, digest, open>>

Reference == INSTANCE Sha256 WITH fed <- total

Init ==
    /\ total = 0 /\ state = <<>>
    /\ buffer = [i \in 0 .. Block - 1 |-> Reference!Zero]
    /\ digest = Reference!NoDigest
    /\ open = TRUE

sha256_init ==
    /\ total' = 0 /\ state' = <<>>
    /\ open' = TRUE
    /\ UNCHANGED <<buffer, digest>>
-----------------------------------------------------------------------------
\* memcpy(&ctx->buffer[at], input, length)
Filled(at, input) ==
    [ i \in 0 .. Block - 1 |->
        IF i \in at .. at + Len(input) - 1 THEN input[i - at + 1] ELSE buffer[i] ]

Bytes(buf) == [i \in 1 .. Block |-> buf[i - 1]]

(***************************************************************************)
(* sha256_update: fill up the buffer and process it, process the blocks of *)
(* the input in place, keep the rest.                                      *)
(***************************************************************************)
Absorb(input) ==
    LET left == total % Block
        fill == Block - left
        full == left > 0 /\ Len(input) >= fill
        used == IF full THEN fill ELSE 0
        rest == Len(input) - used
        blocks == (rest \div Block) * Block
        kept == SubSeq(input, used + blocks + 1, Len(input))
    IN /\ total' = total + Len(input)
       /\ state' = state \o (IF full THEN Bytes(Filled(left, SubSeq(input, 1, fill)))
                                     ELSE <<>>)
                         \o SubSeq(input, used + 1, used + blocks)
       /\ buffer' = Filled(IF full THEN 0 ELSE left, kept)

\* The caller hands over the next n bytes of its message.
sha256_update(n) ==
    /\ open
    /\ total + n <= MaxTotal
    /\ Absorb([i \in 1 .. n |-> Reference!Byte(total + i)])
    /\ UNCHANGED <<digest, open>>

sha256_nofinish ==
    /\ open
    /\ digest' = state
    /\ UNCHANGED <<ctx, open>>

\* Mutant: a message that leaves just the room for the length gets a block more.
PaddingLong ==
    LET last == total % Block
        padn == IF last <= Block - LenSize THEN Block - LenSize - last
                                           ELSE 2 * Block - LenSize - last
    IN [ i \in 1 .. padn + LenSize |->
           IF i = 1 THEN Reference!Marker
           ELSE IF i <= padn THEN Reference!Zero
           ELSE Reference!LengthByte(total, i - padn) ]

Padding ==
    LET last == total % Block
        padn == IF last < Block - LenSize THEN Block - LenSize - last
                                          ELSE 2 * Block - LenSize - last
    IN [ i \in 1 .. padn + LenSize |->
           IF i = 1 THEN Reference!Marker
           ELSE IF i <= padn THEN Reference!Zero
           ELSE Reference!LengthByte(total, i - padn) ]

\* The padding is absorbed like a piece of the message.
sha256_finish ==
    /\ open
    /\ Absorb(Padding)
    /\ digest' = state'
    /\ open' = FALSE

Next ==
    \/ sha256_init
    \/ \E n \in Pieces : sha256_update(n)
    \/ sha256_nofinish
    \/ sha256_finish

Spec == Init /\ [][Next]_vars
-----------------------------------------------------------------------------
(***************************************************************************)
(* Correctness.  However a message is cut into pieces, at the edge of a    *)
(* block, across it or within it, the digest of the caller is SHA-256 of   *)
(* the message, and the midstate that of its whole blocks; no byte of an   *)
(* older message is left in the buffer that matters.                       *)
(***************************************************************************)
DigestsMessage == Reference!Spec
=============================================================================
