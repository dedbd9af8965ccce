-------------------------------- MODULE Sha256 --------------------------------
(***************************************************************************)
(* What SHA-256 is of, as FIPS 180 defines it: the bytes of the message,   *)
(* a byte 0x80, as few zero bytes as make the whole a multiple of the      *)
(* block, and the length of the message.  A caller hands the message over  *)
(* in pieces and asks for a digest in the end (the interface of            *)
(* sha256/sha256.h).                                                       *)
(*                                                                         *)
(* The compression function is left out: the state of a hash is the        *)
(* sequence of the bytes it has absorbed.  A byte of the message is known  *)
(* by its number, so that none can be taken for another.                   *)
(***************************************************************************)
EXTENDS Integers, Sequences

CONSTANTS
    Block,     \* bytes in a block; 64 in the code
    LenSize,   \* bytes of the length at the end; 8 in the code
    Pieces,    \* the lengths of the pieces a caller may hand over
    MaxTotal   \* bound: length of a message

VARIABLES
    fed,       \* the length of the message so far
    digest     \* the bytes the last digest is of; NoDigest: none asked for

Byte(i) == <<"message", i>>
Marker == <<"pad", 128>>
Zero == <<"pad", 0>>
LengthByte(total, i) == <<"length", total, i>>

NoDigest == <<>>

\* The first n bytes of the message.
Prefix(n) == [i \in 1 .. n |-> Byte(i)]

\* The length of the padded message: the next multiple of the block.
Padded(n) == CHOOSE k \in n + 1 + LenSize .. n + LenSize + Block : k % Block = 0

Padding(n) ==
    [ i \in 1 .. Padded(n) - n |->
        IF i = 1 THEN Marker
        ELSE IF i <= Padded(n) - n - LenSize THEN Zero
        ELSE LengthByte(n, i - (Padded(n) - n - LenSize)) ]

Hashed(n) == Prefix(n) \o Padding(n)

\* The state after the blocks the message has so far.
Midstate(n) == Prefix(n - (n % Block))

Init == fed = 0 /\ digest = NoDigest

New == fed' = 0 /\ UNCHANGED digest

Update(n) ==
    /\ fed + n <= MaxTotal
    /\ fed' = fed + n
    /\ UNCHANGED digest

NoFinish == digest' = Midstate(fed) /\ UNCHANGED fed

\* The context is of no use after that until it is initialised.
Finish == digest' = Hashed(fed) /\ fed' \in Nat

Next == New \/ NoFinish \/ Finish \/ \E n \in Pieces : Update(n)

Spec == Init /\ [][Next]_<<fed, digest>>
=============================================================================
