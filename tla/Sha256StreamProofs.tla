--------------------------- MODULE Sha256StreamProofs ---------------------------
(***************************************************************************)
(* Sha256Stream implements Sha256, for blocks and lengths of any size: in  *)
(* particular for those of the code, 64 and 8.                             *)
(***************************************************************************)
EXTENDS Sha256Stream, SequenceTheorems, TLAPS

-----------------------------------------------------------------------------
(***************************************************************************)
(* Blocks.                                                                 *)
(***************************************************************************)

\* The bytes of the whole blocks among the first n.
Whole(n) == n - (n % Block)

\* Quotient and remainder exist and are unique.
LEMMA Division ==
    ASSUME NEW n \in Nat
    PROVE  /\ n % Block \in 0 .. Block - 1
           /\ n \div Block \in Nat
           /\ Whole(n) = Block * (n \div Block) /\ Whole(n) \in Nat
BY BlockAssumption DEF Whole

LEMMA DivisionUnique ==
    ASSUME NEW q \in Nat, NEW r \in 0 .. Block - 1
    PROVE  (Block * q + r) % Block = r /\ Whole(Block * q + r) = Block * q
BY BlockAssumption DEF Whole

\* The multiples of Block are Block apart.
LEMMA Multiples ==
    ASSUME NEW p \in Nat, NEW q \in Nat, NEW n \in Nat,
           Block * p \in n + 1 .. n + Block, Block * q \in n + 1 .. n + Block
    PROVE  p = q
<1>1. Block \in Nat \ {0}
  BY BlockAssumption
<1>2. Block * p < Block * q + Block /\ Block * q < Block * p + Block
  BY <1>1
<1>3. Block * q + Block = Block * (q + 1) /\ Block * p + Block = Block * (p + 1)
  BY <1>1
<1>4. p < q + 1 /\ q < p + 1
  BY <1>1, <1>2, <1>3
<1> QED
  BY <1>4
-----------------------------------------------------------------------------
(***************************************************************************)
(* Pieces of a stream F of bytes: b of them, from the one after the first  *)
(* a on.                                                                   *)
(***************************************************************************)
Piece(F, a, b) == [i \in 1 .. b |-> F[a + i]]

LEMMA PieceSeq ==
    ASSUME NEW S, NEW F \in [Nat -> S]
    PROVE  \A a \in Nat, b \in Nat :
             /\ Piece(F, a, b) \in Seq(S) /\ Len(Piece(F, a, b)) = b
             /\ \A i \in 1 .. b : Piece(F, a, b)[i] = F[a + i]
BY DEF Piece

\* Two pieces of which one begins where the other ends are a piece.
LEMMA Join ==
    ASSUME NEW S, NEW F \in [Nat -> S], NEW a \in Nat, NEW b \in Nat, NEW c \in Nat
    PROVE  Piece(F, a, b) \o Piece(F, a + b, c) = Piece(F, a, b + c)
<1>p. \A x \in Nat, y \in Nat :
         /\ Piece(F, x, y) \in Seq(S) /\ Len(Piece(F, x, y)) = y
         /\ \A i \in 1 .. y : Piece(F, x, y)[i] = F[x + i]
  BY PieceSeq
<1> DEFINE s == Piece(F, a, b)
           t == Piece(F, a + b, c)
           u == Piece(F, a, b + c)
<1>0. a + b \in Nat /\ b + c \in Nat
  OBVIOUS
<1>1. /\ s \in Seq(S) /\ Len(s) = b
      /\ \A i \in 1 .. b : s[i] = F[a + i]
  BY <1>p
<1>2. /\ t \in Seq(S) /\ Len(t) = c
      /\ \A i \in 1 .. c : t[i] = F[a + b + i]
  BY <1>0, <1>p
<1>3. /\ u \in Seq(S) /\ Len(u) = b + c
      /\ \A i \in 1 .. b + c : u[i] = F[a + i]
  BY <1>0, <1>p
<1> HIDE DEF s, t, u
<1>4. /\ s \o t \in Seq(S) /\ Len(s \o t) = b + c
      /\ \A i \in 1 .. b + c : (s \o t)[i] = IF i <= b THEN s[i] ELSE t[i - b]
  BY <1>1, <1>2, ConcatProperties
<1>5. ASSUME NEW i \in 1 .. b + c PROVE (s \o t)[i] = u[i]
  <2>1. CASE i <= b
    BY <1>1, <1>3, <1>4, <2>1
  <2>2. CASE ~(i <= b)
    <3>1. i - b \in 1 .. c /\ a + b + (i - b) = a + i
      BY <2>2
    <3>2. (s \o t)[i] = t[i - b] /\ t[i - b] = F[a + b + (i - b)]
      BY <1>2, <1>4, <2>2, <3>1
    <3> QED
      BY <1>3, <3>1, <3>2
  <2> QED
    BY <2>1, <2>2
<1>6. s \o t = u
  BY <1>3, <1>4, <1>5, SeqEqual
<1> QED
  BY <1>6 DEF s, t, u

\* A piece of a piece.
LEMMA Cut ==
    ASSUME NEW S, NEW F \in [Nat -> S], NEW a \in Nat, NEW b \in Nat,
           NEW m \in Nat, NEW n \in m .. b
    PROVE  SubSeq(Piece(F, a, b), m + 1, n) = Piece(F, a + m, n - m)
<1>p. \A x \in Nat, y \in Nat :
         /\ Piece(F, x, y) \in Seq(S) /\ Len(Piece(F, x, y)) = y
         /\ \A i \in 1 .. y : Piece(F, x, y)[i] = F[x + i]
  BY PieceSeq
<1> DEFINE s == Piece(F, a, b)
           u == Piece(F, a + m, n - m)
<1>0. a + m \in Nat /\ n - m \in Nat
  OBVIOUS
<1>1. /\ s \in Seq(S) /\ Len(s) = b
      /\ \A i \in 1 .. b : s[i] = F[a + i]
  BY <1>p
<1>2. /\ u \in Seq(S) /\ Len(u) = n - m
      /\ \A i \in 1 .. n - m : u[i] = F[a + m + i]
  BY <1>0, <1>p
<1> HIDE DEF s, u
<1>3. \A i \in m + 1 .. n : s[i] \in S
  BY <1>1, ElementOfSeq
<1>4. /\ SubSeq(s, m + 1, n) \in Seq(S)
      /\ Len(SubSeq(s, m + 1, n)) = IF m + 1 <= n THEN n - (m + 1) + 1 ELSE 0
      /\ \A i \in 1 .. n - (m + 1) + 1 : SubSeq(s, m + 1, n)[i] = s[m + 1 + i - 1]
  BY <1>3, SubSeqProperties
<1>5. Len(SubSeq(s, m + 1, n)) = n - m
  BY <1>4
<1>6. ASSUME NEW i \in 1 .. n - m PROVE SubSeq(s, m + 1, n)[i] = u[i]
  <2>1. i \in 1 .. n - (m + 1) + 1 /\ m + 1 + i - 1 = m + i /\ m + i \in 1 .. b
    OBVIOUS
  <2>2. SubSeq(s, m + 1, n)[i] = s[m + i]
    BY <1>4, <2>1
  <2>3. s[m + i] = F[a + (m + i)] /\ a + (m + i) = a + m + i
    BY <1>1, <2>1
  <2> QED
    BY <1>2, <2>2, <2>3
<1>7. SubSeq(s, m + 1, n) = u
  BY <1>2, <1>4, <1>5, <1>6, SeqEqual
<1> QED
  BY <1>7 DEF s, u
-----------------------------------------------------------------------------
(***************************************************************************)
(* The context holds the first total bytes of the stream F: the whole      *)
(* blocks of them have been processed, the rest waits in the buffer.       *)
(***************************************************************************)
Holds(F) ==
    /\ state = Piece(F, 0, Whole(total))
    /\ \A j \in 0 .. (total % Block) - 1 : buffer[j] = F[Whole(total) + j + 1]

Buffer(S) == buffer \in [0 .. Block - 1 -> S]

\* The block that a piece which fills the buffer completes.
LEMMA BlockFilled ==
    ASSUME NEW S, NEW F \in [Nat -> S], total \in Nat, Buffer(S), Holds(F),
           NEW l \in Nat, total % Block > 0, l >= Block - (total % Block)
    PROVE  Bytes(Filled(total % Block,
                        SubSeq(Piece(F, total, l), 1, Block - (total % Block))))
             = Piece(F, Whole(total), Block)
<1> DEFINE left == total % Block
           head == SubSeq(Piece(F, total, l), 1, Block - left)
<1>0. left \in 1 .. Block - 1 /\ Block \in Nat /\ Whole(total) + left = total /\ Whole(total) \in Nat
  <2>1. left \in 0 .. Block - 1 /\ Whole(total) \in Nat
    BY Division
  <2>2. Whole(total) = total - left
    BY DEF Whole
  <2> QED
    BY <2>1, <2>2, BlockAssumption
<1>1. head = Piece(F, total, Block - left)
  <2>1. 0 \in Nat /\ Block - left \in 0 .. l
    BY <1>0
  <2>2. SubSeq(Piece(F, total, l), 0 + 1, Block - left) = Piece(F, total + 0, (Block - left) - 0)
    BY <2>1, Cut
  <2>3. total + 0 = total /\ (Block - left) - 0 = Block - left /\ 0 + 1 = 1
    BY <1>0
  <2> QED
    BY <2>2, <2>3
<1>2. /\ Len(head) = Block - left
      /\ \A i \in 1 .. Block - left : head[i] = F[total + i]
  <2>1. Block - left \in Nat
    BY <1>0
  <2>2. \A x \in Nat, y \in Nat :
          /\ Piece(F, x, y) \in Seq(S) /\ Len(Piece(F, x, y)) = y
          /\ \A i \in 1 .. y : Piece(F, x, y)[i] = F[x + i]
    BY PieceSeq
  <2> QED
    BY <1>1, <2>1, <2>2
<1> HIDE DEF head
<1>3. ASSUME NEW i \in 1 .. Block
      PROVE  Filled(left, head)[i - 1] = F[Whole(total) + i]
  <2>1. i - 1 \in 0 .. Block - 1
    BY <1>0
  <2>2. CASE i - 1 < left
    <3>1. i - 1 \in 0 .. left - 1 /\ i - 1 \notin left .. left + Len(head) - 1
      BY <1>0, <1>2, <2>1, <2>2
    <3>2. Filled(left, head)[i - 1] = buffer[i - 1]
      BY <2>1, <3>1 DEF Filled
    <3>3. buffer[i - 1] = F[Whole(total) + (i - 1) + 1]
      BY <3>1 DEF Holds
    <3>4. Whole(total) + (i - 1) + 1 = Whole(total) + i
      BY <1>0
    <3> QED
      BY <3>2, <3>3, <3>4
  <2>3. CASE ~(i - 1 < left)
    <3>1. /\ i - 1 \in left .. left + Len(head) - 1
          /\ (i - 1) - left + 1 \in 1 .. Block - left
          /\ total + ((i - 1) - left + 1) = Whole(total) + i
      BY <1>0, <1>2, <2>1, <2>3
    <3>2. Filled(left, head)[i - 1] = head[(i - 1) - left + 1]
      BY <2>1, <3>1 DEF Filled
    <3> QED
      BY <1>2, <3>1, <3>2
  <2> QED
    BY <2>2, <2>3
<1>4. Bytes(Filled(left, head)) = [i \in 1 .. Block |-> F[Whole(total) + i]]
  BY <1>3 DEF Bytes
<1> QED
  BY <1>4 DEF Piece, head

\* What is left of a piece begins the buffer, or goes on in it.
LEMMA RestKept ==
    ASSUME NEW S, NEW F \in [Nat -> S], Buffer(S), NEW at \in Nat,
           NEW a \in Nat, NEW n \in Nat, at + n <= Block
    PROVE  /\ Filled(at, Piece(F, a, n)) \in [0 .. Block - 1 -> S]
           /\ \A j \in at .. at + n - 1 : Filled(at, Piece(F, a, n))[j] = F[a + (j - at + 1)]
           /\ \A j \in 0 .. at - 1 : j < Block => Filled(at, Piece(F, a, n))[j] = buffer[j]
<1> DEFINE s == Piece(F, a, n)
<1>1. /\ Len(s) = n
      /\ \A i \in 1 .. n : s[i] = F[a + i]
  BY PieceSeq
<1> HIDE DEF s
<1>2. ASSUME NEW j \in at .. at + n - 1
      PROVE  j \in 0 .. Block - 1 /\ j - at + 1 \in 1 .. n /\ a + (j - at + 1) \in Nat
  BY BlockAssumption
<1>3. \A j \in at .. at + n - 1 : Filled(at, s)[j] = F[a + (j - at + 1)]
  BY <1>1, <1>2 DEF Filled
<1>4. \A j \in 0 .. at - 1 : j < Block => Filled(at, s)[j] = buffer[j]
  <2>1. SUFFICES ASSUME NEW j \in 0 .. at - 1, j < Block
                 PROVE  Filled(at, s)[j] = buffer[j]
    OBVIOUS
  <2>2. j \in 0 .. Block - 1 /\ j \notin at .. at + Len(s) - 1
    BY <2>1, <1>1, BlockAssumption
  <2> QED
    BY <2>2 DEF Filled
<1>5. Filled(at, s) \in [0 .. Block - 1 -> S]
  <2>1. SUFFICES ASSUME NEW j \in 0 .. Block - 1
                 PROVE  (IF j \in at .. at + Len(s) - 1 THEN s[j - at + 1] ELSE buffer[j]) \in S
    BY DEF Filled
  <2>2. CASE j \in at .. at + Len(s) - 1
    <3>1. j \in at .. at + n - 1
      BY <1>1, <2>2
    <3>2. s[j - at + 1] = F[a + (j - at + 1)] /\ a + (j - at + 1) \in Nat
      BY <1>1, <1>2, <3>1
    <3> QED
      BY <2>2, <3>2
  <2>3. CASE j \notin at .. at + Len(s) - 1
    BY <2>3 DEF Buffer
  <2> QED
    BY <2>2, <2>3
<1> QED
  BY <1>3, <1>4, <1>5 DEF s

\* sha256_update and the padding of sha256_finish go on with the stream.
LEMMA AbsorbHolds ==
    ASSUME NEW S, NEW F \in [Nat -> S], total \in Nat, Buffer(S), Holds(F),
           NEW l \in Nat, Absorb(Piece(F, total, l))
    PROVE  total' = total + l /\ Buffer(S)' /\ Holds(F)'
<1> DEFINE input == Piece(F, total, l)
           left == total % Block
           fill == Block - left
           full == left > 0 /\ l >= fill
           used == IF full THEN fill ELSE 0
           rest == l - used
           blocks == (rest \div Block) * Block
           kept == SubSeq(input, used + blocks + 1, l)
           first == IF full THEN Bytes(Filled(left, SubSeq(input, 1, fill))) ELSE <<>>
           middle == SubSeq(input, used + 1, used + blocks)
           at == IF full THEN 0 ELSE left
           w == Whole(total)
<1>p. \A x \in Nat, y \in Nat :
         /\ Piece(F, x, y) \in Seq(S) /\ Len(Piece(F, x, y)) = y
         /\ \A i \in 1 .. y : Piece(F, x, y)[i] = F[x + i]
  BY PieceSeq
<1>1. Len(input) = l
  BY <1>p
<1>2. /\ total' = total + l
      /\ state' = state \o first \o middle
      /\ buffer' = Filled(at, kept)
  BY <1>1 DEF Absorb
<1>3. /\ left \in 0 .. Block - 1 /\ w \in Nat /\ w + left = total
      /\ total \div Block \in Nat /\ w = Block * (total \div Block)
  <2>1. /\ left \in 0 .. Block - 1 /\ w \in Nat
        /\ total \div Block \in Nat /\ w = Block * (total \div Block)
    BY Division
  <2>2. w = total - left
    BY DEF Whole
  <2> QED
    BY <2>1, <2>2, BlockAssumption
<1>4. /\ used \in 0 .. l /\ rest \in Nat /\ used \in Nat
      /\ rest \div Block \in Nat /\ rest % Block \in 0 .. Block - 1
      /\ blocks \in 0 .. rest /\ blocks = Block * (rest \div Block)
      /\ rest - blocks = rest % Block
  <2>1. used \in 0 .. l /\ rest \in Nat /\ used \in Nat
    BY <1>3, BlockAssumption
  <2> HIDE DEF used, rest
  <2>2. /\ rest % Block \in 0 .. Block - 1 /\ rest \div Block \in Nat
        /\ Whole(rest) = Block * (rest \div Block) /\ Whole(rest) \in Nat
    BY <2>1, Division
  <2>3. Whole(rest) = rest - (rest % Block)
    BY DEF Whole
  <2>4. blocks = Block * (rest \div Block)
    BY <2>2, BlockAssumption
  <2> HIDE DEF blocks
  <2> QED
    BY <2>1, <2>2, <2>3, <2>4, BlockAssumption
<1>5. middle = Piece(F, total + used, blocks)
  <2>0. rest = l - used
    OBVIOUS
  <2> HIDE DEF used, rest, blocks
  <2>1. used \in Nat /\ used + blocks \in used .. l /\ (used + blocks) - used = blocks
    BY <1>4, <2>0
  <2>2. \A m \in Nat : \A n \in m .. l :
          SubSeq(input, m + 1, n) = Piece(F, total + m, n - m)
    BY Cut
  <2> HIDE DEF input
  <2> QED
    BY <2>1, <2>2
<1>6. kept = Piece(F, total + used + blocks, rest - blocks)
  <2>1. rest = l - used
    OBVIOUS
  <2> HIDE DEF used, rest, blocks
  <2>2. /\ used + blocks \in Nat /\ l \in used + blocks .. l
        /\ l - (used + blocks) = rest - blocks
        /\ total + (used + blocks) = total + used + blocks
    BY <1>4, <2>1
  <2>3. \A m \in Nat : \A n \in m .. l :
          SubSeq(input, m + 1, n) = Piece(F, total + m, n - m)
    BY Cut
  <2> HIDE DEF input
  <2>4. SubSeq(input, (used + blocks) + 1, l) = Piece(F, total + (used + blocks), l - (used + blocks))
    BY <2>2, <2>3
  <2> QED
    BY <2>2, <2>4
\* What is in the buffer afterwards, and where it comes from.
<1>7. /\ buffer' \in [0 .. Block - 1 -> S]
      /\ \A j \in at .. at + (rest - blocks) - 1 :
           buffer'[j] = F[total + used + blocks + (j - at + 1)]
      /\ \A j \in 0 .. at - 1 : buffer'[j] = buffer[j]
  <2>a. \/ at = 0
        \/ at = left /\ rest = l /\ left + l < Block
    BY <1>3, BlockAssumption
  <2> HIDE DEF kept, used, rest, blocks, at, left, w
  <2>1. /\ at \in 0 .. Block - 1 /\ at + (rest - blocks) <= Block
        /\ total + used + blocks \in Nat /\ rest - blocks \in Nat
    <3>1. Block \in Nat /\ Block > 0
      BY BlockAssumption
    <3>2. CASE at = 0
      BY <1>3, <1>4, <3>1, <3>2
    <3>3. CASE at = left /\ rest = l /\ left + l < Block
      BY <1>3, <1>4, <3>1, <3>3
    <3> QED
      BY <2>a, <3>2, <3>3
  <2>2. at \in Nat /\ \A j \in 0 .. at - 1 : j < Block
    BY <2>1, BlockAssumption
  <2>3. /\ Filled(at, kept) \in [0 .. Block - 1 -> S]
        /\ \A j \in at .. at + (rest - blocks) - 1 :
             Filled(at, kept)[j] = F[total + used + blocks + (j - at + 1)]
        /\ \A j \in 0 .. at - 1 : j < Block => Filled(at, kept)[j] = buffer[j]
    <3>1. \A x \in Nat, a \in Nat, n \in Nat : x + n <= Block =>
            /\ Filled(x, Piece(F, a, n)) \in [0 .. Block - 1 -> S]
            /\ \A j \in x .. x + n - 1 : Filled(x, Piece(F, a, n))[j] = F[a + (j - x + 1)]
            /\ \A j \in 0 .. x - 1 : j < Block => Filled(x, Piece(F, a, n))[j] = buffer[j]
      <4>1. SUFFICES ASSUME NEW x \in Nat, NEW a \in Nat, NEW n \in Nat, x + n <= Block
            PROVE  /\ Filled(x, Piece(F, a, n)) \in [0 .. Block - 1 -> S]
                   /\ \A j \in x .. x + n - 1 : Filled(x, Piece(F, a, n))[j] = F[a + (j - x + 1)]
                   /\ \A j \in 0 .. x - 1 : j < Block => Filled(x, Piece(F, a, n))[j] = buffer[j]
        OBVIOUS
      <4> QED
        BY <4>1, RestKept
    <3> DEFINE from == total + used + blocks
               many == rest - blocks
    <3>2. /\ at \in Nat /\ from \in Nat /\ many \in Nat /\ at + many <= Block
          /\ kept = Piece(F, from, many)
      BY <1>6, <2>1, <2>2
    <3> HIDE DEF from, many
    <3>3. /\ Filled(at, kept) \in [0 .. Block - 1 -> S]
          /\ \A j \in at .. at + many - 1 : Filled(at, kept)[j] = F[from + (j - at + 1)]
          /\ \A j \in 0 .. at - 1 : j < Block => Filled(at, kept)[j] = buffer[j]
      BY <3>1, <3>2
    <3> QED
      BY <3>3 DEF from, many
  <2> QED
    BY <1>2, <2>2, <2>3
\* Three cases: where the whole blocks end, and what has been processed.
<1> DEFINE Goal(v) == /\ v \in Nat
                      /\ Whole(total + l) = v
                      /\ state' = Piece(F, 0, v)
                      /\ \A j \in 0 .. ((total + l) % Block) - 1 : buffer'[j] = F[v + j + 1]
<1>8. /\ full => used = fill /\ at = 0 /\ first = Bytes(Filled(left, SubSeq(input, 1, fill)))
      /\ ~full => used = 0 /\ at = left /\ first = <<>>
      /\ fill = Block - left /\ rest = l - used
      /\ full <=> left > 0 /\ l >= fill
  OBVIOUS
<1>9. state = Piece(F, 0, w) /\ \A j \in 0 .. left - 1 : buffer[j] = F[w + j + 1]
  BY DEF Holds
<1>10. full => first = Piece(F, w, Block)
  <2>1. full => left > 0 /\ l >= Block - left
    OBVIOUS
  <2> QED
    BY <1>8, <2>1, BlockFilled
<1> HIDE DEF left, fill, full, used, rest, blocks, kept, first, middle, at, w, input
<1>11. \A n \in Nat : first = Piece(F, w, n) /\ middle = Piece(F, w + n, blocks)
                       => state' = Piece(F, 0, w + n + blocks)
  <2>1. SUFFICES ASSUME NEW n \in Nat, first = Piece(F, w, n), middle = Piece(F, w + n, blocks)
                 PROVE  state' = Piece(F, 0, w + n + blocks)
    OBVIOUS
  <2>2. w \in Nat /\ w + n \in Nat /\ blocks \in Nat /\ 0 + w = w /\ 0 + (w + n) = w + n
    BY <1>3, <1>4
  <2>3. \A a \in Nat, b \in Nat, c \in Nat :
          Piece(F, a, b) \o Piece(F, a + b, c) = Piece(F, a, b + c)
    BY Join
  <2>4. Piece(F, 0, w) \o Piece(F, 0 + w, n) = Piece(F, 0, w + n)
    BY <2>2, <2>3
  <2>5. Piece(F, 0, w + n) \o Piece(F, 0 + (w + n), blocks) = Piece(F, 0, (w + n) + blocks)
    BY <2>2, <2>3
  <2>6. state' = (Piece(F, 0, w) \o Piece(F, w, n)) \o Piece(F, w + n, blocks)
    BY <1>2, <1>9, <2>1
  <2> QED
    BY <2>2, <2>4, <2>5, <2>6
<1>12. \A x \in Nat : Piece(F, x, 0) = <<>>
  BY DEF Piece
<1>13. ASSUME full PROVE \E v : Goal(v)
  <2> DEFINE k == (total \div Block) + 1 + (rest \div Block)
  <2>1. /\ at = 0 /\ total + used = w + Block /\ Block \in Nat
        /\ total + l = w + Block + blocks + (rest % Block)
        /\ w + Block + blocks = total + used + blocks
    BY <1>3, <1>4, <1>8, <1>13, BlockAssumption
  <2>2. state' = Piece(F, 0, w + Block + blocks)
    BY <1>5, <1>10, <1>11, <1>13, <2>1
  <2>3. k \in Nat /\ w + Block + blocks = Block * k
    BY <1>3, <1>4, <2>1
  <2> HIDE DEF k
  <2>4. (total + l) % Block = rest % Block /\ Whole(total + l) = Block * k
    <3>1. total + l = Block * k + (rest % Block)
      BY <2>1, <2>3
    <3>2. \A q \in Nat, r \in 0 .. Block - 1 :
            (Block * q + r) % Block = r /\ Whole(Block * q + r) = Block * q
      BY DivisionUnique
    <3> QED
      BY <1>4, <2>3, <3>1, <3>2
  <2>5. Block * k \in Nat
    BY <2>1, <2>3
  <2>6. \A j \in 0 .. (rest % Block) - 1 : buffer'[j] = F[(Block * k) + j + 1]
    <3>1. SUFFICES ASSUME NEW j \in 0 .. (rest % Block) - 1
                   PROVE  buffer'[j] = F[(Block * k) + j + 1]
      OBVIOUS
    <3>2. /\ j \in at .. at + (rest - blocks) - 1
          /\ total + used + blocks + (j - at + 1) = (Block * k) + j + 1
      BY <1>3, <1>4, <2>1, <2>3, <2>5
    <3> QED
      BY <1>7, <3>2
  <2>7. Goal(Block * k)
    BY <2>2, <2>3, <2>4, <2>5, <2>6
  <2> QED
    BY <2>7
<1>14. ASSUME ~full /\ left = 0 PROVE \E v : Goal(v)
  <2> DEFINE k == (total \div Block) + (rest \div Block)
  <2>1. /\ at = 0 /\ used = 0 /\ total = w /\ Block \in Nat
        /\ total + l = w + blocks + (rest % Block)
    BY <1>3, <1>4, <1>8, <1>14, BlockAssumption
  <2>2. state' = Piece(F, 0, w + 0 + blocks)
    <3>1. total + used = w + 0 /\ 0 \in Nat
      BY <1>3, <2>1
    <3> QED
      BY <1>3, <1>5, <1>8, <1>11, <1>12, <1>14, <3>1
  <2>3. k \in Nat /\ w + blocks = Block * k /\ w + 0 + blocks = w + blocks
    BY <1>3, <1>4, <2>1
  <2> HIDE DEF k
  <2>4. (total + l) % Block = rest % Block /\ Whole(total + l) = Block * k
    <3>1. total + l = Block * k + (rest % Block)
      BY <2>1, <2>3
    <3>2. \A q \in Nat, r \in 0 .. Block - 1 :
            (Block * q + r) % Block = r /\ Whole(Block * q + r) = Block * q
      BY DivisionUnique
    <3> QED
      BY <1>4, <2>3, <3>1, <3>2
  <2>5. Block * k \in Nat
    BY <2>1, <2>3
  <2>6. \A j \in 0 .. (rest % Block) - 1 : buffer'[j] = F[(Block * k) + j + 1]
    <3>1. SUFFICES ASSUME NEW j \in 0 .. (rest % Block) - 1
                   PROVE  buffer'[j] = F[(Block * k) + j + 1]
      OBVIOUS
    <3>2. /\ j \in at .. at + (rest - blocks) - 1
          /\ total + used + blocks + (j - at + 1) = (Block * k) + j + 1
      BY <1>3, <1>4, <2>1, <2>3, <2>5
    <3> QED
      BY <1>7, <3>2
  <2>7. Goal(Block * k)
    BY <2>2, <2>3, <2>4, <2>5, <2>6
  <2> QED
    BY <2>7
<1>15. ASSUME ~full /\ left > 0 PROVE \E v : Goal(v)
  <2>1. /\ at = left /\ used = 0 /\ rest = l /\ Block \in Nat /\ left + l \in 0 .. Block - 1
    BY <1>3, <1>4, <1>8, <1>15, BlockAssumption
  <2>2. blocks = 0
    <3>1. blocks < Block * 1
      BY <1>3, <1>4, <2>1
    <3>2. rest \div Block < 1
      BY <1>4, <2>1, <3>1
    <3>3. rest \div Block = 0
      BY <1>4, <3>2
    <3> QED
      BY <1>4, <2>1, <3>3
  <2>3. state' = Piece(F, 0, w)
    <3>1. total + used \in Nat /\ w + 0 \in Nat /\ 0 \in Nat /\ w + 0 + blocks = w
      BY <1>3, <2>1, <2>2
    <3>2. middle = Piece(F, w + 0, blocks) /\ first = Piece(F, w, 0)
      BY <1>3, <1>5, <1>8, <1>12, <1>15, <2>2, <3>1
    <3>3. state' = Piece(F, 0, w + 0 + blocks)
      BY <1>11, <3>1, <3>2
    <3> QED
      BY <3>1, <3>3
  <2>4. (total + l) % Block = left + l /\ Whole(total + l) = w
    <3>1. total + l = Block * (total \div Block) + (left + l)
      BY <1>3, <2>1
    <3> QED
      BY <1>3, <2>1, <3>1, DivisionUnique
  <2>5. \A j \in 0 .. (left + l) - 1 : buffer'[j] = F[w + j + 1]
    <3>1. SUFFICES ASSUME NEW j \in 0 .. (left + l) - 1
                   PROVE  buffer'[j] = F[w + j + 1]
      OBVIOUS
    <3>2. CASE j < left
      <4>1. j \in 0 .. at - 1 /\ j \in 0 .. left - 1
        BY <1>3, <2>1, <3>2
      <4> QED
        BY <1>7, <1>9, <4>1
    <3>3. CASE ~(j < left)
      <4>1. /\ j \in at .. at + (rest - blocks) - 1
            /\ total + used + blocks + (j - at + 1) = w + j + 1
        BY <1>3, <2>1, <2>2, <3>3
      <4> QED
        BY <1>7, <4>1
    <3> QED
      BY <3>2, <3>3
  <2>6. Goal(w)
    BY <1>3, <2>3, <2>4, <2>5
  <2> QED
    BY <2>6
<1>16. \E v : Goal(v)
  BY <1>3, <1>13, <1>14, <1>15
<1>17. total' = total + l
  BY <1>2
<1> QED
  BY <1>7, <1>16, <1>17 DEF Holds, Buffer, Whole
-----------------------------------------------------------------------------
(***************************************************************************)
(* The padding.                                                            *)
(***************************************************************************)
LEMMA PaddedIs ==
    ASSUME NEW n \in Nat, NEW p \in Nat,
           Block * p \in n + 1 + LenSize .. n + LenSize + Block
    PROVE  Reference!Padded(n) = Block * p
<1>1. Block \in Nat /\ Block > 0 /\ LenSize \in Nat
  BY BlockAssumption
<1>2. Block * p \in Nat /\ (Block * p) % Block = 0
  <2>1. 0 \in 0 .. Block - 1 /\ Block * p + 0 = Block * p /\ Block * p \in Nat
    BY <1>1
  <2>2. \A q \in Nat, r \in 0 .. Block - 1 : (Block * q + r) % Block = r
    BY DivisionUnique
  <2> QED
    BY <2>1, <2>2
<1>3. ASSUME NEW k \in n + 1 + LenSize .. n + LenSize + Block, k % Block = 0
      PROVE  k = Block * p
  <2>1. k \in Nat /\ n + LenSize \in Nat
    BY <1>1
  <2>2. k \div Block \in Nat /\ Whole(k) = Block * (k \div Block)
    BY <2>1, Division
  <2>3. Whole(k) = k
    BY <1>3, <2>1 DEF Whole
  <2>4. /\ Block * (k \div Block) \in (n + LenSize) + 1 .. (n + LenSize) + Block
        /\ Block * p \in (n + LenSize) + 1 .. (n + LenSize) + Block
    BY <1>1, <1>2, <2>2, <2>3
  <2>5. \A x \in Nat, y \in Nat, m \in Nat :
          Block * x \in m + 1 .. m + Block /\ Block * y \in m + 1 .. m + Block => x = y
    BY Multiples
  <2>6. k \div Block = p
    BY <2>1, <2>2, <2>4, <2>5
  <2> QED
    BY <2>2, <2>3, <2>6
<1> QED
  BY <1>2, <1>3 DEF Reference!Padded

\* sha256_finish pads as the standard does.
LEMMA PaddingSame ==
    ASSUME total \in Nat
    PROVE  /\ Padding = Reference!Padding(total)
           /\ \E p \in Nat : /\ Reference!Padded(total) = Block * p
                             /\ Block * p \in total + 1 .. total + LenSize + Block
<1> DEFINE last == total % Block
           padn == IF last < Block - LenSize THEN Block - LenSize - last
                                             ELSE 2 * Block - LenSize - last
           p == IF last < Block - LenSize THEN (total \div Block) + 1
                                          ELSE (total \div Block) + 2
<1>1. /\ last \in 0 .. Block - 1 /\ total \div Block \in Nat
      /\ total = Block * (total \div Block) + last
  <2>1. /\ last \in 0 .. Block - 1 /\ total \div Block \in Nat
        /\ Whole(total) = Block * (total \div Block)
    BY Division
  <2>2. Whole(total) = total - last
    BY DEF Whole
  <2> HIDE DEF last
  <2> QED
    BY <2>1, <2>2, BlockAssumption
<1>2. /\ p \in Nat /\ Block * p = total + padn + LenSize
      /\ Block * p \in total + 1 + LenSize .. total + LenSize + Block
  <2> HIDE DEF last
  <2>1. CASE last < Block - LenSize
    BY <1>1, <2>1, BlockAssumption
  <2>2. CASE ~(last < Block - LenSize)
    BY <1>1, <2>2, BlockAssumption
  <2> QED
    BY <2>1, <2>2
<1>3. Padding = [ i \in 1 .. padn + LenSize |->
                    IF i = 1 THEN Reference!Marker
                    ELSE IF i <= padn THEN Reference!Zero
                    ELSE Reference!LengthByte(total, i - padn) ]
  BY DEF Padding
<1> HIDE DEF last, padn, p
<1>4. Reference!Padded(total) = Block * p
  BY <1>2, PaddedIs
<1>5. /\ Reference!Padded(total) - total = padn + LenSize
      /\ Reference!Padded(total) - total - LenSize = padn
  <2>1. padn \in Int
    BY <1>1, BlockAssumption DEF padn
  <2> QED
    BY <1>2, <1>4, <2>1, BlockAssumption
<1>6. Padding = Reference!Padding(total)
  BY <1>3, <1>5 DEF Reference!Padding
<1>7. Block * p \in total + 1 .. total + LenSize + Block
  BY <1>2, BlockAssumption
<1> QED
  BY <1>2, <1>4, <1>6, <1>7
-----------------------------------------------------------------------------
(***************************************************************************)
(* The invariant: while the context is open it holds the message.          *)
(***************************************************************************)
Message == [i \in Nat |-> Reference!Byte(i)]

AnyByte == {Reference!Byte(i) : i \in Nat} \cup {Reference!Marker, Reference!Zero}
             \cup {Reference!LengthByte(n, i) : n \in Nat, i \in Int}

IInv ==
    /\ total \in Nat
    /\ Buffer(AnyByte)
    /\ open => Holds(Message)

LEMMA MessageBytes == Message \in [Nat -> AnyByte]
BY DEF Message, AnyByte

LEMMA EmptyHolds ==
    ASSUME total' = 0, state' = <<>>
    PROVE  Holds(Message)'
<1>1. total' % Block = 0 /\ Whole(total') = 0
  BY BlockAssumption DEF Whole
<1>2. Piece(Message, 0, 0) = <<>>
  BY DEF Piece
<1> QED
  BY <1>1, <1>2 DEF Holds, Whole

LEMMA UpdateHolds ==
    ASSUME IInv, NEW n \in Nat, sha256_update(n)
    PROVE  total' = total + n /\ Buffer(AnyByte)' /\ Holds(Message)'
<1>1. [i \in 1 .. n |-> Reference!Byte(total + i)] = Piece(Message, total, n)
  BY DEF Piece, Message, IInv
<1>2. Absorb(Piece(Message, total, n))
  BY <1>1 DEF sha256_update
<1>3. open /\ total \in Nat
  BY DEF sha256_update, IInv
<1>4. Holds(Message) /\ Buffer(AnyByte)
  BY <1>3 DEF IInv
<1>5. Message \in [Nat -> AnyByte]
  BY MessageBytes
<1> QED
  BY <1>2, <1>3, <1>4, <1>5, AbsorbHolds

\* After sha256_finish the state is of the padded message.
LEMMA FinishHolds ==
    ASSUME IInv, sha256_finish
    PROVE  total' \in Nat /\ Buffer(AnyByte)' /\ digest' = Reference!Hashed(total)
<1>1. open /\ total \in Nat
  BY DEF sha256_finish, IInv
<1>2. Holds(Message) /\ Buffer(AnyByte)
  BY <1>1 DEF IInv
<1>3. PICK T \in Nat : T = total
  BY <1>1
<1>4. /\ Padding = Reference!Padding(T)
      /\ \E p \in Nat : /\ Reference!Padded(T) = Block * p
                        /\ Block * p \in T + 1 .. T + LenSize + Block
  BY <1>3, PaddingSame
<1>5. PICK p \in Nat : /\ Reference!Padded(T) = Block * p
                       /\ Block * p \in T + 1 .. T + LenSize + Block
  BY <1>4
<1> DEFINE pad == Reference!Padding(T)
           l == Block * p - T
           \* the message and the padding, as one stream
           F == [i \in Nat |-> IF i <= T THEN Reference!Byte(i)
                               ELSE IF i - T <= l THEN pad[i - T]
                               ELSE Reference!Marker]
<1>6. l \in Nat /\ Block * p \in Nat /\ T + l = Block * p
  BY <1>5, BlockAssumption
<1>7. /\ pad = [i \in 1 .. l |-> pad[i]]
      /\ \A i \in 1 .. l : pad[i] \in AnyByte
  <2>1. pad = [ i \in 1 .. l |->
                  IF i = 1 THEN Reference!Marker
                  ELSE IF i <= l - LenSize THEN Reference!Zero
                  ELSE Reference!LengthByte(T, i - (l - LenSize)) ]
    BY <1>5 DEF Reference!Padding
  <2>2. \A i \in 1 .. l : i - (l - LenSize) \in Int
    BY <1>6, BlockAssumption
  <2> HIDE DEF pad, l
  <2> QED
    BY <2>1, <2>2 DEF AnyByte
<1>8. F \in [Nat -> AnyByte]
  <2> HIDE DEF pad, l
  <2>1. SUFFICES ASSUME NEW i \in Nat
                 PROVE  (IF i <= T THEN Reference!Byte(i)
                         ELSE IF i - T <= l THEN pad[i - T]
                         ELSE Reference!Marker) \in AnyByte
    OBVIOUS
  <2>2. CASE i <= T
    BY <2>2 DEF AnyByte
  <2>3. CASE ~(i <= T) /\ i - T <= l
    <3>1. i - T \in 1 .. l
      BY <1>6, <2>3
    <3> QED
      BY <1>7, <2>3, <3>1
  <2>4. CASE ~(i <= T) /\ ~(i - T <= l)
    BY <2>4 DEF AnyByte
  <2> QED
    BY <2>2, <2>3, <2>4
<1>9. /\ \A i \in 1 .. T : F[i] = Reference!Byte(i)
      /\ \A i \in 1 .. l : F[T + i] = pad[i]
  <2> HIDE DEF pad, l
  <2>1. \A i \in 1 .. l : T + i \in Nat /\ ~(T + i <= T) /\ (T + i) - T = i /\ i <= l
    BY <1>6
  <2> QED
    BY <2>1
<1>10. pad = Piece(F, T, l)
  <2> HIDE DEF pad, l, F
  <2> QED
    BY <1>7, <1>9 DEF Piece
<1>11. Reference!Prefix(T) = Piece(F, 0, T)
  <2> HIDE DEF pad, l, F
  <2> QED
    BY <1>9 DEF Piece, Reference!Prefix
<1>12. Holds(F)
  <2> HIDE DEF pad, l, F
  <2>1. /\ Whole(T) \in 0 .. T /\ T % Block \in 0 .. Block - 1 /\ Whole(T) + (T % Block) = T
    <3>1. Whole(T) \in Nat /\ T % Block \in 0 .. Block - 1
      BY Division
    <3>2. Whole(T) = T - (T % Block)
      BY DEF Whole
    <3> QED
      BY <3>1, <3>2, BlockAssumption
  <2>2. \A i \in 1 .. T : Message[i] = F[i]
    BY <1>9 DEF Message
  <2>3. Piece(Message, 0, Whole(T)) = Piece(F, 0, Whole(T))
    BY <2>1, <2>2 DEF Piece
  <2>4. ASSUME NEW j \in 0 .. (T % Block) - 1
        PROVE  Message[Whole(T) + j + 1] = F[Whole(T) + j + 1]
    <3>1. Whole(T) + j + 1 \in 1 .. T
      BY <2>1
    <3> QED
      BY <2>2, <3>1
  <2> QED
    BY <1>2, <1>3, <2>3, <2>4 DEF Holds
<1>13. total' = T + l /\ Buffer(AnyByte)' /\ Holds(F)'
  <2>1. Absorb(Piece(F, total, l))
    BY <1>3, <1>4, <1>10 DEF sha256_finish
  <2> HIDE DEF pad, l, F
  <2> QED
    BY <1>1, <1>2, <1>3, <1>6, <1>8, <1>12, <2>1, AbsorbHolds
<1>14. state' = Piece(F, 0, T + l)
  <2>1. 0 \in 0 .. Block - 1 /\ Block * p + 0 = Block * p
    BY <1>6, BlockAssumption
  <2>2. \A q \in Nat, r \in 0 .. Block - 1 : Whole(Block * q + r) = Block * q
    BY DivisionUnique
  <2>3. Whole(Block * p) = Block * p
    BY <2>1, <2>2
  <2> HIDE DEF pad, l, F
  <2> QED
    BY <1>6, <1>13, <2>3 DEF Holds, Whole
<1>15. Reference!Hashed(T) = Piece(F, 0, T + l)
  <2> HIDE DEF l, F
  <2>1. \A a \in Nat, b \in Nat, c \in Nat :
          Piece(F, a, b) \o Piece(F, a + b, c) = Piece(F, a, b + c)
    BY <1>8, Join
  <2>2. Piece(F, 0, T) \o Piece(F, T, l) = Piece(F, 0, T + l)
    <3>1. 0 \in Nat /\ 0 + T = T
      OBVIOUS
    <3>2. Piece(F, 0, T) \o Piece(F, 0 + T, l) = Piece(F, 0, T + l)
      BY <1>6, <2>1, <3>1
    <3> QED
      BY <3>1, <3>2
  <2> QED
    BY <1>10, <1>11, <2>2 DEF Reference!Hashed
<1>16. digest' = state'
  BY DEF sha256_finish
<1> QED
  BY <1>1, <1>3, <1>6, <1>13, <1>14, <1>15, <1>16

\* sha256_nofinish gives the midstate of the message.
LEMMA MidstateIs ==
    ASSUME IInv, open
    PROVE  state = Reference!Midstate(total)
<1>1. state = Piece(Message, 0, Whole(total)) /\ total \in Nat
  BY DEF IInv, Holds
<1>2. Whole(total) \in Nat
  BY <1>1, Division
<1>3. Piece(Message, 0, Whole(total)) = [i \in 1 .. Whole(total) |-> Reference!Byte(i)]
  BY <1>2 DEF Piece, Message
<1> QED
  BY <1>1, <1>3 DEF Reference!Midstate, Reference!Prefix, Whole
-----------------------------------------------------------------------------
LEMMA IInvInit == Init => IInv
<1>1. SUFFICES ASSUME Init PROVE IInv
  OBVIOUS
<1>2. total % Block = 0 /\ Whole(total) = 0
  BY <1>1, BlockAssumption DEF Init, Whole
<1>3. Piece(Message, 0, 0) = <<>>
  BY DEF Piece
<1>4. Holds(Message)
  BY <1>1, <1>2, <1>3 DEF Init, Holds
<1>5. Buffer(AnyByte) /\ total \in Nat
  BY <1>1 DEF Init, Buffer, AnyByte
<1> QED
  BY <1>4, <1>5 DEF IInv

LEMMA IInvNext == IInv /\ [Next]_vars => IInv'
<1>1. SUFFICES ASSUME IInv, [Next]_vars PROVE IInv'
  OBVIOUS
<1>2. CASE sha256_init
  <2>1. Holds(Message)'
    BY <1>2, EmptyHolds DEF sha256_init
  <2> QED
    BY <1>1, <1>2, <2>1 DEF sha256_init, IInv, Buffer
<1>3. ASSUME NEW n \in Pieces, sha256_update(n) PROVE IInv'
  <2>1. n \in Nat /\ total + n \in Nat
    BY <1>1, PiecesAssumption DEF IInv
  <2> QED
    BY <1>1, <1>3, <2>1, UpdateHolds DEF IInv
<1>4. CASE sha256_nofinish
  BY <1>1, <1>4 DEF sha256_nofinish, ctx, IInv, Buffer, Holds
<1>5. CASE sha256_finish
  <2>1. open' = FALSE
    BY <1>5 DEF sha256_finish
  <2> QED
    BY <1>1, <1>5, <2>1, FinishHolds DEF IInv
<1>6. CASE UNCHANGED vars
  BY <1>1, <1>6 DEF vars, ctx, IInv, Buffer, Holds
<1> QED
  BY <1>1, <1>2, <1>3, <1>4, <1>5, <1>6 DEF Next

LEMMA StepImplements ==
    IInv /\ [Next]_vars => [Reference!Next]_<<total, digest>>
<1>1. SUFFICES ASSUME IInv, [Next]_vars PROVE [Reference!Next]_<<total, digest>>
  OBVIOUS
<1>2. CASE sha256_init
  BY <1>2 DEF sha256_init, Reference!Next, Reference!New
<1>3. ASSUME NEW n \in Pieces, sha256_update(n) PROVE Reference!Next
  <2>1. n \in Nat
    BY PiecesAssumption
  <2>2. total' = total + n
    BY <1>1, <1>3, <2>1, UpdateHolds
  <2>3. total + n <= MaxTotal /\ digest' = digest
    BY <1>3 DEF sha256_update
  <2> QED
    BY <2>2, <2>3 DEF Reference!Next, Reference!Update
<1>4. CASE sha256_nofinish
  <2>1. open /\ digest' = state /\ total' = total
    BY <1>4 DEF sha256_nofinish, ctx
  <2> QED
    BY <1>1, <2>1, MidstateIs DEF Reference!Next, Reference!NoFinish
<1>5. CASE sha256_finish
  BY <1>1, <1>5, FinishHolds DEF Reference!Next, Reference!Finish
<1>6. CASE UNCHANGED vars
  BY <1>6 DEF vars, ctx
<1> QED
  BY <1>1, <1>2, <1>3, <1>4, <1>5, <1>6 DEF Next

(***************************************************************************)
(* sha256.c implements the standard: however sha256_update is called       *)
(* between sha256_init and sha256_finish, for blocks and lengths of any    *)
(* size and messages of any length below the bound, the digest the caller  *)
(* gets is of the whole message, padded.                                   *)
(***************************************************************************)
THEOREM StreamImplements == Spec => DigestsMessage
<1>1. Init => Reference!Init
  BY DEF Init, Reference!Init
<1> QED
  BY <1>1, IInvInit, IInvNext, StepImplements, PTL DEF Spec, DigestsMessage, Reference!Spec
=============================================================================
