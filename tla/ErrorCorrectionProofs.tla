------------------------- MODULE ErrorCorrectionProofs -------------------------
(***************************************************************************)
(* Proof that corrections are right (ErrorCorrection), for any payloads, up*)
(* to four errors and any address.                                         *)
(*                                                                         *)
(* What is special about the polynomial are finitely many remainders, of   *)
(* which TLC computes what is assumed here (FirstRemainders, RemaindersOdd,*)
(* RemaindersNoCodes, RemaindersDiffer).  Checksums are linear, so that an *)
(* error changes that of any message by the remainder that belongs to its  *)
(* place.  One error is told from two or four by the number of terms, which*)
(* is odd or even, and from three because no two pairs of remainders have  *)
(* the same sum.                                                           *)
(***************************************************************************)
EXTENDS Receiver, FiniteSetTheorems, TLAPS

-------------------------------------------------------------------------------
(* Checksums are linear                                                       *)

\* The bits of a message that count for one bit of its checksum.
Counting(msg, bits, i) == {p \in msg : p < bits /\ i \in Powers[bits - p]}

\* Of the sum of two sets, as many are counted as of both, up to an even number.
LEMMA OddXor ==
    ASSUME NEW X, NEW Y, IsFiniteSet(X), IsFiniteSet(Y)
    PROVE  /\ IsFiniteSet(Xor(X, Y))
           /\ Cardinality(Xor(X, Y)) % 2 = 1 <=> (Cardinality(X) % 2 = 1) # (Cardinality(Y) % 2 = 1)
<1>1. /\ IsFiniteSet(X \ Y) /\ IsFiniteSet(Y \ X) /\ IsFiniteSet(X \cap Y)
      /\ Cardinality(X \ Y) = Cardinality(X) - Cardinality(X \cap Y)
      /\ Cardinality(Y \ X) = Cardinality(Y) - Cardinality(X \cap Y)
  <2>1. X \cap Y = Y \cap X
    OBVIOUS
  <2>2. IsFiniteSet(X \ Y) /\ Cardinality(X \ Y) = Cardinality(X) - Cardinality(X \cap Y)
    BY FS_Difference
  <2>3. IsFiniteSet(Y \ X) /\ Cardinality(Y \ X) = Cardinality(Y) - Cardinality(Y \cap X)
    BY FS_Difference
  <2>4. IsFiniteSet(X \cap Y)
    BY FS_Intersection
  <2>5. QED BY <2>1, <2>2, <2>3, <2>4
<1>2. (X \ Y) \cap (Y \ X) = {}
  OBVIOUS
<1>3. /\ IsFiniteSet(Xor(X, Y))
      /\ Cardinality(Xor(X, Y)) = Cardinality(X \ Y) + Cardinality(Y \ X) - 0
  BY <1>1, <1>2, FS_Union, FS_EmptySet DEF Xor
<1>4. Cardinality(X) \in Nat /\ Cardinality(Y) \in Nat /\ Cardinality(X \cap Y) \in Nat
  BY <1>1, FS_CardinalityType
<1>5. \A a, b, c \in Nat : (a - c + (b - c) - 0) % 2 = 1 <=> (a % 2 = 1) # (b % 2 = 1)
  OBVIOUS
<1>6. QED BY <1>1, <1>3, <1>4, <1>5

\* The checksum of a sum is the sum of the checksums.
LEMMA ChecksumLinear ==
    ASSUME NEW A, NEW B, IsFiniteSet(A), IsFiniteSet(B), NEW bits
    PROVE  modesChecksum(Xor(A, B), bits) = Xor(modesChecksum(A, bits), modesChecksum(B, bits))
<1>1. ASSUME NEW i \in 0 .. 23
      PROVE  i \in modesChecksum(Xor(A, B), bits) <=>
                 (i \in modesChecksum(A, bits)) # (i \in modesChecksum(B, bits))
  <2>1. IsFiniteSet(Counting(A, bits, i)) /\ IsFiniteSet(Counting(B, bits, i))
    BY FS_Subset DEF Counting
  <2>2. Counting(Xor(A, B), bits, i) = Xor(Counting(A, bits, i), Counting(B, bits, i))
    BY DEF Counting, Xor
  <2>3. \A M : i \in modesChecksum(M, bits) <=> Cardinality(Counting(M, bits, i)) % 2 = 1
    BY DEF modesChecksum, Counting
  <2>4. QED BY <2>1, <2>2, <2>3, OddXor
<1>2. \A M : modesChecksum(M, bits) \subseteq 0 .. 23
  BY DEF modesChecksum
<1>3. QED BY <1>1, <1>2 DEF Xor

\* That of a single bit is the remainder of a power.
LEMMA ChecksumOfBit ==
    ASSUME NEW bits \in Lengths, NEW p \in 0 .. bits - 1
    PROVE  modesChecksum({p}, bits) = Powers[bits - p]
<1>1. bits - p \in 1 .. MODES_LONG_MSG_BITS /\ p < bits
  BY DEF Lengths, MODES_LONG_MSG_BITS, MODES_SHORT_MSG_BITS
<1>2. Powers[bits - p] \subseteq 0 .. 23
  BY <1>1, RemaindersOdd
<1>3. \A i : Counting({p}, bits, i) = IF i \in Powers[bits - p] THEN {p} ELSE {}
  BY <1>1 DEF Counting
<1>4. Cardinality({p}) = 1 /\ Cardinality({}) = 0
  BY FS_Singleton, FS_EmptySet
<1>5. \A i \in 0 .. 23 : i \in modesChecksum({p}, bits) <=> i \in Powers[bits - p]
  <2>1. \A i \in 0 .. 23 : i \in modesChecksum({p}, bits) <=> Cardinality(Counting({p}, bits, i)) % 2 = 1
    BY DEF modesChecksum, Counting
  <2>2. \A i : Cardinality(Counting({p}, bits, i)) = IF i \in Powers[bits - p] THEN 1 ELSE 0
    BY <1>3, <1>4
  <2>3. 1 % 2 = 1 /\ 0 % 2 # 1
    OBVIOUS
  <2>4. QED BY <2>1, <2>2, <2>3
<1>6. modesChecksum({p}, bits) \subseteq 0 .. 23
  BY DEF modesChecksum
<1>7. QED BY <1>2, <1>5, <1>6

\* The syndromes in the tables are just that.
LEMMA Syndromes ==
    ASSUME NEW bits \in Lengths, NEW p \in 0 .. bits - 1
    PROVE  SyndromeOf(p, bits) = Powers[bits - p]
<1> DEFINE f == [i \in 1 .. MODES_LONG_MSG_BITS |-> modesChecksum({i - 1}, MODES_LONG_MSG_BITS)]
<1> DEFINE n == p + MODES_LONG_MSG_BITS - bits + 1
<1>1. n \in 1 .. MODES_LONG_MSG_BITS /\ MODES_LONG_MSG_BITS \in Lengths
      /\ n - 1 \in 0 .. MODES_LONG_MSG_BITS - 1 /\ MODES_LONG_MSG_BITS - (n - 1) = bits - p
  BY DEF Lengths, MODES_LONG_MSG_BITS, MODES_SHORT_MSG_BITS
<1>2. single_bit_syndrome[n] = f[n]
  <2>1. \A i \in 1 .. MODES_LONG_MSG_BITS : modesChecksum({i - 1}, MODES_LONG_MSG_BITS) \in SUBSET (0 .. 23)
    BY DEF modesChecksum
  <2>2. f \in Seq(SUBSET (0 .. 23)) /\ Len(f) = MODES_LONG_MSG_BITS
    BY <2>1 DEF MODES_LONG_MSG_BITS
  <2> HIDE DEF f
  <2>3. single_bit_syndrome = SubSeq(f, 1, MODES_LONG_MSG_BITS)
    BY DEF single_bit_syndrome, f
  <2>4. ASSUME NEW s \in Seq(SUBSET (0 .. 23)), NEW k \in 1 .. Len(s)
        PROVE  SubSeq(s, 1, Len(s))[k] = s[k]
    OBVIOUS
  <2>5. n \in 1 .. Len(f) /\ single_bit_syndrome = SubSeq(f, 1, Len(f))
    BY <1>1, <2>2, <2>3
  <2>6. QED BY <2>2, <2>4, <2>5, Zenon
<1>3. f[n] = Powers[bits - p]
  BY <1>1, ChecksumOfBit
<1>4. QED BY <1>2, <1>3 DEF SyndromeOf

-------------------------------------------------------------------------------
(* What is diagnosed                                                          *)

\* The two lengths, and the powers that their bits stand for.
LEMMA BitsNumbers ==
    /\ Lengths = {56, 112} /\ MODES_SHORT_MSG_BITS = 56 /\ MODES_LONG_MSG_BITS = 112
    /\ \A bits \in Lengths : \A p \in 0 .. bits - 1 :
           bits - p \in 1 .. 112 /\ (bits = 112 \/ bits - p \in 1 .. 56)
BY DEF Lengths, MODES_LONG_MSG_BITS, MODES_SHORT_MSG_BITS

\* No power is a multiple of the polynomial.
LEMMA RemaindersNotEmpty == \A n \in 1 .. 112 : Powers[n] # {}
<1>1. Cardinality({}) = 0 /\ 0 % 2 # 1
  BY FS_EmptySet
<1>2. \A n \in 1 .. 112 : Cardinality(Powers[n]) % 2 = 1
  BY RemaindersOdd, BitsNumbers
<1>3. ASSUME NEW n \in 1 .. 112, Powers[n] = {} PROVE FALSE
  BY <1>1, <1>2, <1>3
<1>4. QED BY <1>3

\* The table has an entry for every bit, and no other.
LEMMA TableEntries ==
    ASSUME NEW bits \in Lengths
    PROVE  bitErrorTable(bits) =
               IF nfix_crc = 0 THEN {}
               ELSE {[syndrome |-> Powers[bits - b], bit |-> b] : b \in 0 .. bits - 1}
<1>1. \A j, k \in 0 .. bits - 1 : SyndromeOf(j, bits) = SyndromeOf(k, bits) => j = k
  <2>1. SUFFICES ASSUME NEW j \in 0 .. bits - 1, NEW k \in 0 .. bits - 1,
                        Powers[bits - j] = Powers[bits - k]
                 PROVE  j = k
    BY Syndromes
  <2>2. bits - j \in 1 .. 112 /\ bits - k \in 1 .. 112
    BY BitsNumbers
  <2>3. bits - j = bits - k
    BY <2>1, <2>2, RemaindersDiffer, BitsNumbers
  <2>4. QED BY <2>3, BitsNumbers
<1>2. prepareErrorTable(bits) = {[syndrome |-> SyndromeOf(b, bits), bit |-> b] : b \in 0 .. bits - 1}
  BY <1>1 DEF prepareErrorTable
<1>3. prepareErrorTable(bits) = {[syndrome |-> Powers[bits - b], bit |-> b] : b \in 0 .. bits - 1}
  BY <1>2, Syndromes
<1>4. bitErrorTable(bits) = IF nfix_crc = 0 THEN {} ELSE prepareErrorTable(bits)
  BY BitsNumbers DEF bitErrorTable, bitErrorTable_short, bitErrorTable_long
<1>5. QED BY <1>3, <1>4

\* What modesChecksumDiagnose may answer, and does when a single bit explains it.
LEMMA Diagnosed ==
    ASSUME NEW bits \in Lengths
    PROVE  /\ modesChecksumDiagnose({}, bits) = {{}}
           /\ \A s : \A e \in modesChecksumDiagnose(s, bits) :
                  \/ s = {} /\ e = {}
                  \/ s # {} /\ \E b \in 0 .. bits - 1 : e = {b} /\ s = Powers[bits - b]
           /\ nfix_crc = 1 => \A b \in 0 .. bits - 1 :
                  modesChecksumDiagnose(Powers[bits - b], bits) = {{b}}
<1>1. modesChecksumDiagnose({}, bits) = {{}}
  BY DEF modesChecksumDiagnose
<1>2. ASSUME NEW s, NEW e \in modesChecksumDiagnose(s, bits), s # {}
      PROVE  \E b \in 0 .. bits - 1 : e = {b} /\ s = Powers[bits - b]
  <2>1. PICK x \in bitErrorTable(bits) : x.syndrome = s /\ e = {x.bit}
    BY <1>2 DEF modesChecksumDiagnose
  <2>2. PICK b \in 0 .. bits - 1 : x = [syndrome |-> Powers[bits - b], bit |-> b]
    BY <2>1, TableEntries
  <2>3. QED BY <2>1, <2>2
<1>3. ASSUME nfix_crc = 1, NEW b \in 0 .. bits - 1
      PROVE  modesChecksumDiagnose(Powers[bits - b], bits) = {{b}}
  <2>1. Powers[bits - b] # {}
    BY BitsNumbers, RemaindersNotEmpty
  <2> DEFINE entry == [syndrome |-> Powers[bits - b], bit |-> b]
  <2>2. bitErrorTable(bits) = {[syndrome |-> Powers[bits - a], bit |-> a] : a \in 0 .. bits - 1}
    BY <1>3, TableEntries
  <2>3. entry \in bitErrorTable(bits) /\ entry.syndrome = Powers[bits - b] /\ entry.bit = b
    BY <2>2
  <2>4. ASSUME NEW x \in bitErrorTable(bits), x.syndrome = Powers[bits - b]
        PROVE  x.bit = b
    <3>1. PICK a \in 0 .. bits - 1 : x = [syndrome |-> Powers[bits - a], bit |-> a]
      BY <2>2
    <3>2. Powers[bits - a] = Powers[bits - b] /\ x.bit = a
      BY <2>4, <3>1
    <3>3. bits - a \in 1 .. 112 /\ bits - b \in 1 .. 112
      BY BitsNumbers
    <3>4. bits - a = bits - b
      BY <3>2, <3>3, RemaindersDiffer, BitsNumbers
    <3>5. a = b
      BY <3>4, BitsNumbers
    <3>6. QED BY <3>2, <3>5
  <2>5. modesChecksumDiagnose(Powers[bits - b], bits) =
            {{x.bit} : x \in {y \in bitErrorTable(bits) : y.syndrome = Powers[bits - b]}}
    BY <2>1 DEF modesChecksumDiagnose
  <2> HIDE DEF entry
  <2>6. QED BY <2>3, <2>4, <2>5
<1>4. \A s : \A e \in modesChecksumDiagnose(s, bits) : s = {} => e = {}
  BY DEF modesChecksumDiagnose
<1>5. QED BY <1>1, <1>2, <1>3, <1>4

-------------------------------------------------------------------------------
(* What transponders send                                                     *)

\* Bits put at the end, the highest first, are their own checksum.
LEMMA ChecksumOfEnd ==
    ASSUME NEW bits \in Lengths, NEW X \in SUBSET (0 .. 23)
    PROVE  modesChecksum({bits - 1 - i : i \in X}, bits) = X
<1> DEFINE end == {bits - 1 - i : i \in X}
<1>1. ASSUME NEW i \in 0 .. 23
      PROVE  Counting(end, bits, i) = IF i \in X THEN {bits - 1 - i} ELSE {}
  <2>1. ASSUME NEW k \in X
        PROVE  bits - 1 - k < bits /\ (i \in Powers[bits - (bits - 1 - k)] <=> i = k)
    <3>1. bits - (bits - 1 - k) = k + 1 /\ k + 1 \in 1 .. 24 /\ k + 1 - 1 = k /\ bits - 1 - k < bits
      BY BitsNumbers
    <3>2. Powers[k + 1] = {k + 1 - 1}
      BY <3>1, FirstRemainders
    <3>3. QED BY <3>1, <3>2
  <2>2. QED BY <2>1 DEF Counting
<1> HIDE DEF end
<1>2. Cardinality({}) = 0 /\ \A i : Cardinality({bits - 1 - i}) = 1
  BY FS_Singleton, FS_EmptySet
<1>3. \A i \in 0 .. 23 : Cardinality(Counting(end, bits, i)) = IF i \in X THEN 1 ELSE 0
  BY <1>1, <1>2
<1>4. 1 % 2 = 1 /\ 0 % 2 # 1
  OBVIOUS
<1>5. \A i \in 0 .. 23 : i \in modesChecksum(end, bits) <=> Cardinality(Counting(end, bits, i)) % 2 = 1
  BY DEF modesChecksum, Counting
<1>6. \A i \in 0 .. 23 : i \in modesChecksum(end, bits) <=> i \in X
  BY <1>3, <1>4, <1>5
<1>7. modesChecksum(end, bits) \subseteq 0 .. 23
  BY DEF modesChecksum
<1>8. modesChecksum(end, bits) = X
  BY <1>6, <1>7
<1>9. QED BY <1>8 DEF end

\* The type of a message, bit by bit.
HasType(msg, df) == \A i \in 0 .. 4 : i \in msg <=> (df \div Weights[i + 1]) % 2 = 1

\* A message is as long as its type says, carries it, and its checksum leaves the word
\* that was laid over it.
LEMMA SentFacts ==
    ASSUME NEW df, NEW payload \in SUBSET (5 .. 87), NEW word \in SUBSET (0 .. 23)
    PROVE  /\ LengthOf(df) \in Lengths
           /\ Sent(df, payload, word) \in SUBSET (0 .. LengthOf(df) - 1)
           /\ IsFiniteSet(Sent(df, payload, word))
           /\ modesChecksum(Sent(df, payload, word), LengthOf(df)) = word
           /\ HasType(Sent(df, payload, word), df)
<1> DEFINE bits == LengthOf(df)
<1> DEFINE data == {i \in 0 .. 4 : (df \div Weights[i + 1]) % 2 = 1} \cup {i \in payload : i < bits - 24}
<1> DEFINE X == Xor(modesChecksum(data, bits), word)
<1> DEFINE end == {bits - 1 - i : i \in X}
<1>1. bits \in Lengths /\ (bits = 56 \/ bits = 112)
  BY BitsNumbers DEF LengthOf
<1>2. Sent(df, payload, word) = data \cup end
  BY DEF Sent
<1>3. X \in SUBSET (0 .. 23)
  BY DEF Xor, modesChecksum
<1> HIDE DEF X
<1>4. data \in SUBSET (0 .. bits - 25)
  <2>1. \A i \in 0 .. 4 : i \in 0 .. bits - 25
    BY <1>1
  <2>2. \A i \in 5 .. 87 : i < bits - 24 => i \in 0 .. bits - 25
    BY <1>1
  <2>3. QED BY <2>1, <2>2
<1>5. \A i \in 0 .. 4 : i \in data <=> (df \div Weights[i + 1]) % 2 = 1
  OBVIOUS
<1>6. end \in SUBSET (bits - 24 .. bits - 1)
  BY <1>1, <1>3
<1>7. modesChecksum(end, bits) = X
  BY <1>1, <1>3, ChecksumOfEnd
<1> HIDE DEF data, end, bits
<1>8. data \cup end = Xor(data, end)
  <2>1. data \cap end = {}
    BY <1>1, <1>4, <1>6
  <2>2. QED BY <2>1 DEF Xor
<1>9. IsFiniteSet(data) /\ IsFiniteSet(end) /\ IsFiniteSet(data \cup end)
  <2>a. 0 \in Int /\ bits - 25 \in Int /\ bits - 24 \in Int /\ bits - 1 \in Int
    BY <1>1
  <2>1. IsFiniteSet(0 .. bits - 25) /\ IsFiniteSet(bits - 24 .. bits - 1)
    BY <2>a, FS_Interval
  <2>2. IsFiniteSet(data) /\ IsFiniteSet(end)
    BY <1>4, <1>6, <2>1, FS_Subset
  <2>3. QED BY <2>2, FS_Union
<1>10. modesChecksum(data \cup end, bits) = word
  <2>1. modesChecksum(data \cup end, bits) = Xor(modesChecksum(data, bits), X)
    BY <1>7, <1>8, <1>9, ChecksumLinear
  <2>2. QED BY <2>1 DEF X, Xor
<1>11. HasType(data \cup end, df)
  BY <1>1, <1>5, <1>6 DEF HasType
<1>12. data \cup end \in SUBSET (0 .. bits - 1)
  BY <1>1, <1>4, <1>6
<1>13. QED BY <1>1, <1>2, <1>9, <1>10, <1>11, <1>12 DEF bits

-------------------------------------------------------------------------------
(* Errors                                                                     *)

\* An error changes the checksum by the remainder of its place.
LEMMA ErrorChecksum ==
    ASSUME NEW bits \in Lengths, NEW msg \in SUBSET (0 .. bits - 1), IsFiniteSet(msg),
           NEW i \in 0 .. bits - 1
    PROVE  /\ modesChecksum(Xor(msg, {i}), bits) = Xor(modesChecksum(msg, bits), Powers[bits - i])
           /\ Xor(msg, {i}) \in SUBSET (0 .. bits - 1) /\ IsFiniteSet(Xor(msg, {i}))
           /\ Xor(Xor(msg, {i}), {i}) = msg
<1>1. IsFiniteSet({i})
  BY FS_Singleton
<1>2. modesChecksum(Xor(msg, {i}), bits) = Xor(modesChecksum(msg, bits), modesChecksum({i}, bits))
  BY <1>1, ChecksumLinear
<1>3. modesChecksum({i}, bits) = Powers[bits - i]
  BY ChecksumOfBit
<1>4. IsFiniteSet(Xor(msg, {i}))
  BY <1>1, OddXor
<1>5. Xor(msg, {i}) \in SUBSET (0 .. bits - 1) /\ Xor(Xor(msg, {i}), {i}) = msg
  BY DEF Xor
<1>6. QED BY <1>2, <1>3, <1>4, <1>5

\* Only what comes first counts.
LEMMA ChecksumOfBeginning ==
    ASSUME NEW bits \in Lengths, NEW msg \in SUBSET (0 .. bits - 1), NEW t \in SUBSET Nat,
           \A k \in t : k >= bits
    PROVE  modesChecksum(msg \cup t, bits) = modesChecksum(msg, bits)
<1>1. \A k \in t : ~(k < bits)
  <2>1. bits \in Int
    BY BitsNumbers
  <2>2. QED BY <2>1
<1>2. \A i : Counting(msg \cup t, bits, i) = Counting(msg, bits, i)
  BY <1>1 DEF Counting
<1>3. \A i \in 0 .. 23 : i \in modesChecksum(msg \cup t, bits) <=> i \in modesChecksum(msg, bits)
  <2>1. \A m : \A i \in 0 .. 23 :
            i \in modesChecksum(m, bits) <=> Cardinality(Counting(m, bits, i)) % 2 = 1
    BY DEF modesChecksum, Counting
  <2>2. ASSUME NEW i \in 0 .. 23
        PROVE  i \in modesChecksum(msg \cup t, bits) <=> i \in modesChecksum(msg, bits)
    <3>1. Counting(msg \cup t, bits, i) = Counting(msg, bits, i)
      BY <1>2, Zenon
    <3>2. /\ i \in modesChecksum(msg \cup t, bits) <=>
                  Cardinality(Counting(msg \cup t, bits, i)) % 2 = 1
          /\ i \in modesChecksum(msg, bits) <=> Cardinality(Counting(msg, bits, i)) % 2 = 1
      BY <2>1, Zenon
    <3>3. QED BY <3>1, <3>2
  <2>3. QED BY <2>2
<1>4. \A m : modesChecksum(m, bits) \subseteq 0 .. 23
  BY DEF modesChecksum
<1>5. QED BY <1>3, <1>4

-------------------------------------------------------------------------------
(* Types                                                                      *)

\* What each of the first five bits counts for.
LEMMA TheWeights ==
    /\ Weights[0 + 1] = 16 /\ Weights[1 + 1] = 8 /\ Weights[2 + 1] = 4 /\ Weights[3 + 1] = 2
    /\ Weights[4 + 1] = 1
BY DEF Weights

\* The type is the number that its bits are.
LEMMA TypeNumber ==
    ASSUME NEW msg
    PROVE  DF(msg) = (IF 0 \in msg THEN 16 ELSE 0) + (IF 1 \in msg THEN 8 ELSE 0)
                       + (IF 2 \in msg THEN 4 ELSE 0) + (IF 3 \in msg THEN 2 ELSE 0)
                       + (IF 4 \in msg THEN 1 ELSE 0)
<1>1. /\ Bit(msg, 0) = IF 0 \in msg THEN 16 ELSE 0
      /\ Bit(msg, 1) = IF 1 \in msg THEN 8 ELSE 0
      /\ Bit(msg, 2) = IF 2 \in msg THEN 4 ELSE 0
      /\ Bit(msg, 3) = IF 3 \in msg THEN 2 ELSE 0
      /\ Bit(msg, 4) = IF 4 \in msg THEN 1 ELSE 0
  BY TheWeights DEF Bit
<1>2. QED BY <1>1 DEF DF

\* The bits of a type.
LEMMA TypeBits ==
    ASSUME NEW df, NEW msg, HasType(msg, df)
    PROVE  /\ 0 \in msg <=> (df \div 16) % 2 = 1
           /\ 1 \in msg <=> (df \div 8) % 2 = 1
           /\ 2 \in msg <=> (df \div 4) % 2 = 1
           /\ 3 \in msg <=> (df \div 2) % 2 = 1
           /\ 4 \in msg <=> (df \div 1) % 2 = 1
<1>1. 0 \in 0 .. 4 /\ 1 \in 0 .. 4 /\ 2 \in 0 .. 4 /\ 3 \in 0 .. 4 /\ 4 \in 0 .. 4
  OBVIOUS
<1>2. /\ 0 \in msg <=> (df \div Weights[0 + 1]) % 2 = 1
      /\ 1 \in msg <=> (df \div Weights[1 + 1]) % 2 = 1
      /\ 2 \in msg <=> (df \div Weights[2 + 1]) % 2 = 1
      /\ 3 \in msg <=> (df \div Weights[3 + 1]) % 2 = 1
      /\ 4 \in msg <=> (df \div Weights[4 + 1]) % 2 = 1
  BY <1>1 DEF HasType
<1>3. QED BY <1>2, TheWeights

\* The type is found again.
LEMMA TypeFound ==
    ASSUME NEW df \in {0, 4, 5, 11, 16, 17, 18, 20, 21}, NEW msg, HasType(msg, df)
    PROVE  DF(msg) = df
<1> DEFINE number(d) == (IF (d \div 16) % 2 = 1 THEN 16 ELSE 0) + (IF (d \div 8) % 2 = 1 THEN 8 ELSE 0)
                          + (IF (d \div 4) % 2 = 1 THEN 4 ELSE 0) + (IF (d \div 2) % 2 = 1 THEN 2 ELSE 0)
                          + (IF (d \div 1) % 2 = 1 THEN 1 ELSE 0)
<1>1. DF(msg) = number(df)
  BY TypeBits, TypeNumber
<1>2. \A d \in 0 .. 31 : number(d) = d
  OBVIOUS
<1>3. QED BY <1>1, <1>2

\* Adding an error i, or taking it away.
LEMMA TypeOfSum ==
    ASSUME NEW msg, NEW i \in Nat
    PROVE  /\ i >= 5 => DF(Xor(msg, {i})) = DF(msg)
           /\ i < 5 => \E w \in {1, 2, 4, 8, 16} :
                  /\ <<i, w>> \in {<<0, 16>>, <<1, 8>>, <<2, 4>>, <<3, 2>>, <<4, 1>>}
                  /\ DF(Xor(msg, {i})) = IF i \in msg THEN DF(msg) - w ELSE DF(msg) + w
<1>1. \A k : k \in Xor(msg, {i}) <=> (k \in msg) # (k = i)
  BY DEF Xor
<1>2. CASE i >= 5
  <2>1. i # 0 /\ i # 1 /\ i # 2 /\ i # 3 /\ i # 4
    BY <1>2
  <2>2. \A k \in {0, 1, 2, 3, 4} : k \in Xor(msg, {i}) <=> k \in msg
    BY <1>1, <2>1
  <2>3. DF(Xor(msg, {i})) = DF(msg)
    BY <2>2, TypeNumber
  <2>4. QED BY <1>2, <2>3
<1>3. CASE i < 5
  <2> DEFINE Is(w) == /\ <<i, w>> \in {<<0, 16>>, <<1, 8>>, <<2, 4>>, <<3, 2>>, <<4, 1>>}
                      /\ DF(Xor(msg, {i})) = IF i \in msg THEN DF(msg) - w ELSE DF(msg) + w
  <2>1. CASE i = 0
    <3>1. Is(16)
      BY <1>1, <2>1, TypeNumber
    <3>2. QED BY <3>1, <1>3
  <2>2. CASE i = 1
    <3>1. Is(8)
      BY <1>1, <2>2, TypeNumber
    <3>2. QED BY <3>1, <1>3
  <2>3. CASE i = 2
    <3>1. Is(4)
      BY <1>1, <2>3, TypeNumber
    <3>2. QED BY <3>1, <1>3
  <2>4. CASE i = 3
    <3>1. Is(2)
      BY <1>1, <2>4, TypeNumber
    <3>2. QED BY <3>1, <1>3
  <2>5. CASE i = 4
    <3>1. Is(1)
      BY <1>1, <2>5, TypeNumber
    <3>2. QED BY <3>1, <1>3
  <2>6. i \in {0, 1, 2, 3, 4}
    BY <1>3
  <2>7. QED BY <2>1, <2>2, <2>3, <2>4, <2>5, <2>6
<1>4. QED BY <1>2, <1>3

-------------------------------------------------------------------------------
(* Sums of remainders                                                         *)

\* The same two.
SamePair(m, n, k, l) == (k = m /\ l = n) \/ (k = n /\ l = m)

\* Remainders whose sums are equal are the same two.
LEMMA SumsDiffer ==
    \A m, n, k, l \in 1 .. 112 :
        m < n /\ k # l /\ Xor(Powers[m], Powers[n]) = Xor(Powers[k], Powers[l])
            => SamePair(m, n, k, l)
<1> SUFFICES ASSUME NEW m \in 1 .. 112, NEW n \in 1 .. 112, m < n,
                    NEW k \in 1 .. 112, NEW l \in 1 .. 112, k # l,
                    Xor(Powers[m], Powers[n]) = Xor(Powers[k], Powers[l])
             PROVE  SamePair(m, n, k, l)
  OBVIOUS
<1> DEFINE sum == [p \in PairsOfPowers |-> Xor(Powers[p[1]], Powers[p[2]])]
<1>1. PairsOfPowers = {p \in (1 .. 112) \X (1 .. 112) : p[1] < p[2]}
  BY BitsNumbers DEF PairsOfPowers
<1>2. IsFiniteSet(PairsOfPowers)
  <2>0. IsFiniteSet(1 .. 112)
    <3>1. 1 \in Int /\ 112 \in Int
      OBVIOUS
    <3>2. QED BY <3>1, FS_Interval
  <2>1. IsFiniteSet((1 .. 112) \X (1 .. 112))
    BY <2>0, FS_Product
  <2>2. PairsOfPowers \subseteq (1 .. 112) \X (1 .. 112)
    BY <1>1
  <2>3. QED BY <2>1, <2>2, FS_Subset
<1>3. sum \in Surjection(PairsOfPowers, SumsOfPowers)
  BY DEF Surjection, SumsOfPowers
<1>4. sum \in Injection(PairsOfPowers, SumsOfPowers)
  <2> HIDE DEF sum
  <2>1. Cardinality(SumsOfPowers) = Cardinality(PairsOfPowers)
    BY RemaindersDiffer
  <2>2. QED BY <1>2, <1>3, <2>1, FS_Surjection
<1>5. \A p, q \in PairsOfPowers : sum[p] = sum[q] => p = q
  <2> HIDE DEF sum
  <2>1. QED BY <1>4 DEF Injection, IsInjective
<1>6. \A a, b \in 1 .. 112 : a < b => <<a, b>> \in PairsOfPowers /\ sum[<<a, b>>] = Xor(Powers[a], Powers[b])
  <2>1. \A a, b \in 1 .. 112 : a < b => <<a, b>> \in PairsOfPowers
    BY <1>1
  <2>2. QED BY <2>1
<1> HIDE DEF sum
<1>7. CASE k < l
  <2>1. /\ <<m, n>> \in PairsOfPowers /\ sum[<<m, n>>] = Xor(Powers[m], Powers[n])
        /\ <<k, l>> \in PairsOfPowers /\ sum[<<k, l>>] = Xor(Powers[k], Powers[l])
    BY <1>6, <1>7
  <2>2. sum[<<m, n>>] = sum[<<k, l>>]
    BY <2>1
  <2>3. <<m, n>> = <<k, l>>
    BY <1>5, <2>1, <2>2, Zenon
  <2>4. QED BY <2>3 DEF SamePair
<1>8. CASE l < k
  <2>1. Xor(Powers[k], Powers[l]) = Xor(Powers[l], Powers[k])
    BY DEF Xor
  <2>2. /\ <<m, n>> \in PairsOfPowers /\ sum[<<m, n>>] = Xor(Powers[m], Powers[n])
        /\ <<l, k>> \in PairsOfPowers /\ sum[<<l, k>>] = Xor(Powers[l], Powers[k])
    BY <1>6, <1>8
  <2>3. sum[<<m, n>>] = sum[<<l, k>>]
    BY <2>1, <2>2
  <2>4. <<m, n>> = <<l, k>>
    BY <1>5, <2>2, <2>3, Zenon
  <2>5. QED BY <2>4 DEF SamePair
<1>9. QED BY <1>7, <1>8

\* The number of terms of a sum is odd when that of one of the two is.
Odd(w) == Cardinality(w) % 2 = 1

\* As OddXor.
LEMMA OddSum ==
    ASSUME NEW v, NEW w, IsFiniteSet(v), IsFiniteSet(w)
    PROVE  IsFiniteSet(Xor(v, w)) /\ (Odd(Xor(v, w)) <=> (Odd(v) # Odd(w)))
BY OddXor DEF Odd

\* That of every single remainder is (RemaindersOdd).
LEMMA RemainderOdd ==
    ASSUME NEW n \in 1 .. 112
    PROVE  IsFiniteSet(Powers[n]) /\ Odd(Powers[n]) /\ ~Odd({})
<1>1. Powers[n] \subseteq 0 .. 23 /\ Cardinality(Powers[n]) % 2 = 1
  BY RemaindersOdd, BitsNumbers
<1>2. IsFiniteSet(0 .. 23)
  <2>1. 0 \in Int /\ 23 \in Int
    OBVIOUS
  <2>2. QED BY <2>1, FS_Interval
<1>3. IsFiniteSet(Powers[n])
  BY <1>1, <1>2, FS_Subset
<1>4. Cardinality({}) = 0 /\ 0 % 2 # 1
  BY FS_EmptySet
<1>5. QED BY <1>1, <1>3, <1>4 DEF Odd

\* What can be explained, is by one remainder at most.
LEMMA ExplainedByOne ==
    ASSUME NEW bits \in Lengths, NEW s \in Explained(bits)
    PROVE  s = {} \/ \E n \in 1 .. bits : s = Powers[n]
<1>1. CASE s = {}
  BY <1>1
<1>2. CASE s # {}
  <2>1. PICK e \in bitErrorTable(bits) : s = e.syndrome
    BY <1>2 DEF Explained
  <2>2. PICK b \in 0 .. bits - 1 : e = [syndrome |-> Powers[bits - b], bit |-> b]
    BY <2>1, TableEntries
  <2>3. s = Powers[bits - b] /\ bits - b \in 1 .. bits
    BY <2>1, <2>2, BitsNumbers
  <2>4. QED BY <2>3
<1>3. QED BY <1>1, <1>2

\* Several errors are not taken for fewer ("100% coverage up to 4 bit detection",
\* modesChecksumInit in crc.c).
LEMMA ErrorsAreNotMistaken == ErrorsNotMistaken
<1>1. SUFFICES
        ASSUME NEW bits \in Lengths, NEW i \in 0 .. bits - 1, NEW j \in i + 1 .. bits - 1
        PROVE  LET two == Xor(SyndromeOf(i, bits), SyndromeOf(j, bits))
               IN  /\ two \notin Explained(bits)
                   /\ \A k \in j + 1 .. bits - 1 :
                       LET three == Xor(two, SyndromeOf(k, bits))
                       IN  /\ three \notin Explained(bits)
                           /\ \A l \in k + 1 .. bits - 1 :
                                  Xor(three, SyndromeOf(l, bits)) \notin Explained(bits)
  BY DEF ErrorsNotMistaken
<1> DEFINE R(b) == Powers[bits - b]
<1> DEFINE two == Xor(R(i), R(j))
<1>2. bits \in Nat /\ bits <= 112 /\ j \in 0 .. bits - 1 /\ i < j
  BY <1>1, BitsNumbers
<1>3. \A b \in 0 .. bits - 1 : SyndromeOf(b, bits) = R(b) /\ bits - b \in 1 .. 112
  BY Syndromes, BitsNumbers
<1>4. \A b \in 0 .. bits - 1 : IsFiniteSet(R(b)) /\ Odd(R(b)) /\ R(b) # {}
  BY <1>3, RemainderOdd
<1>5. IsFiniteSet(two) /\ ~Odd(two)
  BY <1>2, <1>4, OddSum
<1>6. \A n \in 1 .. bits : n \in 1 .. 112 /\ Odd(Powers[n])
  <2>1. \A n \in 1 .. bits : n \in 1 .. 112
    BY <1>2
  <2>2. QED BY <2>1, RemainderOdd
<1>7. \A a, b \in 0 .. bits - 1 : R(a) = R(b) => a = b
  <2>1. SUFFICES ASSUME NEW a \in 0 .. bits - 1, NEW b \in 0 .. bits - 1, R(a) = R(b) PROVE a = b
    OBVIOUS
  <2>2. bits - a = bits - b
    <3>1. bits - a \in 1 .. MODES_LONG_MSG_BITS /\ bits - b \in 1 .. MODES_LONG_MSG_BITS
      BY <1>3, BitsNumbers
    <3>2. QED BY <2>1, <3>1, RemaindersDiffer, Zenon
  <2>3. QED BY <1>2, <2>2
<1>8. \A v, w : Xor(v, w) = {} => v = w
  BY DEF Xor
<1>9. two # {}
  BY <1>2, <1>7, <1>8
<1>10. two \notin Explained(bits)
  BY <1>5, <1>6, <1>9, ExplainedByOne
<1>11. ASSUME NEW a \in 0 .. bits - 1, NEW b \in 0 .. bits - 1, a # b, two = Xor(R(a), R(b))
       PROVE  a \in {i, j}
  <2>1. bits - j < bits - i /\ bits - a # bits - b
    BY <1>2, <1>11
  <2>2. Xor(Powers[bits - j], Powers[bits - i]) = Xor(Powers[bits - a], Powers[bits - b])
    BY <1>11 DEF Xor
  <2>a. /\ bits - j \in 1 .. 112 /\ bits - i \in 1 .. 112
        /\ bits - a \in 1 .. 112 /\ bits - b \in 1 .. 112
    BY <1>2, <1>3
  <2>3. bits - a = bits - j \/ bits - a = bits - i
    BY <2>a, <2>1, <2>2, SumsDiffer DEF SamePair
  <2>4. QED BY <1>2, <2>3
<1> HIDE DEF two
<1>12. ASSUME NEW k \in j + 1 .. bits - 1
       PROVE  /\ Xor(two, R(k)) \notin Explained(bits)
              /\ \A l \in k + 1 .. bits - 1 : Xor(Xor(two, R(k)), R(l)) \notin Explained(bits)
  <2> DEFINE three == Xor(two, R(k))
  <2>1. k \in 0 .. bits - 1 /\ k # i /\ k # j
    BY <1>2
  <2>2. IsFiniteSet(three) /\ Odd(three) /\ three # {}
    <3>1. IsFiniteSet(R(k)) /\ Odd(R(k))
      BY <1>4, <2>1
    <3>2. IsFiniteSet(three) /\ Odd(three)
      BY <1>5, <3>1, OddSum
    <3>3. ~Odd({})
      BY <1>2, <1>3, RemainderOdd
    <3>4. QED BY <3>2, <3>3
  <2>3. three \notin Explained(bits)
    <3>1. SUFFICES ASSUME NEW n \in 1 .. bits, three = Powers[n] PROVE FALSE
      BY <2>2, ExplainedByOne
    <3>2. bits - n \in 0 .. bits - 1 /\ bits - (bits - n) = n
      BY <1>2
    <3>3. two = Xor(R(k), R(bits - n))
      BY <3>1, <3>2 DEF Xor
    <3>4. k # bits - n
      BY <1>9, <3>3 DEF Xor
    <3>5. QED BY <1>11, <2>1, <3>2, <3>3, <3>4
  <2>4. ASSUME NEW l \in k + 1 .. bits - 1
        PROVE  Xor(three, R(l)) \notin Explained(bits)
    <3>1. l \in 0 .. bits - 1 /\ k # l
      BY <1>2
    <3>2. ~Odd(Xor(three, R(l)))
      BY <1>4, <2>2, <3>1, OddSum
    <3>3. Xor(three, R(l)) # {}
      <4>1. SUFFICES ASSUME Xor(three, R(l)) = {} PROVE FALSE
        OBVIOUS
      <4>2. two = Xor(R(k), R(l))
        BY <4>1 DEF Xor
      <4>3. QED BY <1>11, <2>1, <3>1, <4>2
    <3>4. QED BY <1>6, <3>2, <3>3, ExplainedByOne
  <2>5. QED BY <2>3, <2>4
<1>13. \A k \in j + 1 .. bits - 1 : k \in 0 .. bits - 1 /\ \A l \in k + 1 .. bits - 1 : l \in 0 .. bits - 1
  BY <1>2
<1>14. Xor(SyndromeOf(i, bits), SyndromeOf(j, bits)) = two
  BY <1>2, <1>3 DEF two
<1> HIDE DEF R
<1>15. QED BY <1>3, <1>10, <1>12, <1>13, <1>14

-------------------------------------------------------------------------------
(* Corrections                                                                *)

\* What correctMessage looks at.
TryLong(in) == DF(in) \in df_correctable_long
TryShort(in) == DF(in) \in df_correctable_short
ShortOf(in) == in \cap (0 .. MODES_SHORT_MSG_BITS - 1)
LongFixed(in) ==
    {Xor(in, e) : e \in modesChecksumDiagnose(modesChecksum(in, MODES_LONG_MSG_BITS), MODES_LONG_MSG_BITS)}
ShortFixed(in) ==
    {Xor(ShortOf(in), e) :
        e \in modesChecksumDiagnose(modesChecksum(in, MODES_SHORT_MSG_BITS), MODES_SHORT_MSG_BITS) \ {{}}}

\* The order of its attempts (correctMessage).
LEMMA Attempts ==
    ASSUME NEW in
    PROVE  correctMessage(in) =
               IF TryLong(in) /\ isLongPIMessage(in) /\ modesChecksum(in, MODES_LONG_MSG_BITS) = {}
               THEN [corrections |-> 0, out |-> in]
               ELSE IF TryShort(in) /\ isShortPIMessage(in)
                  /\ modesChecksum(in, MODES_SHORT_MSG_BITS) \subseteq 0 .. 6
               THEN [corrections |-> 0, out |-> ShortOf(in)]
               ELSE IF TryLong(in) /\ \E m \in LongFixed(in) : isLongPIMessage(m)
               THEN [corrections |-> 1, out |-> CHOOSE m \in LongFixed(in) : TRUE]
               ELSE IF TryShort(in) /\ \E m \in ShortFixed(in) : isShortPIMessage(m)
               THEN [corrections |-> 1, out |-> CHOOSE m \in ShortFixed(in) : TRUE]
               ELSE [corrections |-> Uncorrectable, out |-> in]
BY Zenon DEF correctMessage, TryLong, TryShort, ShortOf, LongFixed, ShortFixed

\* The types that an all-call reply and an extended squitter have after an error.
LEMMA TypesAfterError ==
    ASSUME NEW df \in {11, 17, 18}, NEW msg, HasType(msg, df), NEW i \in Nat
    PROVE  /\ i >= 5 => DF(Xor(msg, {i})) = df
           /\ df = 11 => DF(Xor(msg, {i})) \in {3, 9, 10, 11, 15, 27}
           /\ df # 11 => DF(Xor(msg, {i})) \in {1, 2, 16, 17, 18, 19, 21, 22, 25, 26}
<1>1. DF(msg) = df
  BY TypeFound
<1>2. CASE i >= 5
  <2>1. DF(Xor(msg, {i})) = df
    BY <1>1, <1>2, TypeOfSum, Zenon
  <2>2. QED BY <2>1
<1>3. CASE i < 5
  <2>1. PICK w \in {1, 2, 4, 8, 16} :
            /\ <<i, w>> \in {<<0, 16>>, <<1, 8>>, <<2, 4>>, <<3, 2>>, <<4, 1>>}
            /\ DF(Xor(msg, {i})) = IF i \in msg THEN DF(msg) - w ELSE DF(msg) + w
    BY <1>3, TypeOfSum
  <2>2. /\ 0 \in msg <=> (df \div 16) % 2 = 1
        /\ 1 \in msg <=> (df \div 8) % 2 = 1
        /\ 2 \in msg <=> (df \div 4) % 2 = 1
        /\ 3 \in msg <=> (df \div 2) % 2 = 1
        /\ 4 \in msg <=> (df \div 1) % 2 = 1
    BY TypeBits
  <2>3. \/ i = 0 /\ w = 16
        \/ i = 1 /\ w = 8
        \/ i = 2 /\ w = 4
        \/ i = 3 /\ w = 2
        \/ i = 4 /\ w = 1
    BY <2>1
  <2>4. CASE df = 11
    <3>1. 0 \notin msg /\ 1 \in msg /\ 2 \notin msg /\ 3 \in msg /\ 4 \in msg
      BY <2>2, <2>4
    <3>2. QED BY <1>1, <1>3, <2>1, <2>3, <2>4, <3>1
  <2>5. CASE df = 17
    <3>1. 0 \in msg /\ 1 \notin msg /\ 2 \notin msg /\ 3 \notin msg /\ 4 \in msg
      BY <2>2, <2>5
    <3>2. QED BY <1>1, <1>3, <2>1, <2>3, <2>5, <3>1
  <2>6. CASE df = 18
    <3>1. 0 \in msg /\ 1 \notin msg /\ 2 \notin msg /\ 3 \in msg /\ 4 \notin msg
      BY <2>2, <2>6
    <3>2. QED BY <1>1, <1>3, <2>1, <2>3, <2>6, <3>1
  <2>7. QED BY <2>4, <2>5, <2>6
<1>4. QED BY <1>2, <1>3

\* The types that are corrected.
LEMMA TypesCorrected ==
    /\ df_correctable_long = IF fix_df /\ nfix_crc = 1
                             THEN {1, 2, 16, 17, 18, 19, 21, 22, 25, 26} ELSE {17, 18}
    /\ df_correctable_short = IF fix_df /\ nfix_crc = 1 THEN {3, 9, 10, 11, 15, 27} ELSE {11}
<1>1. fix_df_bits = 0 <=> ~(fix_df /\ nfix_crc = 1)
  BY CorrectionAssumption DEF fix_df_bits
<1>2. QED BY <1>1 DEF df_correctable_long, df_correctable_short

\* What a single bit explains is undone, and nothing else is changed.
LEMMA OnlyExplanation ==
    ASSUME nfix_crc = 1
    PROVE  /\ \A b \in 0 .. 111 : modesChecksumDiagnose(Powers[112 - b], 112) = {{b}}
           /\ \A b \in 0 .. 55 : modesChecksumDiagnose(Powers[56 - b], 56) = {{b}}
<1>1. \A bits \in Lengths : \A b \in 0 .. bits - 1 :
          modesChecksumDiagnose(Powers[bits - b], bits) = {{b}}
  BY Diagnosed
<1>2. 112 \in Lengths /\ 56 \in Lengths
  BY BitsNumbers
<1>3. /\ \A b \in 0 .. 112 - 1 : modesChecksumDiagnose(Powers[112 - b], 112) = {{b}}
      /\ \A b \in 0 .. 56 - 1 : modesChecksumDiagnose(Powers[56 - b], 56) = {{b}}
  BY <1>1, <1>2, Zenon
<1>4. QED BY <1>3

\* If a bit is to be changed, that bit alone explains the syndrome.
LEMMA LongExplanation ==
    ASSUME NEW s, NEW e \in modesChecksumDiagnose(s, 112), e # {}
    PROVE  \E b \in 0 .. 111 : e = {b} /\ s = Powers[112 - b]
<1>1. 112 \in Lengths /\ 0 .. 112 - 1 = 0 .. 111
  BY BitsNumbers
<1>2. \A v : \A x \in modesChecksumDiagnose(v, 112) :
          \/ v = {} /\ x = {}
          \/ v # {} /\ \E b \in 0 .. 112 - 1 : x = {b} /\ v = Powers[112 - b]
  BY <1>1, Diagnosed
<1>3. \E b \in 0 .. 112 - 1 : e = {b} /\ s = Powers[112 - b]
  BY <1>2
<1>4. QED BY <1>1, <1>3, Zenon

LEMMA ShortExplanation ==
    ASSUME NEW s, NEW e \in modesChecksumDiagnose(s, 56), e # {}
    PROVE  \E b \in 0 .. 55 : e = {b} /\ s = Powers[56 - b]
<1>1. 56 \in Lengths /\ 0 .. 56 - 1 = 0 .. 55
  BY BitsNumbers
<1>2. \A v : \A x \in modesChecksumDiagnose(v, 56) :
          \/ v = {} /\ x = {}
          \/ v # {} /\ \E b \in 0 .. 56 - 1 : x = {b} /\ v = Powers[56 - b]
  BY <1>1, Diagnosed
<1>3. \E b \in 0 .. 56 - 1 : e = {b} /\ s = Powers[56 - b]
  BY <1>2
<1>4. QED BY <1>1, <1>3, Zenon

\* An error in a message of either length.
LEMMA ErrorInLong ==
    ASSUME NEW msg \in SUBSET (0 .. 111), IsFiniteSet(msg), NEW i \in 0 .. 111
    PROVE  modesChecksum(Xor(msg, {i}), 112) = Xor(modesChecksum(msg, 112), Powers[112 - i])
<1>1. 112 \in Lengths /\ msg \in SUBSET (0 .. 112 - 1) /\ i \in 0 .. 112 - 1
  BY BitsNumbers
<1>2. ASSUME NEW bits \in Lengths, msg \in SUBSET (0 .. bits - 1), i \in 0 .. bits - 1
      PROVE  modesChecksum(Xor(msg, {i}), bits) = Xor(modesChecksum(msg, bits), Powers[bits - i])
  BY <1>2, ErrorChecksum
<1>3. QED BY <1>1, <1>2, Zenon

LEMMA ErrorInShort ==
    ASSUME NEW msg \in SUBSET (0 .. 55), IsFiniteSet(msg), NEW i \in 0 .. 55
    PROVE  modesChecksum(Xor(msg, {i}), 56) = Xor(modesChecksum(msg, 56), Powers[56 - i])
<1>1. 56 \in Lengths /\ msg \in SUBSET (0 .. 56 - 1) /\ i \in 0 .. 56 - 1
  BY BitsNumbers
<1>2. ASSUME NEW bits \in Lengths, msg \in SUBSET (0 .. bits - 1), i \in 0 .. bits - 1
      PROVE  modesChecksum(Xor(msg, {i}), bits) = Xor(modesChecksum(msg, bits), Powers[bits - i])
  BY <1>2, ErrorChecksum
<1>3. QED BY <1>1, <1>2, Zenon

\* An extended squitter: a single error is undone.
LEMMA LongErrorUndone ==
    ASSUME nfix_crc = 1, fix_df, NEW df \in {17, 18}, NEW msg \in SUBSET (0 .. 111), IsFiniteSet(msg),
           HasType(msg, df), modesChecksum(msg, 112) = {}, NEW i \in 0 .. 111
    PROVE  correctMessage(Xor(msg, {i})) = [corrections |-> 1, out |-> msg]
<1> DEFINE in == Xor(msg, {i})
<1>1. 112 \in Lengths /\ MODES_LONG_MSG_BITS = 112 /\ 112 - 1 = 111 /\ 112 - i \in 1 .. 112
  BY BitsNumbers
<1>2. modesChecksum(in, 112) = Powers[112 - i] /\ Xor(in, {i}) = msg
  <2>2. modesChecksum(Xor(msg, {i}), 112) = Xor(modesChecksum(msg, 112), Powers[112 - i])
    BY ErrorInLong, Zenon
  <2>3. Xor({}, Powers[112 - i]) = Powers[112 - i]
    BY DEF Xor
  <2>4. Xor(Xor(msg, {i}), {i}) = msg
    BY DEF Xor
  <2>5. QED BY <2>2, <2>3, <2>4
<1>3. modesChecksum(in, 112) # {}
  <2>1. Powers[112 - i] # {}
    BY <1>1, RemaindersNotEmpty, Zenon
  <2>2. QED BY <1>2, <2>1
<1>4. LongFixed(in) = {msg}
  <2>1. modesChecksumDiagnose(modesChecksum(in, 112), 112) = {{i}}
    BY <1>2, OnlyExplanation
  <2> HIDE DEF in
  <2>2. LongFixed(in) = {Xor(in, e) : e \in {{i}}}
    BY <1>1, <2>1 DEF LongFixed
  <2>3. QED BY <1>2, <2>2
<1>5. isLongPIMessage(msg)
  BY TypeFound DEF isLongPIMessage
<1>6. DF(in) \in {1, 2, 16, 17, 18, 19, 21, 22, 25, 26}
  BY TypesAfterError
<1>7. TryLong(in) /\ ~TryShort(in)
  BY <1>6, TypesCorrected DEF TryLong, TryShort
<1> HIDE DEF in
<1>8. correctMessage(in) = [corrections |-> 1, out |-> CHOOSE m \in LongFixed(in) : TRUE]
  BY <1>1, <1>3, <1>4, <1>5, <1>7, Attempts, Zenon
<1>9. (CHOOSE m \in LongFixed(in) : TRUE) = msg
  BY <1>4
<1>10. QED BY <1>8, <1>9 DEF in

\* An all-call reply, whatever follows it in the buffer: so is it here, but among the
\* last bits an error passes for an interrogator.
LEMMA ShortErrorUndone ==
    ASSUME nfix_crc = 1, fix_df, NEW msg \in SUBSET (0 .. 55), IsFiniteSet(msg),
           HasType(msg, 11), modesChecksum(msg, 56) = {}, NEW i \in 0 .. 55,
           NEW t \in SUBSET (56 .. 111)
    PROVE  \/ correctMessage(Xor(msg, {i}) \cup t) = [corrections |-> 1, out |-> msg]
           \/ i >= 49 /\ correctMessage(Xor(msg, {i}) \cup t).corrections = 0
<1> DEFINE wrong == Xor(msg, {i})
<1> DEFINE in == wrong \cup t
<1>1. 56 \in Lengths /\ MODES_SHORT_MSG_BITS = 56 /\ 56 - 1 = 55 /\ 56 - i \in 1 .. 112
  BY BitsNumbers
<1>2. /\ modesChecksum(wrong, 56) = Powers[56 - i] /\ Xor(wrong, {i}) = msg
      /\ wrong \in SUBSET (0 .. 55)
  <2>1. msg \subseteq 0 .. 55 /\ i \in Nat
    OBVIOUS
  <2>2. modesChecksum(Xor(msg, {i}), 56) = Xor(modesChecksum(msg, 56), Powers[56 - i])
    BY ErrorInShort, Zenon
  <2>3. Xor({}, Powers[56 - i]) = Powers[56 - i]
    BY DEF Xor
  <2>4. Xor(Xor(msg, {i}), {i}) = msg
    BY DEF Xor
  <2>5. Xor(msg, {i}) \subseteq 0 .. 55
    BY <2>1 DEF Xor
  <2>6. QED BY <2>2, <2>3, <2>4, <2>5
<1>3. modesChecksum(in, 56) = Powers[56 - i]
  <2>1. t \in SUBSET Nat /\ \A k \in t : k >= 56
    OBVIOUS
  <2>2. modesChecksum(in, 56) = modesChecksum(wrong, 56)
    <3>1. wrong \in SUBSET (0 .. 56 - 1)
      BY <1>1, <1>2
    <3>2. \A m \in SUBSET (0 .. 56 - 1), x \in SUBSET Nat :
              (\A k \in x : k >= 56) => modesChecksum(m \cup x, 56) = modesChecksum(m, 56)
      BY <1>1, ChecksumOfBeginning
    <3>3. QED BY <2>1, <3>1, <3>2, Zenon
  <2>3. QED BY <1>2, <2>2
<1>4. DF(in) = DF(wrong)
  <2>1. \A k \in {0, 1, 2, 3, 4} : k \in in <=> k \in wrong
    OBVIOUS
  <2> HIDE DEF wrong, in
  <2>2. QED BY <2>1, TypeNumber
<1>5. DF(wrong) \in {3, 9, 10, 11, 15, 27} /\ (i >= 5 => DF(wrong) = 11)
  BY TypesAfterError
<1> HIDE DEF wrong
<1>6. ShortOf(in) = wrong
  <2>1. ShortOf(in) = in \cap (0 .. 55)
    BY <1>1 DEF ShortOf
  <2>2. \A k \in t : k \notin 0 .. 55
    OBVIOUS
  <2>3. in \cap (0 .. 55) = wrong
    <3>1. wrong \cap (0 .. 55) = wrong
      BY <1>2
    <3>2. t \cap (0 .. 55) = {}
      BY <2>2
    <3>3. QED BY <3>1, <3>2
  <2>4. QED BY <2>1, <2>3
<1> HIDE DEF in
<1>7. ~TryLong(in) /\ TryShort(in)
  BY <1>4, <1>5, TypesCorrected DEF TryLong, TryShort
<1>8. CASE i < 49
  <2>1. 56 - i \in 8 .. MODES_LONG_MSG_BITS
    BY <1>8, BitsNumbers
  <2>2. ~(modesChecksum(in, 56) \subseteq 0 .. 6) /\ modesChecksum(in, 56) # {}
    BY <1>1, <1>3, <2>1, RemaindersNoCodes, RemaindersNotEmpty
  <2>3. modesChecksumDiagnose(modesChecksum(in, 56), 56) = {{i}}
    BY <1>3, OnlyExplanation
  <2>4. ShortFixed(in) = {msg}
    <3>1. {{i}} \ {{}} = {{i}}
      OBVIOUS
    <3>2. ShortFixed(in) = {Xor(wrong, e) : e \in {{i}}}
      BY <1>1, <1>6, <2>3, <3>1 DEF ShortFixed
    <3>3. QED BY <1>2, <3>2
  <2>5. isShortPIMessage(msg)
    BY TypeFound DEF isShortPIMessage
  <2>6. correctMessage(in) = [corrections |-> 1, out |-> CHOOSE m \in ShortFixed(in) : TRUE]
    BY <1>1, <1>7, <2>2, <2>4, <2>5, Attempts, Zenon
  <2>7. (CHOOSE m \in ShortFixed(in) : TRUE) = msg
    BY <2>4
  <2>8. QED BY <2>6, <2>7 DEF in, wrong
<1>9. CASE i >= 49
  <2>1. Powers[56 - i] \subseteq 0 .. 6
    <3>1. 56 - i \in 1 .. 24 /\ 56 - i - 1 \in 0 .. 6
      BY <1>9
    <3>2. Powers[56 - i] = {56 - i - 1}
      BY <3>1, FirstRemainders
    <3>3. QED BY <3>1, <3>2
  <2>2. isShortPIMessage(in)
    BY <1>4, <1>5, <1>9 DEF isShortPIMessage
  <2>3. correctMessage(in) = [corrections |-> 0, out |-> ShortOf(in)]
    <3>1. modesChecksum(in, MODES_SHORT_MSG_BITS) \subseteq 0 .. 6
      BY <1>1, <1>3, <2>1
    <3>2. QED BY <1>7, <2>2, <3>1, Attempts, Zenon
  <2>4. QED BY <1>9, <2>3 DEF in, wrong
<1>10. QED BY <1>8, <1>9

-------------------------------------------------------------------------------
(* The properties, for all payloads                                           *)

\* Messages with nothing laid over their checksum.
LEMMA SentChecked ==
    ASSUME NEW df, NEW p \in Payloads
    PROVE  /\ Sent(df, p, {}) \in SUBSET (0 .. LengthOf(df) - 1)
           /\ IsFiniteSet(Sent(df, p, {}))
           /\ modesChecksum(Sent(df, p, {}), LengthOf(df)) = {}
           /\ HasType(Sent(df, p, {}), df)
<1>1. p \in SUBSET (5 .. 87)
  BY CorrectionAssumption
<1>2. {} \in SUBSET (0 .. 23)
  OBVIOUS
<1>3. QED BY <1>1, <1>2, SentFacts

\* Single errors, in messages with a checksum.
LEMMA SingleErrorsAreUndone == SingleErrorsUndone
<1> SUFFICES ASSUME nfix_crc = 1, fix_df, NEW df \in {11, 17, 18}, NEW p \in Payloads,
                    NEW i \in 0 .. LengthOf(df) - 1,
                    NEW t \in IF df = 11 THEN Tails(Sent(df, p, {})) ELSE {{}}
             PROVE  LET result == correctMessage(Xor(Sent(df, p, {}), {i}) \cup t)
                    IN  \/ result = [corrections |-> 1, out |-> Sent(df, p, {})]
                        \/ df = 11 /\ i >= 49 /\ result.corrections = 0
  BY Zenon DEF SingleErrorsUndone
<1> DEFINE msg == Sent(df, p, {})
<1>1. /\ msg \in SUBSET (0 .. LengthOf(df) - 1) /\ IsFiniteSet(msg)
      /\ modesChecksum(msg, LengthOf(df)) = {} /\ HasType(msg, df)
  BY SentChecked, Zenon
<1> HIDE DEF msg
<1>2. CASE df \in {17, 18}
  <2>1. LengthOf(df) = 112 /\ t = {} /\ df # 11
    BY <1>2, BitsNumbers DEF LengthOf
  <2>2. msg \in SUBSET (0 .. 111) /\ modesChecksum(msg, 112) = {} /\ i \in 0 .. 111
    BY <1>1, <2>1
  <2>3. correctMessage(Xor(msg, {i})) = [corrections |-> 1, out |-> msg]
    BY <1>1, <1>2, <2>2, LongErrorUndone
  <2>4. Xor(msg, {i}) \cup t = Xor(msg, {i})
    BY <2>1
  <2>5. QED BY <2>3, <2>4 DEF msg
<1>3. CASE df = 11
  <2>1. LengthOf(df) = 56 /\ t \in Tails(msg)
    BY <1>3, BitsNumbers DEF LengthOf, msg
  <2>2. msg \in SUBSET (0 .. 55) /\ modesChecksum(msg, 56) = {} /\ i \in 0 .. 55 /\ HasType(msg, 11)
    BY <1>1, <1>3, <2>1
  <2>3. t \in SUBSET (56 .. 111)
    <3>1. PICK v \in {{k \in q : k >= 56} : q \in Payloads} :
              t = v \/ t = v \cup {111 - k : k \in modesChecksum(msg \cup v, 112)}
      <4>1. Tails(msg) = LET tails == {{k \in q : k >= 56} : q \in Payloads}
                         IN  tails \cup {v \cup {111 - k : k \in modesChecksum(msg \cup v, 112)} :
                                            v \in tails}
        BY BitsNumbers DEF Tails
      <4>2. QED BY <2>1, <4>1
    <3>2. v \subseteq 56 .. 111
      <4>1. PICK q \in Payloads : v = {k \in q : k >= 56}
        OBVIOUS
      <4>2. q \subseteq 5 .. 87
        BY CorrectionAssumption
      <4>3. \A k \in 5 .. 87 : k >= 56 => k \in 56 .. 111
        OBVIOUS
      <4>4. \A k \in v : k \in q /\ k >= 56
        BY <4>1
      <4>5. ASSUME NEW k \in v PROVE k \in 56 .. 111
        <5>1. k \in 5 .. 87 /\ k >= 56
          BY <4>2, <4>4
        <5>2. QED BY <4>3, <5>1
      <4>6. QED BY <4>5
    <3>3. \A x \in SUBSET (0 .. 23) : {111 - k : k \in x} \subseteq 56 .. 111
      OBVIOUS
    <3>4. modesChecksum(msg \cup v, 112) \in SUBSET (0 .. 23)
      BY DEF modesChecksum
    <3>5. {111 - k : k \in modesChecksum(msg \cup v, 112)} \subseteq 56 .. 111
      BY <3>3, <3>4
    <3>6. CASE t = v
      BY <3>2, <3>6, Zenon
    <3>7. CASE t = v \cup {111 - k : k \in modesChecksum(msg \cup v, 112)}
      <4>1. \A x \in t : x \in 56 .. 111
        BY <3>2, <3>5, <3>7, Zenon
      <4>2. QED BY <4>1, Zenon
    <3>8. QED BY <3>1, <3>6, <3>7, Zenon
  <2>4. \/ correctMessage(Xor(msg, {i}) \cup t) = [corrections |-> 1, out |-> msg]
        \/ i >= 49 /\ correctMessage(Xor(msg, {i}) \cup t).corrections = 0
    BY <1>1, <2>2, <2>3, ShortErrorUndone
  <2>5. QED BY <1>3, <2>4 DEF msg
<1>4. QED BY <1>2, <1>3

\* An error in an all-call reply and an interrogator's code.
LEMMA InterrogatorIsHarmless == InterrogatorHarmless
<1> SUFFICES ASSUME NEW p \in Payloads, NEW iid \in SUBSET (0 .. 6), NEW i \in 0 .. 55
             PROVE  LET msg == Sent(11, p, iid)
                        result == correctMessage(Xor(msg, {i}))
                    IN  \/ result.corrections = Uncorrectable
                        \/ Xor(result.out, msg) \subseteq 49 .. 55
  BY Zenon DEF InterrogatorHarmless
<1> DEFINE msg == Sent(11, p, iid)
<1> DEFINE in == Xor(msg, {i})
<1> DEFINE result == correctMessage(in)
<1>1. LengthOf(11) = 56 /\ MODES_SHORT_MSG_BITS = 56 /\ 56 - 1 = 55
  BY BitsNumbers DEF LengthOf
<1>2. /\ msg \in SUBSET (0 .. 55) /\ IsFiniteSet(msg)
      /\ modesChecksum(msg, 56) = iid /\ HasType(msg, 11)
  <2>1. p \in SUBSET (5 .. 87) /\ iid \in SUBSET (0 .. 23)
    BY CorrectionAssumption
  <2>2. QED BY <1>1, <2>1, SentFacts
<1> HIDE DEF msg
<1>3. modesChecksum(in, 56) = Xor(iid, Powers[56 - i])
  BY <1>2, ErrorInShort
<1>4. in \in SUBSET (0 .. 55)
  BY <1>2 DEF Xor
<1>5. DF(in) \in {3, 9, 10, 11, 15, 27}
  BY <1>2, TypesAfterError
<1>6. Xor(in, msg) = {i}
  BY DEF Xor
<1> HIDE DEF in
<1>7. ShortOf(in) = in
  <2>1. ShortOf(in) = in \cap (0 .. 55)
    BY <1>1 DEF ShortOf
  <2>2. QED BY <1>4, <2>1
<1>8. ~TryLong(in)
  BY <1>5, TypesCorrected DEF TryLong
<1>9. ASSUME modesChecksum(in, 56) \subseteq 0 .. 6 PROVE i \in 49 .. 55
  <2>1. Powers[56 - i] \subseteq 0 .. 6
    BY <1>3, <1>9 DEF Xor
  <2>2. ~(56 - i \in 8 .. 112)
    BY <2>1, RemaindersNoCodes, BitsNumbers
  <2>3. QED BY <2>2
<1>10. ASSUME NEW m \in ShortFixed(in)
       PROVE  Xor(m, msg) \subseteq 49 .. 55
  <2>1. PICK e \in modesChecksumDiagnose(modesChecksum(in, 56), 56) : e # {} /\ m = Xor(in, e)
    BY <1>1, <1>7, <1>10 DEF ShortFixed
  <2>2. PICK b \in 0 .. 55 : e = {b} /\ modesChecksum(in, 56) = Powers[56 - b]
    BY <2>1, ShortExplanation
  <2>3. Xor(Powers[56 - i], Powers[56 - b]) = iid
    BY <1>3, <2>2 DEF Xor
  <2>4. 56 - i = 56 - b \/ (56 - i <= 7 /\ 56 - b <= 7)
    <3>1. 56 - i \in 1 .. MODES_LONG_MSG_BITS /\ 56 - b \in 1 .. MODES_LONG_MSG_BITS
      BY BitsNumbers
    <3>2. Xor(Powers[56 - i], Powers[56 - b]) \subseteq 0 .. 6
      BY <2>3
    <3>3. QED BY <3>1, <3>2, RemaindersNoCodes, Zenon
  <2>5. i = b \/ (i \in 49 .. 55 /\ b \in 49 .. 55)
    BY <2>4
  <2>6. Xor(m, msg) = Xor({i}, {b})
    BY <1>6, <2>1, <2>2 DEF Xor
  <2>7. QED BY <2>5, <2>6 DEF Xor
<1>11. CASE modesChecksum(in, 56) \subseteq 0 .. 6 /\ TryShort(in) /\ isShortPIMessage(in)
  <2>1. result = [corrections |-> 0, out |-> in]
    BY <1>1, <1>7, <1>8, <1>11, Attempts, Zenon
  <2>2. Xor(result.out, msg) \subseteq 49 .. 55
    BY <1>6, <1>9, <1>11, <2>1
  <2>3. QED BY <2>2 DEF in, msg
<1>12. CASE ~(modesChecksum(in, 56) \subseteq 0 .. 6 /\ TryShort(in) /\ isShortPIMessage(in))
  <2>1. CASE TryShort(in) /\ \E m \in ShortFixed(in) : isShortPIMessage(m)
    <3>1. result = [corrections |-> 1, out |-> CHOOSE m \in ShortFixed(in) : TRUE]
      BY <1>1, <1>8, <1>12, <2>1, Attempts, Zenon
    <3>2. (CHOOSE m \in ShortFixed(in) : TRUE) \in ShortFixed(in)
      BY <2>1
    <3>3. Xor(result.out, msg) \subseteq 49 .. 55
      BY <1>10, <3>1, <3>2
    <3>4. QED BY <3>3 DEF in, msg
  <2>2. CASE ~(TryShort(in) /\ \E m \in ShortFixed(in) : isShortPIMessage(m))
    <3>1. result = [corrections |-> Uncorrectable, out |-> in]
      BY <1>1, <1>8, <1>12, <2>2, Attempts, Zenon
    <3>2. QED BY <3>1 DEF in, msg
  <2>3. QED BY <2>1, <2>2
<1>13. QED BY <1>11, <1>12

\* Replies with the address laid over their checksum: one error would have to account for
\* the address and turn the type into that of an extended squitter.
LEMMA TypesTaken ==
    ASSUME NEW df \in {16, 21}, NEW msg, HasType(msg, df), NEW b \in Nat,
           isLongPIMessage(Xor(msg, {b}))
    PROVE  <<df, b>> \in {<<16, 4>>, <<16, 3>>, <<21, 2>>}
<1>1. DF(msg) = df
  BY TypeFound
<1>2. b < 5
  BY <1>1, TypeOfSum DEF isLongPIMessage
<1>3. PICK w \in {1, 2, 4, 8, 16} :
          /\ <<b, w>> \in {<<0, 16>>, <<1, 8>>, <<2, 4>>, <<3, 2>>, <<4, 1>>}
          /\ DF(Xor(msg, {b})) = IF b \in msg THEN DF(msg) - w ELSE DF(msg) + w
  BY <1>2, TypeOfSum
<1>4. \/ b = 0 /\ w = 16
      \/ b = 1 /\ w = 8
      \/ b = 2 /\ w = 4
      \/ b = 3 /\ w = 2
      \/ b = 4 /\ w = 1
  BY <1>3
<1>5. /\ 0 \in msg <=> (df \div 16) % 2 = 1
      /\ 1 \in msg <=> (df \div 8) % 2 = 1
      /\ 2 \in msg <=> (df \div 4) % 2 = 1
      /\ 3 \in msg <=> (df \div 2) % 2 = 1
      /\ 4 \in msg <=> (df \div 1) % 2 = 1
  BY TypeBits
<1>6. DF(Xor(msg, {b})) \in {17, 18}
  BY DEF isLongPIMessage
<1>7. CASE df = 16
  <2>1. 0 \in msg /\ 1 \notin msg /\ 2 \notin msg /\ 3 \notin msg /\ 4 \notin msg
    BY <1>5, <1>7
  <2>2. b = 4 \/ b = 3
    BY <1>1, <1>3, <1>4, <1>6, <1>7, <2>1
  <2>3. QED BY <1>7, <2>2
<1>8. CASE df = 21
  <2>1. 0 \in msg /\ 1 \notin msg /\ 2 \in msg /\ 3 \notin msg /\ 4 \in msg
    BY <1>5, <1>8
  <2>2. b = 2
    BY <1>1, <1>3, <1>4, <1>6, <1>8, <2>1
  <2>3. QED BY <1>8, <2>2
<1>9. QED BY <1>7, <1>8

\* Replies without a checksum of their own are not corrected, whatever the address is,
\* but for the three addresses where that is possible.
AddressParityLeft ==
    \A df \in {0, 4, 5, 16, 20, 21}, p \in Payloads, address \in SUBSET (0 .. 23) :
        \/ correctMessage(Sent(df, p, address)).corrections = Uncorrectable
        \/ <<df, address>> \in AddressesMistaken

\* Of the types that can be corrected, only 16 and 21 have an address for a checksum.
THEOREM AddressesAreLeft == AddressParityLeft
<1> SUFFICES ASSUME NEW df \in {0, 4, 5, 16, 20, 21}, NEW p \in Payloads,
                    NEW address \in SUBSET (0 .. 23),
                    <<df, address>> \notin AddressesMistaken
             PROVE  correctMessage(Sent(df, p, address)).corrections = Uncorrectable
  BY DEF AddressParityLeft
<1> DEFINE msg == Sent(df, p, address)
<1>1. HasType(msg, df) /\ modesChecksum(msg, LengthOf(df)) = address
  <2>1. p \in SUBSET (5 .. 87)
    BY CorrectionAssumption
  <2>2. QED BY <2>1, SentFacts
<1> HIDE DEF msg
<1>2. DF(msg) = df
  BY <1>1, TypeFound
<1>3. ~isLongPIMessage(msg) /\ ~isShortPIMessage(msg) /\ ~TryShort(msg)
  BY <1>2, TypesCorrected DEF isLongPIMessage, isShortPIMessage, TryShort
<1>4. ~(TryLong(msg) /\ \E m \in LongFixed(msg) : isLongPIMessage(m))
  <2> SUFFICES ASSUME TryLong(msg), NEW m \in LongFixed(msg), isLongPIMessage(m) PROVE FALSE
    OBVIOUS
  <2>1. df \in {16, 21}
    BY <1>2, TypesCorrected DEF TryLong
  <2>2. LengthOf(df) = 112 /\ MODES_LONG_MSG_BITS = 112
    BY <2>1, BitsNumbers DEF LengthOf
  <2>3. PICK e \in modesChecksumDiagnose(address, 112) : m = Xor(msg, e)
    BY <1>1, <2>2 DEF LongFixed
  <2>4. e # {}
    <3>1. Xor(msg, {}) = msg
      BY DEF Xor
    <3>2. QED BY <1>3, <2>3, <3>1
  <2>5. PICK b \in 0 .. 111 : e = {b} /\ address = Powers[112 - b]
    BY <2>3, <2>4, LongExplanation
  <2>6. <<df, b>> \in {<<16, 4>>, <<16, 3>>, <<21, 2>>}
    <3>1. isLongPIMessage(Xor(msg, {b})) /\ b \in Nat
      BY <2>3, <2>5
    <3>2. QED BY <1>1, <2>1, <3>1, TypesTaken
  <2>7. address = SyndromeOf(b, MODES_LONG_MSG_BITS)
    <3>1. 112 \in Lengths /\ b \in 0 .. 112 - 1
      BY BitsNumbers
    <3>2. QED BY <2>2, <2>5, <3>1, Syndromes
  <2>8. (df = 16 /\ b = 4) \/ (df = 16 /\ b = 3) \/ (df = 21 /\ b = 2)
    BY <2>6
  <2>9. <<df, address>> \in AddressesMistaken
    BY <2>7, <2>8 DEF AddressesMistaken
  <2>10. QED BY <2>9
<1>5. correctMessage(msg) = [corrections |-> Uncorrectable, out |-> msg]
  BY <1>3, <1>4, Attempts, Zenon
<1>6. QED BY <1>5 DEF msg

\* Syndromes are among the addresses.
LEMMA AddressesAreNotMistaken == AddressesNotMistaken
<1>1. \A b \in 0 .. 111 : SyndromeOf(b, MODES_LONG_MSG_BITS) \in SUBSET (0 .. 23)
  <2>1. SUFFICES ASSUME NEW b \in 0 .. 111 PROVE SyndromeOf(b, MODES_LONG_MSG_BITS) \in SUBSET (0 .. 23)
    OBVIOUS
  <2>2. MODES_LONG_MSG_BITS = 112 /\ 112 \in Lengths /\ b \in 0 .. 112 - 1 /\ 112 - b \in 1 .. 112
    BY BitsNumbers
  <2>3. Powers[112 - b] \in SUBSET (0 .. 23)
    BY <2>2, RemaindersOdd
  <2>4. QED BY <2>2, <2>3, Syndromes
<1>2. {} \in SUBSET (0 .. 23)
  OBVIOUS
<1>3. QED BY <1>1, <1>2, AddressesAreLeft DEF AddressParityLeft, AddressesNotMistaken

\* For any payloads, up to four errors and any address.
THEOREM CorrectionsAreSound == CorrectionsSound
BY SingleErrorsAreUndone, ErrorsAreNotMistaken, InterrogatorIsHarmless, AddressesAreNotMistaken
   DEF CorrectionsSound

\* While anything is tracked, what corrected messages rest on is right (correctMessage in
\* mode_s.c, whose messages create and update aircraft).
THEOREM CorrectionsAreRight == Spec => []CorrectionsRight
<1>1. CorrectionsRight
  BY CorrectionsAreSound DEF CorrectionsRight
<1>2. QED BY <1>1, PTL
================================================================================
