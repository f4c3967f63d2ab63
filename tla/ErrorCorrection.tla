---------------------------- MODULE ErrorCorrection ----------------------------
(***************************************************************************)
(* Checksums and the correction of bit errors: crc.c and correctMessage of *)
(* mode_s.c, with the real polynomial and the real lengths.  A word or a   *)
(* message is the set of its bits that are 1: the bits of a word by their  *)
(* weight, those of a message in the order in which they are sent.         *)
(*                                                                         *)
(* This is what Track takes for granted when it treats a corrected message *)
(* as the one that was sent.  Up to one error is corrected, as rbfeeder    *)
(* does and dump1090 without --fix-2bit.                                   *)
(***************************************************************************)
EXTENDS Naturals, Sequences, FiniteSets, SequencesExt

CONSTANTS
    nfix_crc,     \* errors to correct
    fix_df,       \* including those in the field for the message's type
    Payloads,     \* what messages carry, their bits from the sixth on
    MaxErrors     \* length -> how many errors are looked at

MODES_SHORT_MSG_BITS == 56
MODES_LONG_MSG_BITS == 112
Lengths == {MODES_SHORT_MSG_BITS, MODES_LONG_MSG_BITS}

ASSUME CorrectionAssumption ==
    /\ nfix_crc \in {0, 1}
    /\ fix_df \in BOOLEAN
    /\ \A p \in Payloads : p \subseteq 5 .. 87
    /\ MaxErrors \in [Lengths -> 0 .. 4]

MODES_GENERATOR_POLY == (12 .. 23) \cup {10, 3, 0}

Xor(v, w) == (v \ w) \cup (w \ v)

-------------------------------------------------------------------------------
(* crc.c                                                                      *)

\* One step of the loop in initLookupTables: times x, modulo the polynomial.
TimesX(w) == Xor({i + 1 : i \in w \ {23}}, IF 23 \in w THEN MODES_GENERATOR_POLY ELSE {})

crc_table(byte) ==
    LET c[i \in 0 .. 8] == IF i = 0 THEN {b + 16 : b \in byte} ELSE TimesX(c[i - 1])
    IN  c[8]

\* What a further byte of the message does to the remainder.
NextByte(rem) ==
    Xor({i + 8 : i \in {j \in rem : j < 16}}, crc_table({i - 16 : i \in {j \in rem : j >= 16}}))

\* The remainders of the powers of x; at n + 1 that of x to the n.
power[n \in 1 .. MODES_LONG_MSG_BITS] == IF n <= 24 THEN {n - 1} ELSE NextByte(power[n - 8])

Powers == SubSeq(power, 1, MODES_LONG_MSG_BITS)

\* What the polynomial is good for; nothing of this depends on a parameter.  The first 24
\* powers stand for themselves.
ASSUME FirstRemainders == \A n \in 1 .. 24 : Powers[n] = {n - 1}

\* Every remainder has an odd number of terms, as the polynomial is a multiple of x + 1.
ASSUME RemaindersOdd ==
    \A n \in 1 .. MODES_LONG_MSG_BITS :
        Powers[n] \subseteq 0 .. 23 /\ Cardinality(Powers[n]) % 2 = 1

\* Neither a remainder beyond the first, nor the sum of two, looks like an interrogator's code.
ASSUME RemaindersNoCodes ==
    /\ \A n \in 8 .. MODES_LONG_MSG_BITS : ~(Powers[n] \subseteq 0 .. 6)
    /\ \A m, n \in 1 .. MODES_LONG_MSG_BITS :
           Xor(Powers[m], Powers[n]) \subseteq 0 .. 6 => m = n \/ (m <= 7 /\ n <= 7)

\* All remainders differ, and so do all sums of two.
PairsOfPowers == {p \in (1 .. MODES_LONG_MSG_BITS) \X (1 .. MODES_LONG_MSG_BITS) : p[1] < p[2]}
SumsOfPowers == {Xor(Powers[p[1]], Powers[p[2]]) : p \in PairsOfPowers}

ASSUME RemaindersDiffer ==
    /\ \A m, n \in 1 .. MODES_LONG_MSG_BITS : Powers[m] = Powers[n] => m = n
    /\ Cardinality(SumsOfPowers) = Cardinality(PairsOfPowers)

\* The remainder of the first bits of a message, as a polynomial.
modesChecksum(msg, bits) ==
    {i \in 0 .. 23 : Cardinality({p \in msg : p < bits /\ i \in Powers[bits - p]}) % 2 = 1}

\* At i + 1 the syndrome of bit i of a long message.
single_bit_syndrome == SubSeq([i \in 1 .. MODES_LONG_MSG_BITS |->
                                  modesChecksum({i - 1}, MODES_LONG_MSG_BITS)],
                              1, MODES_LONG_MSG_BITS)

\* As if every message were a long one.
SyndromeIfLong(i, bits) == single_bit_syndrome[i + 1]

\* A short message is the end of a long one.
SyndromeOf(i, bits) == single_bit_syndrome[i + MODES_LONG_MSG_BITS - bits + 1]

\* prepareErrorTable, for single errors; what more than one bit could explain is left out.
prepareErrorTable(bits) ==
    {[syndrome |-> SyndromeOf(i, bits), bit |-> i] :
        i \in {k \in 0 .. bits - 1 : \A j \in 0 .. bits - 1 :
                  SyndromeOf(j, bits) = SyndromeOf(k, bits) => j = k}}

\* modesChecksumInit
bitErrorTable_short == IF nfix_crc = 0 THEN {} ELSE prepareErrorTable(MODES_SHORT_MSG_BITS)
bitErrorTable_long == IF nfix_crc = 0 THEN {} ELSE prepareErrorTable(MODES_LONG_MSG_BITS)

bitErrorTable(bits) ==
    IF bits = MODES_SHORT_MSG_BITS THEN bitErrorTable_short ELSE bitErrorTable_long

\* modesChecksumDiagnose: the bits in error, {} if there are none, in a set that is
\* empty when nothing fits.
modesChecksumDiagnose(syndrome, bits) ==
    IF syndrome = {} THEN {{}}
    ELSE {{e.bit} : e \in {x \in bitErrorTable(bits) : x.syndrome = syndrome}}

-------------------------------------------------------------------------------
(* mode_s.c                                                                   *)

\* The first five bits.
Weights == <<16, 8, 4, 2, 1>>
Bit(msg, i) == IF i \in msg THEN Weights[i + 1] ELSE 0
DF(msg) == Bit(msg, 0) + Bit(msg, 1) + Bit(msg, 2) + Bit(msg, 3) + Bit(msg, 4)

isLongPIMessage(msg) == DF(msg) \in {17, 18}
isShortPIMessage(msg) == DF(msg) = 11

fix_df_bits == IF fix_df THEN nfix_crc ELSE 0

df_correctable_short == IF fix_df_bits = 0 THEN {11} ELSE {3, 9, 10, 11, 15, 27}
df_correctable_long ==
    IF fix_df_bits = 0 THEN {17, 18} ELSE {1, 2, 16, 17, 18, 19, 21, 22, 25, 26}

\* correctMessage: the number of corrections, or -1 (here 2) when there is none that
\* makes sense, and the corrected message.  A single error in a long message is looked
\* for first.
Uncorrectable == 2

correctMessage(in) ==
    LET short == in \cap (0 .. MODES_SHORT_MSG_BITS - 1)
        long_syndrome == modesChecksum(in, MODES_LONG_MSG_BITS)
        short_syndrome == modesChecksum(in, MODES_SHORT_MSG_BITS)
        tryLong == DF(in) \in df_correctable_long
        tryShort == DF(in) \in df_correctable_short
        long_fixed == {Xor(in, e) : e \in modesChecksumDiagnose(long_syndrome, MODES_LONG_MSG_BITS)}
        short_fixed == {Xor(short, e) :
                           e \in modesChecksumDiagnose(short_syndrome, MODES_SHORT_MSG_BITS) \ {{}}}
    IN  IF tryLong /\ isLongPIMessage(in) /\ long_syndrome = {}
        THEN [corrections |-> 0, out |-> in]
        ELSE IF tryShort /\ isShortPIMessage(in) /\ short_syndrome \subseteq 0 .. 6
        THEN [corrections |-> 0, out |-> short]
        ELSE IF tryLong /\ \E m \in long_fixed : isLongPIMessage(m)
        THEN [corrections |-> 1, out |-> CHOOSE m \in long_fixed : TRUE]
        ELSE IF tryShort /\ \E m \in short_fixed : isShortPIMessage(m)
        THEN [corrections |-> 1, out |-> CHOOSE m \in short_fixed : TRUE]
        ELSE [corrections |-> Uncorrectable, out |-> in]

-------------------------------------------------------------------------------
(* Transponders                                                               *)

LengthOf(df) == IF df < 16 THEN MODES_SHORT_MSG_BITS ELSE MODES_LONG_MSG_BITS

\* A message with its checksum, overlaid with a word: the address (DF 0, 4, 5, 16, 20,
\* 21), the interrogator (DF 11), or nothing.
Sent(df, payload, word) ==
    LET bits == LengthOf(df)
        data == {i \in 0 .. 4 : (df \div Weights[i + 1]) % 2 = 1} \cup {i \in payload : i < bits - 24}
    IN  data \cup {bits - 1 - i : i \in Xor(modesChecksum(data, bits), word)}

-------------------------------------------------------------------------------
(* Properties                                                                 *)

\* What may follow a short message in the buffer: anything, or just what makes it look
\* like a long message with a correct checksum.
Tails(msg) ==
    LET tails == {{i \in p : i >= MODES_SHORT_MSG_BITS} : p \in Payloads}
    IN  tails \cup {t \cup {111 - i : i \in modesChecksum(msg \cup t, 112)} : t \in tails}

\* A single error in a message with a checksum is undone, wherever it is, the type of
\* the message included.  Among the last bits of an all-call reply it changes the
\* interrogator instead.
SingleErrorsUndone ==
    nfix_crc = 1 /\ fix_df =>
        \A df \in {11, 17, 18}, p \in Payloads :
            LET msg == Sent(df, p, {})
            IN  \A i \in 0 .. LengthOf(df) - 1, t \in IF df = 11 THEN Tails(msg) ELSE {{}} :
                    LET result == correctMessage(Xor(msg, {i}) \cup t)
                    IN  \/ result = [corrections |-> 1, out |-> msg]
                        \/ df = 11 /\ i >= 49 /\ result.corrections = 0

\* The syndromes that modesChecksumDiagnose has an answer for.
Explained(bits) == {{}} \cup {e.syndrome : e \in bitErrorTable(bits)}

\* "For 1 bit correction, we have 100% coverage up to 4 bit detection, so don't bother
\* with flagging collisions there" (modesChecksumInit): two, three or four errors are
\* taken neither for one nor for none.
ErrorsNotMistaken ==
    \A bits \in Lengths : LET known == Explained(bits) IN
        \A i \in 0 .. bits - 1 : \A j \in i + 1 .. bits - 1 :
            LET two == Xor(SyndromeOf(i, bits), SyndromeOf(j, bits))
            IN  /\ MaxErrors[bits] >= 2 => two \notin known
                /\ MaxErrors[bits] >= 3 => \A k \in j + 1 .. bits - 1 :
                       LET three == Xor(two, SyndromeOf(k, bits))
                       IN  /\ three \notin known
                           /\ MaxErrors[bits] >= 4 => \A l \in k + 1 .. bits - 1 :
                                  Xor(three, SyndromeOf(l, bits)) \notin known

\* The interrogator's code is laid over the checksum of an all-call reply, so that it
\* looks like errors: it never leads to a wrong correction ("we get no ambiguous
\* syndromes", crc.c).
InterrogatorHarmless ==
    \A p \in Payloads, iid \in SUBSET (0 .. 6) :
        LET msg == Sent(11, p, iid)
        IN  \A i \in 0 .. 55 :
                LET result == correctMessage(Xor(msg, {i}))
                IN  \/ result.corrections = Uncorrectable
                    \/ Xor(result.out, msg) \subseteq 49 .. 55

\* Replies without a checksum of their own, because the address is laid over it, are
\* not turned into messages with one.  There are three addresses for which they are:
\* one bit of the type then accounts for all of the address.
AddressesMistaken ==
    LET syndrome(i) == SyndromeOf(i, MODES_LONG_MSG_BITS)
    IN  {<<16, syndrome(4)>>, <<16, syndrome(3)>>, <<21, syndrome(2)>>}

AddressesNotMistaken ==
    \A df \in {0, 4, 5, 16, 20, 21}, p \in Payloads,
       address \in {{}} \cup {SyndromeOf(i, MODES_LONG_MSG_BITS) : i \in 0 .. 111} :
        \/ correctMessage(Sent(df, p, address)).corrections = Uncorrectable
        \/ <<df, address>> \in AddressesMistaken

CorrectionsSound ==
    /\ SingleErrorsUndone
    /\ ErrorsNotMistaken
    /\ InterrogatorHarmless
    /\ AddressesNotMistaken
===============================================================================
