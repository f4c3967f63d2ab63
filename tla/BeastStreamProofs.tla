--------------------------- MODULE BeastStreamProofs ---------------------------
(***************************************************************************)
(* Proofs about BeastStream, for any messages, settings and garbage, and   *)
(* any buffer that a message fits in: however read() cuts a stream, the    *)
(* reader handles what one scan of the whole stream would, and that is     *)
(* what was written.                                                       *)
(*                                                                         *)
(* The loops of the code are Turns; what holds for each state of a loop is *)
(* a set for each number of turns (LoopInvariant), by the one induction    *)
(* that is needed, SetInduction.  The invariant of modesReadFromClient is  *)
(* Reads: its buffer is what the stream has at that place, and a reader    *)
(* that had the whole stream before it has come to that place and handled  *)
(* the same (Behind).  It is an invariant because the end of a message is  *)
(* the place of the byte after its last one (EndOfIsPlace), which depends  *)
(* only on its bytes, wherever they stand (PlacesShift, SameMessage), and  *)
(* because a buffer that is full after a scan holds no mark, so that       *)
(* emptying it loses nothing (FullIsClear).                                *)
(***************************************************************************)
EXTENDS BeastStream, FiniteSetTheorems, SequenceTheorems, WellFoundedInduction, TLAPS

-------------------------------------------------------------------------------
(* Loops                                                                      *)

\* A set of numbers has a least one.
LEMMA LeastElement ==
    ASSUME NEW S \in SUBSET Nat, S # {}
    PROVE  Min(S) \in S /\ \A n \in S : Min(S) <= n
<1> DEFINE less == OpToRel(<, Nat)
<1>1. \A k \in Nat, l \in Nat : k < l => <<k, l>> \in less
  BY DEF OpToRel
<1>2. IsWellFoundedOn(less, Nat)
  BY NatLessThanWellFounded
<1> HIDE DEF less
<1>3. PICK m \in S : \A n \in S : ~(<<n, m>> \in less)
  BY <1>2, WFMin
<1>4. ASSUME NEW n \in S PROVE m <= n
  <2>1. m \in Nat /\ n \in Nat
    OBVIOUS
  <2>2. ~(n < m)
    BY <1>1, <1>3, <2>1, Zenon
  <2>3. QED BY <2>1, <2>2
<1>5. \E x \in S : \A n \in S : x <= n
  BY <1>3, <1>4
<1>6. QED BY <1>5 DEF Min

\* Induction, for a property that is written as the set of the numbers that have it.
LEMMA SetInduction ==
    ASSUME NEW S, 0 \in S, \A n \in Nat : n \in S => n + 1 \in S
    PROVE  \A n \in Nat : n \in S
<1> SUFFICES ASSUME Nat \ S # {} PROVE FALSE
  OBVIOUS
<1> DEFINE m == Min(Nat \ S)
<1>1. m \in Nat /\ m \notin S /\ \A n \in Nat \ S : m <= n
  BY LeastElement
<1> HIDE DEF m
<1>2. m # 0
  BY <1>1
<1>3. m - 1 \in Nat /\ (m - 1) + 1 = m /\ ~(m <= m - 1)
  BY <1>1, <1>2
<1>4. m - 1 \in S
  BY <1>1, <1>3, Zenon
<1>5. (m - 1) + 1 \in S
  BY <1>3, <1>4, Zenon
<1>6. QED BY <1>1, <1>3, <1>5

\* The first n turns of a loop can be written down.
Begun(turn, start, n, f) ==
    /\ f = [k \in 0 .. n |-> f[k]]
    /\ f[0] = start
    /\ \A k \in 0 .. n : k < n => f[k + 1] = turn[f[k]]

LEMMA TurnsBegin ==
    ASSUME NEW turn, NEW start
    PROVE  \A n \in Nat : \E f : Begun(turn, start, n, f)
<1> DEFINE S == {n \in Nat : \E f : Begun(turn, start, n, f)}
<1>1. 0 \in S
  <2> DEFINE f == [k \in 0 .. 0 |-> start]
  <2>1. Begun(turn, start, 0, f)
    BY DEF Begun
  <2>2. QED BY <2>1
<1>2. ASSUME NEW n \in Nat, n \in S PROVE n + 1 \in S
  <2>1. PICK f : Begun(turn, start, n, f)
    BY <1>2
  <2> DEFINE g == [k \in 0 .. n + 1 |-> IF k = n + 1 THEN turn[f[n]] ELSE f[k]]
  <2>2. g = [k \in 0 .. n + 1 |-> g[k]]
    OBVIOUS
  <2>3. g[0] = start
    BY <2>1 DEF Begun
  <2>4. ASSUME NEW k \in 0 .. n + 1, k < n + 1 PROVE g[k + 1] = turn[g[k]]
    <3>1. CASE k = n
      BY <3>1
    <3>2. CASE k < n
      <4>1. f[k + 1] = turn[f[k]] /\ k \in 0 .. n
        BY <2>1, <3>2 DEF Begun
      <4>2. k + 1 \in 0 .. n + 1 /\ k + 1 # n + 1 /\ k \in 0 .. n + 1 /\ k # n + 1
        BY <3>2
      <4>3. QED BY <4>1, <4>2, Zenon
    <3>3. QED BY <2>4, <3>1, <3>2
  <2> HIDE DEF g
  <2>5. Begun(turn, start, n + 1, g)
    BY <2>2, <2>3, <2>4 DEF Begun
  <2>6. QED BY <2>5
<1> HIDE DEF S
<1>3. \A n \in Nat : n \in S
  BY <1>1, <1>2, SetInduction
<1>4. QED BY <1>3 DEF S

\* Any two ways to write them down agree.
LEMMA TurnsAgree ==
    ASSUME NEW turn, NEW start, NEW n \in Nat, NEW f, Begun(turn, start, n, f),
           NEW m \in Nat, n <= m, NEW g, Begun(turn, start, m, g)
    PROVE  f[n] = g[n]
<1> DEFINE S == {k \in Nat : k <= n => f[k] = g[k]}
<1>1. 0 \in S
  BY DEF Begun
<1>2. ASSUME NEW k \in Nat, k \in S PROVE k + 1 \in S
  <2>1. CASE k < n
    <3>1. f[k] = g[k] /\ k \in 0 .. n /\ k \in 0 .. m /\ k < m
      BY <1>2, <2>1
    <3>2. f[k + 1] = turn[f[k]] /\ g[k + 1] = turn[g[k]]
      BY <2>1, <3>1, Zenon DEF Begun
    <3>3. QED BY <3>1, <3>2
  <2>2. CASE ~(k < n)
    BY <2>2
  <2>3. QED BY <2>1, <2>2
<1> HIDE DEF S
<1>3. n \in S
  BY <1>1, <1>2, SetInduction
<1>4. QED BY <1>3 DEF S

\* Turns is the sequence of states it is meant to be.
LEMMA TurnsGo ==
    ASSUME NEW turn, NEW start
    PROVE  /\ Turns(turn, start)[0] = start
           /\ \A n \in Nat : Turns(turn, start)[n + 1] = turn[Turns(turn, start)[n]]
<1> DEFINE F(n) == CHOOSE f : Begun(turn, start, n, f)
           h == [n \in Nat |-> F(n)[n]]
<1>1. ASSUME NEW n \in Nat PROVE Begun(turn, start, n, F(n))
  BY TurnsBegin
<1> HIDE DEF F
<1>2. h[0] = start
  BY <1>1 DEF Begun
<1>3. ASSUME NEW n \in Nat PROVE h[n + 1] = turn[h[n]]
  <2>1. F(n + 1)[n + 1] = turn[F(n + 1)[n]]
    <3>1. Begun(turn, start, n + 1, F(n + 1))
      BY <1>1
    <3>2. n \in 0 .. n + 1 /\ n < n + 1
      OBVIOUS
    <3>3. QED BY <3>1, <3>2, Zenon DEF Begun
  <2>2. Begun(turn, start, n, F(n)) /\ Begun(turn, start, n + 1, F(n + 1)) /\ n + 1 \in Nat /\ n <= n + 1
    BY <1>1
  <2>3. F(n)[n] = F(n + 1)[n]
    BY <2>2, TurnsAgree
  <2>4. QED BY <2>1, <2>3
<1>4. h = [n \in Nat |-> IF n = 0 THEN start ELSE turn[h[n - 1]]]
  <2>1. ASSUME NEW n \in Nat PROVE h[n] = IF n = 0 THEN start ELSE turn[h[n - 1]]
    <3>1. CASE n = 0
      BY <1>2, <3>1
    <3>2. CASE n # 0
      <4>1. n - 1 \in Nat /\ (n - 1) + 1 = n
        BY <3>2
      <4>2. h[(n - 1) + 1] = turn[h[n - 1]]
        BY <1>3, <4>1
      <4>3. QED BY <3>2, <4>1, <4>2
    <3>3. QED BY <3>1, <3>2
  <2> HIDE DEF h
  <2>2. DOMAIN h = Nat /\ h = [n \in Nat |-> h[n]]
    BY DEF h
  <2>3. QED BY <2>1, <2>2
<1> HIDE DEF h
<1>5. Turns(turn, start) = [n \in Nat |-> IF n = 0 THEN start ELSE turn[Turns(turn, start)[n - 1]]]
  BY <1>4 DEF Turns
<1>6. Turns(turn, start)[0] = start
  BY <1>5
<1>7. ASSUME NEW n \in Nat PROVE Turns(turn, start)[n + 1] = turn[Turns(turn, start)[n]]
  <2>1. n + 1 \in Nat /\ n + 1 # 0 /\ (n + 1) - 1 = n
    OBVIOUS
  <2>2. QED BY <1>5, <2>1
<1>8. QED BY <1>6, <1>7

\* An invariant of a loop, which may depend on the number of turns.
LEMMA LoopInvariant ==
    ASSUME NEW turn, NEW start, NEW N \in Nat, NEW I, start \in I[0],
           \A n \in 0 .. N : n < N => \A s \in I[n] : turn[s] \in I[n + 1]
    PROVE  \A n \in 0 .. N : Turns(turn, start)[n] \in I[n]
<1> DEFINE S == {n \in Nat : n <= N => Turns(turn, start)[n] \in I[n]}
<1>1. 0 \in S
  BY TurnsGo
<1>2. ASSUME NEW n \in Nat, n \in S PROVE n + 1 \in S
  <2>1. CASE n < N
    <3>1. n \in 0 .. N /\ n <= N
      BY <2>1
    <3>2. Turns(turn, start)[n] \in I[n]
      BY <1>2, <3>1
    <3>3. turn[Turns(turn, start)[n]] \in I[n + 1]
      BY <2>1, <3>1, <3>2, Zenon
    <3>4. Turns(turn, start)[n + 1] = turn[Turns(turn, start)[n]]
      BY TurnsGo
    <3>5. QED BY <3>3, <3>4
  <2>2. CASE ~(n < N)
    BY <2>2
  <2>3. QED BY <2>1, <2>2
<1> HIDE DEF S
<1>3. \A n \in Nat : n \in S
  BY <1>1, <1>2, SetInduction
<1>4. QED BY <1>3 DEF S

-------------------------------------------------------------------------------
(* Bytes one after the other                                                  *)

LEMMA BytesAssociative ==
    ASSUME NEW t \in Seq(Byte), NEW u \in Seq(Byte), NEW v \in Seq(Byte)
    PROVE  (t \o u) \o v = t \o (u \o v)
BY ConcatAssociative

LEMMA BytesTogether ==
    ASSUME NEW t \in Seq(Byte), NEW u \in Seq(Byte)
    PROVE  /\ t \o u \in Seq(Byte)
           /\ Len(t) \in Nat /\ Len(u) \in Nat /\ Len(t \o u) = Len(t) + Len(u)
           /\ \A q \in 1 .. Len(t) : (t \o u)[q] = t[q]
           /\ \A q \in 1 .. Len(u) : (t \o u)[Len(t) + q] = u[q]
OBVIOUS

LEMMA BytesBefore ==
    ASSUME NEW t \in Seq(Byte), NEW u \in Seq(Byte), NEW q \in 1 .. Len(t)
    PROVE  (t \o u)[q] = t[q]
OBVIOUS

-------------------------------------------------------------------------------
(* Places of bytes                                                            *)

\* Places goes from a byte to the next.
LEMMA PlacesGo ==
    ASSUME NEW buf, NEW p \in Nat
    PROVE  /\ Places(buf, p)[0] = p
           /\ \A n \in Nat :
                 /\ Places(buf, p)[n] \in Nat
                 /\ Places(buf, p)[n + 1] = IF buf[Places(buf, p)[n]] = Escape
                                            THEN Places(buf, p)[n] + 2 ELSE Places(buf, p)[n] + 1
<1> DEFINE turn == [q \in Nat |-> IF buf[q] = Escape THEN q + 2 ELSE q + 1]
           J == Turns(turn, p)
           S == {n \in Nat : J[n] \in Nat}
<1>1. J[0] = p /\ \A n \in Nat : J[n + 1] = turn[J[n]]
  BY TurnsGo
<1>2. Places(buf, p) = J
  BY DEF Places
<1> HIDE DEF J
<1>3. 0 \in S
  BY <1>1
<1>4. ASSUME NEW n \in Nat, n \in S PROVE n + 1 \in S
  <2>1. J[n] \in Nat /\ J[n + 1] = turn[J[n]]
    BY <1>1, <1>4
  <2>2. J[n] + 2 \in Nat /\ J[n] + 1 \in Nat
    BY <2>1
  <2>3. J[n + 1] \in Nat
    BY <2>1, <2>2, Zenon
  <2>4. QED BY <2>3
<1> HIDE DEF S
<1>5. \A n \in Nat : n \in S
  BY <1>3, <1>4, SetInduction
<1>6. \A n \in Nat : J[n] \in Nat
  BY <1>5 DEF S
<1>7. QED BY <1>1, <1>2, <1>6

\* Each byte takes one place or two.
LEMMA PlacesBounds ==
    ASSUME NEW buf, NEW p \in Nat
    PROVE  \A n \in Nat : /\ Places(buf, p)[n] >= p + n
                          /\ Places(buf, p)[n] <= p + 2 * n
                          /\ buf[p] # Escape /\ n > 0 => Places(buf, p)[n] < p + 2 * n
<1> DEFINE J == Places(buf, p)
           S == {n \in Nat : /\ J[n] >= p + n
                             /\ J[n] <= p + 2 * n
                             /\ buf[p] # Escape /\ n > 0 => J[n] < p + 2 * n}
<1>1. J[0] = p /\ \A n \in Nat : J[n] \in Nat /\ J[n + 1] = IF buf[J[n]] = Escape THEN J[n] + 2 ELSE J[n] + 1
  BY PlacesGo
<1> HIDE DEF J
<1>2. 0 \in S
  BY <1>1
<1>3. ASSUME NEW n \in Nat, n \in S PROVE n + 1 \in S
  <2>1. J[n] \in Nat /\ J[n + 1] = IF buf[J[n]] = Escape THEN J[n] + 2 ELSE J[n] + 1
    BY <1>1
  <2>2. CASE n = 0
    BY <1>1, <2>1, <2>2
  <2>3. CASE n # 0
    BY <1>3, <2>1, <2>3
  <2>4. QED BY <2>2, <2>3
<1> HIDE DEF S
<1>4. \A n \in Nat : n \in S
  BY <1>2, <1>3, SetInduction
<1>5. QED BY <1>4 DEF S, J

\* Later bytes have later places.
LEMMA PlacesGrow ==
    ASSUME NEW buf, NEW p \in Nat, NEW k \in Nat, NEW n \in Nat, k < n
    PROVE  Places(buf, p)[k] < Places(buf, p)[n]
<1> DEFINE J == Places(buf, p)
           S == {l \in Nat : k < l => J[k] < J[l]}
<1>1. \A l \in Nat : J[l] \in Nat /\ (J[l + 1] = J[l] + 2 \/ J[l + 1] = J[l] + 1)
  BY PlacesGo
<1> HIDE DEF J
<1>2. 0 \in S
  OBVIOUS
<1>3. ASSUME NEW l \in Nat, l \in S PROVE l + 1 \in S
  <2>1. J[l] \in Nat /\ J[k] \in Nat /\ J[l + 1] \in Nat /\ (J[l + 1] = J[l] + 2 \/ J[l + 1] = J[l] + 1)
    BY <1>1
  <2>2. CASE k < l
    BY <1>3, <2>1, <2>2
  <2>3. CASE k = l
    BY <2>1, <2>3
  <2>4. CASE l < k
    BY <2>4
  <2>5. QED BY <2>2, <2>3, <2>4
<1> HIDE DEF S
<1>4. n \in S
  BY <1>2, <1>3, SetInduction
<1>5. QED BY <1>4 DEF S, J

\* From p to last the bytes of buf stand o places later in s.
SameBytes(buf, p, last, s, o) == \A q \in Nat : p <= q /\ q <= last => s[o + q] = buf[q]

\* The first bytes have the same places in s, from r on.
SamePlaces(buf, p, n, s, r, o) == \A k \in 0 .. n : Places(s, r)[k] = o + Places(buf, p)[k]

\* Where the same bytes stand elsewhere they have the same places there.
LEMMA PlacesShift ==
    ASSUME NEW buf, NEW p \in Nat, NEW s, NEW o \in Int, NEW r \in Nat, r = o + p, NEW last \in Nat,
           SameBytes(buf, p, last, s, o),
           NEW n \in Nat, Places(buf, p)[n] <= last + 1
    PROVE  SamePlaces(buf, p, n, s, r, o)
<1> DEFINE J == Places(buf, p)
           K == Places(s, r)
           S == {k \in Nat : k <= n => K[k] = o + J[k]}
<1>1. J[0] = p /\ \A k \in Nat : J[k] \in Nat /\ J[k + 1] = IF buf[J[k]] = Escape THEN J[k] + 2 ELSE J[k] + 1
  BY PlacesGo
<1>2. K[0] = r /\ \A k \in Nat : K[k] \in Nat /\ K[k + 1] = IF s[K[k]] = Escape THEN K[k] + 2 ELSE K[k] + 1
  BY PlacesGo
<1>3. \A k \in Nat : k < n => J[k] < J[n]
  BY PlacesGrow
<1>4. \A k \in Nat : p <= J[k]
  <2>1. \A k \in Nat : J[k] >= p + k
    BY PlacesBounds
  <2> HIDE DEF J
  <2>2. QED BY <1>1, <2>1
<1>5. J[n] <= last + 1
  OBVIOUS
<1> HIDE DEF J, K
<1>6. 0 \in S
  BY <1>1, <1>2
<1>7. ASSUME NEW k \in Nat, k \in S PROVE k + 1 \in S
  <2>1. CASE k < n
    <3>1. J[k] \in Nat /\ J[k] < J[n] /\ J[n] \in Nat /\ p <= J[k] /\ K[k] = o + J[k]
      BY <1>1, <1>3, <1>4, <1>7, <2>1
    <3>2. J[k] <= last
      BY <1>5, <3>1
    <3>3. s[K[k]] = buf[J[k]]
      BY <3>1, <3>2, Zenon DEF SameBytes
    <3>4. J[k + 1] = IF buf[J[k]] = Escape THEN J[k] + 2 ELSE J[k] + 1
      BY <1>1
    <3>5. K[k + 1] = IF s[K[k]] = Escape THEN K[k] + 2 ELSE K[k] + 1
      BY <1>2
    <3>6. K[k + 1] = o + J[k + 1]
      BY <3>1, <3>3, <3>4, <3>5
    <3>7. QED BY <3>6
  <2>2. CASE ~(k < n)
    BY <2>2
  <2>3. QED BY <2>1, <2>2
<1> HIDE DEF S
<1>8. \A k \in Nat : k \in S
  BY <1>6, <1>7, SetInduction
<1>9. QED BY <1>8 DEF S, J, K, SamePlaces

-------------------------------------------------------------------------------
(* The end of a message                                                       *)

\* EndOf counts the bytes that have places in the buffer, and the rest as they are missing.
LEMMA EndOfCounts ==
    ASSUME NEW buf, Len(buf) \in Nat, NEW p \in Nat \ {0}, NEW N \in Nat
    PROVE  \E k \in 0 .. N : /\ k = N \/ Places(buf, p)[k] > Len(buf)
                             /\ EndOf(buf, p, p + N) = Places(buf, p)[k] + (N - k)
<1> DEFINE J == Places(buf, p)
           L == Len(buf)
           look == [s \in [p : Nat, eom : Nat] |->
                       IF s.p > L \/ s.p >= s.eom THEN s
                       ELSE IF buf[s.p] = Escape THEN [p |-> s.p + 2, eom |-> s.eom + 1]
                       ELSE [p |-> s.p + 1, eom |-> s.eom]]
           start == [p |-> p, eom |-> p + N]
           At(k) == [p |-> J[k], eom |-> J[k] + (N - k)]
           I == [n \in Nat |-> {At(k) : k \in {l \in 0 .. N : l = n \/ (l <= n /\ (l = N \/ J[l] > L))}}]
<1>1. J[0] = p /\ \A k \in Nat : J[k] \in Nat /\ J[k + 1] = IF buf[J[k]] = Escape THEN J[k] + 2 ELSE J[k] + 1
  BY PlacesGo
<1>2. J[L] >= p + L
  BY PlacesBounds
<1>3. EndOf(buf, p, p + N) = Turns(look, start)[L].eom
  BY DEF EndOf
<1> HIDE DEF J
<1>4. start \in I[0]
  <2>1. start = At(0)
    BY <1>1
  <2>2. QED BY <2>1
<1>5. ASSUME NEW n \in 0 .. L, n < L, NEW s \in I[n] PROVE look[s] \in I[n + 1]
  <2>1. PICK k \in 0 .. N : s = At(k) /\ (k = n \/ (k <= n /\ (k = N \/ J[k] > L)))
    BY <1>5
  <2>2. J[k] \in Nat /\ J[k] + (N - k) \in Nat /\ s \in [p : Nat, eom : Nat]
    <3> k \in Nat /\ N - k \in Nat
      OBVIOUS
    <3>1. J[k] \in Nat
      BY <1>1, Zenon
    <3>2. J[k] + (N - k) \in Nat
      BY <3>1
    <3>3. QED BY <2>1, <3>1, <3>2, Zenon
  <2>3. s.p = J[k] /\ s.eom = J[k] + (N - k)
    BY <2>1
  <2>4. CASE k = N \/ J[k] > L
    <3>1. look[s] = s
      BY <2>2, <2>3, <2>4
    <3>2. k <= n + 1
      BY <2>1
    <3> HIDE DEF look
    <3>3. QED BY <2>1, <2>4, <3>1, <3>2
  <2>5. CASE k < N /\ J[k] <= L
    <3>1. k = n /\ k + 1 \in 0 .. N
      BY <2>1, <2>2, <2>5
    <3>2. J[k + 1] = IF buf[J[k]] = Escape THEN J[k] + 2 ELSE J[k] + 1
      BY <1>1
    <3>3. ~(s.p > L \/ s.p >= s.eom)
      BY <2>2, <2>3, <2>5
    <3>4. look[s] = IF buf[J[k]] = Escape THEN [p |-> J[k] + 2, eom |-> J[k] + (N - k) + 1]
                    ELSE [p |-> J[k] + 1, eom |-> J[k] + (N - k)]
      BY <2>2, <2>3, <3>3
    <3>5. look[s] = At(k + 1)
      <4>1. CASE buf[J[k]] = Escape
        <5>1. J[k + 1] = J[k] + 2
          BY <3>2, <4>1
        <5>2. J[k] + (N - k) + 1 = J[k] + 2 + (N - (k + 1))
          BY <2>2
        <5> HIDE DEF look
        <5>3. QED BY <3>4, <4>1, <5>1, <5>2
      <4>2. CASE buf[J[k]] # Escape
        <5>1. J[k + 1] = J[k] + 1
          BY <3>2, <4>2
        <5>2. J[k] + (N - k) = J[k] + 1 + (N - (k + 1))
          BY <2>2
        <5> HIDE DEF look
        <5>3. QED BY <3>4, <4>2, <5>1, <5>2
      <4>3. QED BY <4>1, <4>2
    <3> HIDE DEF look
    <3>6. QED BY <3>1, <3>5
  <2>6. QED BY <2>2, <2>4, <2>5
<1> HIDE DEF I, look, start
<1>6. \A n \in 0 .. L : Turns(look, start)[n] \in I[n]
  BY <1>4, <1>5, LoopInvariant
<1>7. Turns(look, start)[L] \in I[L]
  BY <1>6
<1>8. PICK k \in 0 .. N : Turns(look, start)[L] = At(k) /\ (k = L \/ k = N \/ J[k] > L)
  BY <1>7 DEF I
<1>9. k = N \/ J[k] > L
  <2>1. J[L] \in Nat
    BY <1>1
  <2>2. J[L] > L
    BY <1>2, <2>1
  <2>3. QED BY <1>8, <2>2
<1>10. EndOf(buf, p, p + N) = J[k] + (N - k)
  BY <1>3, <1>8
<1>11. QED BY <1>9, <1>10 DEF J

\* When all bytes are there it is the place after the last, otherwise beyond the buffer.
LEMMA EndOfIsPlace ==
    ASSUME NEW buf, Len(buf) \in Nat, NEW p \in Nat \ {0}, NEW N \in Nat
    PROVE  /\ EndOf(buf, p, p + N) \in Nat
           /\ EndOf(buf, p, p + N) >= p + N
           /\ EndOf(buf, p, p + N) <= p + 2 * N
           /\ buf[p] # Escape /\ N > 0 => EndOf(buf, p, p + N) < p + 2 * N
           /\ Places(buf, p)[N] <= Len(buf) + 1 => EndOf(buf, p, p + N) = Places(buf, p)[N]
           /\ EndOf(buf, p, p + N) <= Len(buf) + 1 => EndOf(buf, p, p + N) = Places(buf, p)[N]
<1> DEFINE J == Places(buf, p)
           e == EndOf(buf, p, p + N)
<1>1. PICK k \in 0 .. N : (k = N \/ J[k] > Len(buf)) /\ e = J[k] + (N - k)
  BY EndOfCounts
<1>2. J[k] \in Nat /\ J[N] \in Nat
  BY PlacesGo
<1>3. J[k] >= p + k /\ J[k] <= p + 2 * k /\ (buf[p] # Escape /\ k > 0 => J[k] < p + 2 * k)
  BY PlacesBounds
<1>4. k < N => J[k] < J[N]
  BY PlacesGrow
<1> HIDE DEF J, e
<1>5. e \in Nat /\ e >= p + N /\ e <= p + 2 * N
  <2>1. e = J[k] + (N - k) /\ J[k] \in Nat /\ J[k] >= p + k /\ J[k] <= p + 2 * k
    BY <1>1, <1>2, <1>3, Zenon
  <2>2. QED BY <2>1
<1>6. ASSUME buf[p] # Escape, N > 0 PROVE e < p + 2 * N
  <2>1. CASE k = 0
    BY <1>1, <1>2, <1>3, <1>6, <2>1
  <2>2. CASE k > 0
    BY <1>1, <1>2, <1>3, <1>6, <2>2
  <2>3. QED BY <2>1, <2>2
<1>7. J[N] <= Len(buf) + 1 => e = J[N]
  BY <1>1, <1>2, <1>4
<1>8. e <= Len(buf) + 1 => e = J[N]
  BY <1>1, <1>2, <1>4
<1>9. QED BY <1>5, <1>6, <1>7, <1>8 DEF J, e

-------------------------------------------------------------------------------
(* Writing                                                                    *)

\* From p to the end w holds the first N bytes of text, each 0x1a doubled.
Holds(w, p, text, N) ==
    /\ w \in Seq(Byte)
    /\ Places(w, p)[N] = Len(w) + 1
    /\ \A j \in 1 .. N : w[Places(w, p)[j - 1]] = text[j]

\* One more byte is written.
LEMMA HoldsMore ==
    ASSUME NEW w, NEW p \in Nat \ {0}, NEW text, NEW N \in Nat, Holds(w, p, text, N),
           NEW b \in Byte, text[N + 1] = b
    PROVE  Holds(w \o IF b = Escape THEN <<Escape, Escape>> ELSE <<b>>, p, text, N + 1)
<1> DEFINE piece == IF b = Escape THEN <<Escape, Escape>> ELSE <<b>>
           v == w \o piece
           J == Places(w, p)
           K == Places(v, p)
           L == Len(w)
<1>1. w \in Seq(Byte) /\ L \in Nat
  BY DEF Holds
<1>2. piece \in Seq(Byte) /\ Len(piece) = (IF b = Escape THEN 2 ELSE 1) /\ piece[1] = b
  <2>1. CASE b = Escape
    <3>1. piece = <<b, b>>
      BY <2>1
    <3> HIDE DEF piece
    <3>2. QED BY <2>1, <3>1
  <2>2. CASE b # Escape
    <3>1. piece = <<b>>
      BY <2>2
    <3> HIDE DEF piece
    <3>2. QED BY <2>2, <3>1
  <2>3. QED BY <2>1, <2>2
<1> HIDE DEF piece
<1>3. /\ v \in Seq(Byte)
      /\ Len(v) = L + Len(piece)
      /\ \A q \in 1 .. L + Len(piece) : v[q] = IF q <= L THEN w[q] ELSE piece[q - L]
  BY <1>1, <1>2, ConcatProperties
<1>4. v[L + 1] = b
  BY <1>1, <1>2, <1>3
<1>5. \A q \in 1 .. L : v[q] = w[q]
  BY <1>1, <1>2, <1>3
<1> HIDE DEF v
<1>6. J[N] = L + 1 /\ \A j \in 1 .. N : w[J[j - 1]] = text[j]
  BY DEF Holds
<1>7. \A k \in 0 .. N : K[k] = J[k]
  <2>1. SameBytes(w, p, L, v, 0)
    BY <1>1, <1>5 DEF SameBytes
  <2>2. 0 \in Int /\ p \in Nat /\ p = 0 + p /\ J[N] <= L + 1 /\ L \in Nat
    BY <1>1, <1>6
  <2>3. SamePlaces(w, p, N, v, p, 0)
    <3> DEFINE l == L
    <3>1. l \in Nat /\ SameBytes(w, p, l, v, 0) /\ Places(w, p)[N] <= l + 1
      BY <2>1, <2>2
    <3> HIDE DEF l
    <3>2. QED BY <2>2, <3>1, PlacesShift
  <2>4. ASSUME NEW k \in 0 .. N PROVE K[k] = J[k]
    <3>1. J[k] \in Nat
      BY PlacesGo
    <3>2. K[k] = 0 + J[k]
      BY <2>3 DEF SamePlaces
    <3>3. QED BY <3>1, <3>2
  <2>5. QED BY <2>4
<1>8. K[N] = L + 1 /\ v[K[N]] = b
  BY <1>4, <1>6, <1>7
<1>9. K[N + 1] = Len(v) + 1
  <2>1. K[N + 1] = IF v[K[N]] = Escape THEN K[N] + 2 ELSE K[N] + 1
    BY PlacesGo
  <2>2. CASE b = Escape
    BY <1>1, <1>2, <1>3, <1>8, <2>1, <2>2
  <2>3. CASE b # Escape
    BY <1>1, <1>2, <1>3, <1>8, <2>1, <2>3
  <2>4. QED BY <2>2, <2>3
<1>10. ASSUME NEW j \in 1 .. N + 1 PROVE v[K[j - 1]] = text[j]
  <2>1. CASE j = N + 1
    BY <1>8, <2>1
  <2>2. CASE j # N + 1
    <3>1. j \in 1 .. N /\ j - 1 \in 0 .. N /\ j - 1 \in Nat /\ j - 1 < N
      BY <2>2
    <3>2. J[j - 1] \in Nat /\ J[j - 1] < J[N] /\ J[j - 1] >= p + (j - 1)
      BY <3>1, PlacesGo, PlacesGrow, PlacesBounds
    <3>3. J[j - 1] \in 1 .. L
      BY <1>1, <1>6, <3>1, <3>2
    <3>4. v[J[j - 1]] = w[J[j - 1]] /\ K[j - 1] = J[j - 1] /\ w[J[j - 1]] = text[j]
      BY <1>5, <1>6, <1>7, <3>1, <3>3
    <3>5. QED BY <3>4
  <2>3. QED BY <2>1, <2>2
<1>11. v \in Seq(Byte)
  BY <1>3
<1> HIDE DEF K
<1>12. QED
  <2>1. Holds(v, p, text, N + 1)
    BY <1>9, <1>10, <1>11 DEF Holds, K
  <2>2. QED BY <2>1 DEF v, piece

\* The type of a message and its body, as one sequence of bytes.
Text(type, body) == [j \in 1 .. Len(body) + 1 |-> IF j = 1 THEN type ELSE body[j - 1]]

\* A message is its mark, and then its type and body with each 0x1a doubled.
LEMMA WriteHolds ==
    ASSUME NEW type \in Byte \ {Escape}, NEW body \in Seq(Byte)
    PROVE  LET w == <<Escape, type>> \o Escaped(body)
           IN  /\ Holds(w, 2, Text(type, body), Len(body) + 1)
               /\ w[1] = Escape /\ w[2] = type
<1> DEFINE R == Len(body)
           text == Text(type, body)
           head == <<Escape, type>>
           put == [s \in [next : Nat, out : Seq(Byte)] |->
                      [next |-> s.next + 1,
                       out |-> s.out \o IF body[s.next] = Escape THEN <<Escape, Escape>> ELSE <<body[s.next]>>]]
           start == [next |-> 1, out |-> <<>>]
           I == [n \in Nat |-> {s \in [next : Nat, out : Seq(Byte)] :
                                  s.next = n + 1 /\ Holds(head \o s.out, 2, text, n + 1)}]
<1>1. R \in Nat /\ head \in Seq(Byte) /\ Len(head) = 2 /\ head[1] = Escape /\ head[2] = type
  BY DEF Byte, Escape
<1>2. text[1] = type /\ \A j \in 1 .. R : text[j + 1] = body[j] /\ body[j] \in Byte
  BY <1>1 DEF Text
<1>3. Escaped(body) = Turns(put, start)[R].out
  BY DEF Escaped
<1> HIDE DEF head, text
<1>4. start \in I[0]
  <2>1. Places(head, 2)[0] = 2 /\ Places(head, 2)[0 + 1] = IF head[Places(head, 2)[0]] = Escape THEN Places(head, 2)[0] + 2 ELSE Places(head, 2)[0] + 1
    BY PlacesGo
  <2>2. Places(head, 2)[1] = 3
    BY <1>1, <2>1
  <2>3. Holds(head, 2, text, 1)
    <3>1. \A j \in 1 .. 1 : head[Places(head, 2)[j - 1]] = text[j]
      BY <1>1, <1>2, <2>1
    <3>2. QED BY <1>1, <2>2, <3>1 DEF Holds
  <2>4. head \o <<>> = head /\ <<>> \in Seq(Byte)
    <3>1. head \o <<>> = head
      BY <1>1, ConcatEmptySeq, Zenon
    <3>2. <<>> \in Seq(Byte)
      BY EmptySeq, Zenon
    <3>3. QED BY <3>1, <3>2
  <2>5. start \in [next : Nat, out : Seq(Byte)] /\ start.next = 1 /\ start.out = <<>>
    BY <2>4
  <2> HIDE DEF start
  <2>6. Holds(head \o start.out, 2, text, 0 + 1)
    <3>1. 0 + 1 = 1 /\ head \o start.out = head
      BY <2>4, <2>5
    <3>2. QED BY <2>3, <3>1
  <2>7. I[0] = {s \in [next : Nat, out : Seq(Byte)] : s.next = 0 + 1 /\ Holds(head \o s.out, 2, text, 0 + 1)}
    OBVIOUS
  <2> HIDE DEF I
  <2>8. start.next = 0 + 1
    BY <2>5
  <2>9. QED BY <2>5, <2>6, <2>7, <2>8, Zenon
<1>5. ASSUME NEW n \in 0 .. R, n < R, NEW s \in I[n] PROVE put[s] \in I[n + 1]
  <2>1. s \in [next : Nat, out : Seq(Byte)] /\ s.next = n + 1 /\ Holds(head \o s.out, 2, text, n + 1)
    BY <1>5
  <2> HIDE DEF I
  <2> DEFINE b == body[n + 1]
             piece == IF b = Escape THEN <<Escape, Escape>> ELSE <<b>>
  <2>2. b \in Byte /\ text[(n + 1) + 1] = b
    BY <1>2, <1>5
  <2>3. put[s] = [next |-> (n + 1) + 1, out |-> s.out \o piece]
    BY <2>1
  <2>4. piece \in Seq(Byte)
    BY <2>2
  <2> HIDE DEF b
  <2>5. Holds((head \o s.out) \o piece, 2, text, (n + 1) + 1)
    <3>1. n + 1 \in Nat
      OBVIOUS
    <3>2. 2 \in Nat \ {0}
      OBVIOUS
    <3>3. QED BY <2>1, <2>2, <3>1, <3>2, HoldsMore, Zenon
  <2> HIDE DEF piece, put
  <2>6. (head \o s.out) \o piece = head \o (s.out \o piece) /\ s.out \o piece \in Seq(Byte)
    <3>1. s.out \in Seq(Byte)
      BY <2>1
    <3>2. (head \o s.out) \o piece = head \o (s.out \o piece)
      <4> DEFINE o == s.out
      <4>1. head \in Seq(Byte) /\ o \in Seq(Byte) /\ piece \in Seq(Byte)
        BY <1>1, <2>4, <3>1
      <4> HIDE DEF o
      <4>2. (head \o o) \o piece = head \o (o \o piece)
        BY <4>1, BytesAssociative
      <4>3. QED BY <4>2 DEF o
    <3>3. s.out \o piece \in Seq(Byte)
      BY <2>4, <3>1, ConcatProperties, Zenon
    <3>4. QED BY <3>2, <3>3
  <2> DEFINE u == s.out \o piece
             l == n + 1
  <2>7. [next |-> l + 1, out |-> u] \in I[l]
    <3>1. l \in Nat /\ l + 1 \in Nat /\ u \in Seq(Byte) /\ Holds(head \o u, 2, text, l + 1)
      BY <2>5, <2>6
    <3> HIDE DEF l, u
    <3>2. QED BY <3>1 DEF I
  <2>8. QED BY <2>3, <2>7
<1> HIDE DEF put, start
<1>6. \A n \in 0 .. R : Turns(put, start)[n] \in I[n]
  <2> HIDE DEF I
  <2>1. QED BY <1>1, <1>4, <1>5, LoopInvariant
<1>7. /\ Escaped(body) \in Seq(Byte)
      /\ Holds(head \o Escaped(body), 2, text, R + 1)
  <2>1. Turns(put, start)[R] \in I[R]
    BY <1>1, <1>6
  <2>2. QED BY <1>1, <1>3, <2>1
<1>8. (head \o Escaped(body))[1] = Escape /\ (head \o Escaped(body))[2] = type
  <2> DEFINE e == Escaped(body)
  <2>1. e \in Seq(Byte) /\ Len(e) \in Nat
    BY <1>7
  <2> HIDE DEF e
  <2>2. (head \o e)[1] = head[1] /\ (head \o e)[2] = head[2]
    <3>1. 1 \in 1 .. Len(head) /\ 2 \in 1 .. Len(head)
      BY <1>1
    <3>2. QED BY <1>1, <2>1, <3>1, BytesBefore, Zenon
  <2>3. QED BY <1>1, <2>2 DEF e
<1>9. QED BY <1>7, <1>8 DEF head, text

\* The rest of the places from p on are the places from the second on.
LEMMA PlacesTail ==
    ASSUME NEW buf, NEW p \in Nat, NEW r, r = Places(buf, p)[1]
    PROVE  \A k \in Nat : Places(buf, r)[k] = Places(buf, p)[k + 1]
<1> DEFINE J == Places(buf, p)
           K == Places(buf, r)
           S == {k \in Nat : K[k] = J[k + 1]}
<1>1. \A k \in Nat : J[k] \in Nat /\ J[k + 1] = IF buf[J[k]] = Escape THEN J[k] + 2 ELSE J[k] + 1
  BY PlacesGo
<1>2. r \in Nat
  BY <1>1
<1>3. K[0] = r /\ \A k \in Nat : K[k + 1] = IF buf[K[k]] = Escape THEN K[k] + 2 ELSE K[k] + 1
  BY <1>2, PlacesGo
<1>4. 0 \in S
  BY <1>3
<1> HIDE DEF J, K
<1>5. ASSUME NEW k \in Nat, k \in S PROVE k + 1 \in S
  BY <1>1, <1>3, <1>5
<1> HIDE DEF S
<1>6. \A k \in Nat : k \in S
  BY <1>4, <1>5, SetInduction
<1>7. QED BY <1>6 DEF S, J, K

\* In particular where the first byte takes one place.
LEMMA PlacesFrom ==
    ASSUME NEW buf, NEW p \in Nat, buf[p] # Escape
    PROVE  \A k \in Nat : Places(buf, p + 1)[k] = Places(buf, p)[k + 1]
<1> DEFINE r == p + 1
<1>1. Places(buf, p)[0] = p /\ Places(buf, p)[0 + 1] = IF buf[Places(buf, p)[0]] = Escape THEN Places(buf, p)[0] + 2 ELSE Places(buf, p)[0] + 1
  BY PlacesGo
<1>2. r = Places(buf, p)[1]
  BY <1>1
<1> HIDE DEF r
<1>3. \A k \in Nat : Places(buf, r)[k] = Places(buf, p)[k + 1]
  BY <1>2, PlacesTail
<1>4. QED BY <1>3 DEF r

\* w stands in s after the first a bytes.
StandsIn(w, s, a) ==
    /\ a + Len(w) <= Len(s)
    /\ \A q \in 1 .. Len(w) : s[a + q] = w[q]

\* A written message is found whole, wherever it stands.
Found(type, body, w, s, a) ==
    /\ Len(w) \in Nat /\ Len(w) >= 2 + Len(body) /\ Len(w) <= 2 + 2 * Len(body)
    /\ s[a + 1] = Escape /\ s[a + 2] = type
    /\ EndOf(s, a + 2, (a + 2) + (Len(body) + 1)) = a + Len(w) + 1
    /\ Unescaped(s, a + 3, Len(body)) = body

LEMMA FoundWhole ==
    ASSUME NEW type \in Byte \ {Escape}, NEW body \in Seq(Byte),
           NEW w, w = <<Escape, type>> \o Escaped(body),
           NEW s \in Seq(Byte), NEW a \in Nat, StandsIn(w, s, a)
    PROVE  Found(type, body, w, s, a)
<1> DEFINE R == Len(body)
           text == Text(type, body)
           J == Places(w, 2)
           K == Places(s, a + 2)
           last == Len(w)
<1>1. Holds(w, 2, text, R + 1) /\ w[1] = Escape /\ w[2] = type
  BY WriteHolds
<1>2. w \in Seq(Byte) /\ last \in Nat /\ R \in Nat /\ Len(s) \in Nat
  BY <1>1 DEF Holds
<1>3. J[R + 1] = last + 1 /\ \A j \in 1 .. R + 1 : w[J[j - 1]] = text[j]
  BY <1>1 DEF Holds
<1>4. J[R + 1] >= 2 + (R + 1) /\ J[R + 1] < 2 + 2 * (R + 1)
  <2>1. R + 1 \in Nat /\ R + 1 > 0 /\ 2 \in Nat /\ w[2] # Escape
    BY <1>1, <1>2
  <2>2. QED BY <2>1, PlacesBounds
<1>5. last >= 2 + R /\ last <= 2 + 2 * R
  BY <1>2, <1>3, <1>4
<1>6. \A q \in 1 .. last : s[a + q] = w[q]
  BY DEF StandsIn
<1>7. s[a + 1] = Escape /\ s[a + 2] = type
  BY <1>1, <1>2, <1>5, <1>6
<1>8. \A k \in 0 .. R + 1 : K[k] = a + J[k]
  <2>1. SameBytes(w, 2, last, s, a)
    BY <1>2, <1>6 DEF SameBytes
  <2>2. R + 1 \in Nat /\ 2 \in Nat /\ J[R + 1] <= last + 1
    BY <1>2, <1>3
  <2>3. last \in Nat /\ a \in Int
    BY <1>2
  <2> HIDE DEF last
  <2> DEFINE n == R + 1
             r == a + 2
  <2>4. n \in Nat /\ 2 \in Nat /\ r \in Nat /\ r = a + 2 /\ Places(w, 2)[n] <= last + 1
    BY <2>2
  <2> HIDE DEF n, r
  <2>5. SamePlaces(w, 2, n, s, r, a)
    BY <2>1, <2>3, <2>4, PlacesShift
  <2>6. QED BY <2>5 DEF n, r, SamePlaces
<1>9. \A k \in 0 .. R : J[k] \in 1 .. last
  <2>1. ASSUME NEW k \in 0 .. R PROVE J[k] \in 1 .. last
    <3>1. J[k] \in Nat /\ J[k] >= 2 + k /\ J[k] < J[R + 1]
      <4>1. k \in Nat /\ R + 1 \in Nat /\ k < R + 1 /\ 2 \in Nat
        BY <1>2
      <4>2. QED BY <4>1, PlacesGo, PlacesBounds, PlacesGrow
    <3> HIDE DEF J
    <3>2. QED BY <1>2, <1>3, <3>1
  <2>2. QED BY <2>1
<1>10. \A j \in 1 .. R : J[j] \in 1 .. last /\ K[j] = a + J[j] /\ w[J[j]] = body[j]
  <2>1. ASSUME NEW j \in 1 .. R PROVE J[j] \in 1 .. last /\ K[j] = a + J[j] /\ w[J[j]] = body[j]
    <3>1. j + 1 \in 1 .. R + 1 /\ (j + 1) - 1 = j /\ j \in 0 .. R /\ j \in 0 .. R + 1
      BY <1>2
    <3>2. text[j + 1] = body[j]
      BY <3>1 DEF Text
    <3>3. w[J[j]] = text[j + 1]
      BY <1>3, <3>1
    <3> HIDE DEF J, K, text
    <3>4. QED BY <1>8, <1>9, <3>1, <3>2, <3>3
  <2>2. QED BY <2>1
<1>11. EndOf(s, a + 2, (a + 2) + (R + 1)) = a + last + 1
  <2>1. K[R + 1] = a + (last + 1)
    <3>1. R + 1 \in 0 .. R + 1
      BY <1>2
    <3>2. QED BY <1>3, <1>8, <3>1
  <2>2. a + last <= Len(s)
    BY DEF StandsIn
  <2>3. K[R + 1] <= Len(s) + 1
    <3> HIDE DEF K
    <3>1. QED BY <1>2, <2>1, <2>2
  <2>4. a + 2 \in Nat \ {0} /\ R + 1 \in Nat
    BY <1>2
  <2>5. EndOf(s, a + 2, (a + 2) + (R + 1)) = K[R + 1]
    BY <1>2, <2>3, <2>4, EndOfIsPlace
  <2>6. a + (last + 1) = a + last + 1
    BY <1>2
  <2>7. QED BY <2>1, <2>5, <2>6
<1>12. \A k \in Nat : Places(s, a + 3)[k] = K[k + 1]
  <2> DEFINE p == a + 2
  <2>1. p \in Nat /\ s[p] # Escape /\ a + 3 = p + 1
    BY <1>7
  <2> HIDE DEF p
  <2>2. \A k \in Nat : Places(s, p + 1)[k] = Places(s, p)[k + 1]
    BY <2>1, PlacesFrom
  <2>3. QED BY <2>1, <2>2 DEF p
<1>13. \A j \in 1 .. R : s[Places(s, a + 3)[j - 1]] = body[j]
  <2>1. ASSUME NEW j \in 1 .. R PROVE s[Places(s, a + 3)[j - 1]] = body[j]
    <3>1. j - 1 \in Nat /\ (j - 1) + 1 = j
      OBVIOUS
    <3>2. Places(s, a + 3)[j - 1] = K[j]
      BY <1>12, <3>1
    <3> HIDE DEF J, K
    <3>3. J[j] \in 1 .. last /\ K[j] = a + J[j] /\ w[J[j]] = body[j]
      BY <1>10
    <3>4. s[a + J[j]] = w[J[j]]
      BY <1>6, <3>3, Zenon
    <3>5. QED BY <3>2, <3>3, <3>4
  <2>2. QED BY <2>1
<1>14. Unescaped(s, a + 3, R) = body
  <2>1. Unescaped(s, a + 3, R) = [j \in 1 .. R |-> body[j]]
    BY <1>13 DEF Unescaped
  <2>2. body = [j \in 1 .. R |-> body[j]]
    OBVIOUS
  <2>3. QED BY <2>1, <2>2
<1> HIDE DEF J, K
<1>15. QED BY <1>2, <1>5, <1>7, <1>11, <1>14 DEF Found

-------------------------------------------------------------------------------
(* From message to message                                                    *)

Message == [type : Byte, body : Seq(Byte)]

Modes == {"messages", "commands"}

\* Between i and j there is no 0x1a.
Clear(buf, i, j) == \A q \in Nat : i <= q /\ q <= j => buf[q] # Escape

\* One past the end of the message that is marked by the 0x1a at mark.
EndAt(mode, buf, mark) == EndOf(buf, mark + 1, (mark + 1) + (Rest(mode, buf[mark + 1]) + 1))

\* The types are no 0x1a, and 1 to 21 bytes follow them.
LEMMA TypesAndLengths ==
    ASSUME NEW mode \in Modes, NEW type \in Types(mode)
    PROVE  /\ type \in Byte \ {Escape}
           /\ Rest(mode, type) \in Nat /\ Rest(mode, type) >= 1 /\ Rest(mode, type) <= 21
<1>1. type \in 49 .. 53
  BY DEF Types, ModeAC
<1>2. BodyLength(type) \in 9 .. 21
  BY DEF BodyLength, MODEAC_MSG_BYTES, MODES_SHORT_MSG_BYTES, MODES_LONG_MSG_BYTES
<1>3. Rest(mode, type) \in 1 .. 21
  <2>1. CASE mode = "messages"
    BY <1>2, <2>1 DEF Rest
  <2>2. CASE mode # "messages"
    BY <2>2 DEF Rest
  <2>3. QED BY <2>1, <2>2
<1>4. QED BY <1>1, <1>3 DEF Byte, Escape

\* No message is longer than 44 bytes.
LEMMA EndAtBounds ==
    ASSUME NEW mode \in Modes, NEW buf, Len(buf) \in Nat, NEW mark \in Nat, buf[mark + 1] \in Types(mode)
    PROVE  EndAt(mode, buf, mark) \in Nat /\ EndAt(mode, buf, mark) <= mark + 44
<1> DEFINE type == buf[mark + 1]
           n == Rest(mode, type) + 1
           p == mark + 1
           e == EndOf(buf, p, p + n)
<1>1. type # Escape /\ Rest(mode, type) \in Nat /\ Rest(mode, type) <= 21
  <2> HIDE DEF type
  <2>1. type \in Types(mode)
    BY DEF type
  <2>2. QED BY <2>1, TypesAndLengths
<1> HIDE DEF type
<1>2. n \in Nat /\ n > 0 /\ n <= 22 /\ p \in Nat \ {0} /\ buf[p] # Escape
  BY <1>1 DEF type
<1> HIDE DEF n, p
<1>3. e \in Nat /\ e < p + 2 * n
  BY <1>2, EndOfIsPlace
<1>4. p = mark + 1 /\ EndAt(mode, buf, mark) = e
  BY DEF p, n, type, EndAt
<1> HIDE DEF e
<1>5. QED BY <1>2, <1>3, <1>4

\* A loop that is left stays left, and so does one that finds no mark.
LEMMA NextDone ==
    ASSUME NEW mode, NEW buf, NEW s \in Scans, s.done
    PROVE  NextMessage(mode, buf)[s] = s
<1>1. [s EXCEPT !.done = TRUE] = s
  BY DEF Scans
<1>2. NextMessage(mode, buf)[s] = [s EXCEPT !.done = TRUE]
  BY Zenon DEF NextMessage
<1>3. QED BY <1>1, <1>2

LEMMA NextEnds ==
    ASSUME NEW mode, NEW buf, Len(buf) \in Nat, NEW s \in Scans
    PROVE  /\ s.done => NextMessage(mode, buf)[s] = s
           /\ ~s.done /\ Clear(buf, s.som, Len(buf)) => NextMessage(mode, buf)[s] = [s EXCEPT !.done = TRUE]
<1>1. s.done => [s EXCEPT !.done = TRUE] = s
  BY DEF Scans
<1>2. Clear(buf, s.som, Len(buf)) => {q \in s.som .. Len(buf) : buf[q] = Escape} = {}
  BY DEF Clear, Scans
<1>3. QED BY <1>1, <1>2 DEF NextMessage

\* What happens at the first mark.
AtMark(mode, buf, s, mark) ==
    IF mark = Len(buf) THEN [s EXCEPT !.som = mark, !.done = TRUE]
    ELSE IF buf[mark + 1] \notin Types(mode) THEN [s EXCEPT !.som = mark + 1]
    ELSE IF EndAt(mode, buf, mark) > Len(buf) + 1 THEN [s EXCEPT !.som = mark, !.done = TRUE]
    ELSE [s EXCEPT !.som = EndAt(mode, buf, mark), !.out = @ \o Handled(mode, buf, mark + 1)]

LEMMA NextAtMark ==
    ASSUME NEW mode \in Modes, NEW buf, Len(buf) \in Nat, NEW s \in Scans, ~s.done,
           NEW mark \in Nat, s.som <= mark, mark <= Len(buf), buf[mark] = Escape,
           Clear(buf, s.som, mark - 1)
    PROVE  NextMessage(mode, buf)[s] = AtMark(mode, buf, s, mark)
<1> DEFINE marks == {q \in s.som .. Len(buf) : buf[q] = Escape}
<1>1. s.som \in Nat
  BY DEF Scans
<1>2. mark \in marks /\ marks \in SUBSET Nat /\ marks # {}
  BY <1>1
<1>3. Min(marks) \in marks /\ \A q \in marks : Min(marks) <= q
  BY <1>2, LeastElement
<1>4. Min(marks) = mark
  <2> DEFINE m == Min(marks)
  <2>1. m \in Nat /\ s.som <= m /\ buf[m] = Escape /\ m <= mark
    BY <1>1, <1>2, <1>3
  <2> HIDE DEF m, marks
  <2>2. ~(m <= mark - 1)
    BY <2>1 DEF Clear
  <2>3. QED BY <2>1, <2>2 DEF m
<1> DEFINE type == buf[mark + 1]
           eom == EndOf(buf, mark + 1, mark + 2 + Rest(mode, type))
<1>5. ASSUME type \in Types(mode) PROVE eom = EndAt(mode, buf, mark)
  <2> HIDE DEF type
  <2>1. Rest(mode, type) \in Nat
    BY <1>5, TypesAndLengths
  <2>2. mark + 2 + Rest(mode, type) = (mark + 1) + (Rest(mode, type) + 1)
    BY <2>1
  <2>3. QED BY <2>2 DEF EndAt, type
<1>6. NextMessage(mode, buf)[s] =
          IF mark = Len(buf) THEN [s EXCEPT !.som = mark, !.done = TRUE]
          ELSE IF type \notin Types(mode) THEN [s EXCEPT !.som = mark + 1]
          ELSE IF eom > Len(buf) + 1 THEN [s EXCEPT !.som = mark, !.done = TRUE]
          ELSE [s EXCEPT !.som = eom, !.out = @ \o Handled(mode, buf, mark + 1)]
  <2>1. NextMessage(mode, buf)[s] =
            IF s.done \/ marks = {} THEN [s EXCEPT !.done = TRUE]
            ELSE IF Min(marks) = Len(buf) THEN [s EXCEPT !.som = Min(marks), !.done = TRUE]
            ELSE IF buf[Min(marks) + 1] \notin Types(mode) THEN [s EXCEPT !.som = Min(marks) + 1]
            ELSE IF EndOf(buf, Min(marks) + 1, Min(marks) + 2 + Rest(mode, buf[Min(marks) + 1])) > Len(buf) + 1
            THEN [s EXCEPT !.som = Min(marks), !.done = TRUE]
            ELSE [s EXCEPT !.som = EndOf(buf, Min(marks) + 1, Min(marks) + 2 + Rest(mode, buf[Min(marks) + 1])),
                           !.out = @ \o Handled(mode, buf, Min(marks) + 1)]
    BY Zenon DEF NextMessage
  <2> HIDE DEF marks
  <2>2. QED BY <1>2, <1>4, <2>1
<1> HIDE DEF eom
<1>7. CASE type \in Types(mode)
  BY <1>5, <1>6, <1>7 DEF AtMark
<1>8. CASE type \notin Types(mode)
  BY <1>6, <1>8 DEF AtMark
<1>9. QED BY <1>7, <1>8

\* The same message in two places: where its end is, and what is handled.
LEMMA SameMessage ==
    ASSUME NEW mode \in Modes, NEW buf \in Seq(Byte), NEW mark \in Nat \ {0}, mark < Len(buf),
           buf[mark + 1] \in Types(mode), EndAt(mode, buf, mark) <= Len(buf) + 1,
           NEW s \in Seq(Byte), NEW o \in Int, NEW r \in Nat \ {0}, r = o + mark, o + Len(buf) <= Len(s),
           SameBytes(buf, mark, Len(buf), s, o)
    PROVE  /\ EndAt(mode, s, r) = o + EndAt(mode, buf, mark)
           /\ Handled(mode, s, r + 1) = Handled(mode, buf, mark + 1)
           /\ Handled(mode, s, r + 1) \in Seq(Message)
           /\ EndAt(mode, buf, mark) \in Nat /\ EndAt(mode, buf, mark) > mark + 1
<1> DEFINE L == Len(buf)
           type == buf[mark + 1]
           n == Rest(mode, type)
           N == n + 1
           p == mark + 1
           J == Places(buf, p)
           K == Places(s, r + 1)
<1>1. type \in Byte \ {Escape} /\ n \in Nat
  <2> HIDE DEF type
  <2>1. type \in Types(mode)
    BY DEF type
  <2>2. QED BY <2>1, TypesAndLengths
<1>2. /\ L \in Nat /\ Len(s) \in Nat /\ N \in Nat /\ p \in Nat \ {0} /\ r + 1 \in Nat \ {0}
      /\ r + 1 = o + p /\ p + 1 \in Nat /\ r + 2 \in Nat
  <2> HIDE DEF n
  <2>1. QED BY <1>1
<1>3. s[r + 1] = type
  <2>1. mark + 1 \in Nat /\ mark <= mark + 1 /\ mark + 1 <= L /\ o + (mark + 1) = r + 1
    BY <1>2
  <2>2. QED BY <2>1 DEF SameBytes
<1>4. EndAt(mode, buf, mark) = EndOf(buf, p, p + N) /\ EndAt(mode, s, r) = EndOf(s, r + 1, (r + 1) + N)
  BY <1>3 DEF EndAt
<1>5. /\ EndAt(mode, buf, mark) \in Nat /\ EndAt(mode, buf, mark) >= p + N
      /\ EndAt(mode, buf, mark) = J[N] /\ J[N] <= L + 1
  <2> DEFINE e == EndOf(buf, p, p + N)
  <2> HIDE DEF n, N, p
  <2>1. e <= L + 1
    BY <1>4
  <2>2. e \in Nat /\ e >= p + N /\ e = J[N]
    BY <1>2, <2>1, EndOfIsPlace
  <2>3. QED BY <1>4, <2>1, <2>2
<1>6. SamePlaces(buf, p, N, s, r + 1, o)
  <2>1. SameBytes(buf, p, L, s, o)
    BY <1>2 DEF SameBytes
  <2> DEFINE q == r + 1
  <2>2. q \in Nat /\ q = o + p /\ p \in Nat
    BY <1>2
  <2> HIDE DEF n, N, p, q
  <2>3. SamePlaces(buf, p, N, s, q, o)
    BY <1>2, <1>5, <2>1, <2>2, PlacesShift
  <2>4. QED BY <2>3 DEF q
<1> HIDE DEF type, n, J, K
<1>7. \A k \in 0 .. N : K[k] = o + J[k]
  BY <1>6 DEF SamePlaces, J, K
<1>8. EndAt(mode, s, r) = o + EndAt(mode, buf, mark)
  <2> DEFINE e == EndOf(s, r + 1, (r + 1) + N)
             q == r + 1
  <2>1. K[N] = o + J[N]
    BY <1>2, <1>7
  <2>2. K[N] <= Len(s) + 1
    BY <1>2, <1>5, <2>1
  <2>3. q \in Nat \ {0}
    BY <1>2
  <2>4. EndOf(s, q, q + N) = Places(s, q)[N]
    <3> HIDE DEF q, N
    <3>1. Places(s, q)[N] <= Len(s) + 1
      BY <2>2 DEF K, q
    <3>2. QED BY <1>2, <2>3, <3>1, EndOfIsPlace
  <2>5. QED BY <1>4, <1>5, <2>1, <2>4 DEF K
<1>9. \A k \in Nat : Places(buf, mark + 2)[k] = J[k + 1]
  <2>1. p \in Nat /\ buf[p] # Escape /\ mark + 2 = p + 1
    BY <1>1, <1>2 DEF type
  <2>2. \A k \in Nat : Places(buf, p + 1)[k] = Places(buf, p)[k + 1]
    BY <2>1, PlacesFrom
  <2>3. QED BY <2>1, <2>2 DEF J
<1>10. \A k \in Nat : Places(s, r + 2)[k] = K[k + 1]
  <2> DEFINE q == r + 1
  <2>1. q \in Nat /\ s[q] # Escape /\ r + 2 = q + 1
    BY <1>1, <1>2, <1>3
  <2> HIDE DEF q
  <2>2. \A k \in Nat : Places(s, q + 1)[k] = Places(s, q)[k + 1]
    BY <2>1, PlacesFrom
  <2>3. QED BY <2>1, <2>2 DEF K, q
<1>11. ASSUME NEW j \in 1 .. n
      PROVE  /\ buf[Places(buf, mark + 2)[j - 1]] = s[Places(s, r + 2)[j - 1]]
             /\ buf[Places(buf, mark + 2)[j - 1]] \in Byte
  <2>1. j \in Nat /\ j - 1 \in Nat /\ (j - 1) + 1 = j /\ j < N /\ j \in 0 .. N
    BY <1>1
  <2>2. Places(buf, mark + 2)[j - 1] = J[j]
    BY <1>9, <2>1
  <2>3. Places(s, r + 2)[j - 1] = K[j]
    BY <1>10, <2>1
  <2>4. J[j] \in Nat /\ mark <= J[j] /\ J[j] <= L /\ J[j] >= 1
    <3>1. p \in Nat
      BY <1>2
    <3>2. J[j] \in Nat /\ J[j] >= p + j /\ J[j] < J[N]
      BY <1>2, <2>1, <3>1, PlacesGo, PlacesBounds, PlacesGrow DEF J
    <3>3. J[N] \in Nat /\ J[N] <= L + 1
      BY <1>5
    <3>4. QED BY <1>2, <2>1, <3>2, <3>3
  <2>5. s[o + J[j]] = buf[J[j]] /\ buf[J[j]] \in Byte
    <3> DEFINE q == J[j]
    <3>1. q \in Nat /\ mark <= q /\ q <= L /\ q \in 1 .. Len(buf)
      BY <1>2, <2>4
    <3> HIDE DEF q
    <3>2. s[o + q] = buf[q]
      BY <3>1 DEF SameBytes
    <3>3. buf[q] \in Byte
      BY <3>1, ElementOfSeq
    <3>4. QED BY <3>2, <3>3 DEF q
  <2>6. QED BY <1>7, <2>1, <2>2, <2>3, <2>5
<1>12. Unescaped(buf, mark + 2, n) = Unescaped(s, r + 2, n) /\ Unescaped(s, r + 2, n) \in Seq(Byte)
  <2>1. Unescaped(buf, mark + 2, n) = Unescaped(s, r + 2, n)
    BY <1>11 DEF Unescaped
  <2>2. \A j \in 1 .. n : Unescaped(buf, mark + 2, n)[j] \in Byte
    BY <1>11 DEF Unescaped
  <2>3. Unescaped(buf, mark + 2, n) \in [1 .. n -> Byte]
    BY <2>2 DEF Unescaped
  <2>4. QED BY <1>1, <2>1, <2>3
<1>13. /\ Handled(mode, s, r + 1) = Handled(mode, buf, mark + 1)
       /\ Handled(mode, s, r + 1) \in Seq(Message)
  <2> DEFINE m == [type |-> type, body |-> Unescaped(s, r + 2, n)]
  <2>1. m \in Message
    BY <1>1, <1>12 DEF Message
  <2>2. Handled(mode, s, r + 1) = Wanted(mode, m)
    <3>1. Handled(mode, s, r + 1) = Wanted(mode, [type |-> s[r + 1], body |-> Unescaped(s, (r + 1) + 1, Rest(mode, s[r + 1]))])
      BY DEF Handled
    <3>2. (r + 1) + 1 = r + 2
      BY <1>2
    <3>3. QED BY <1>3, <3>1, <3>2 DEF n
  <2>3. Handled(mode, buf, mark + 1) = Wanted(mode, m)
    <3>1. Handled(mode, buf, mark + 1) =
              Wanted(mode, [type |-> type, body |-> Unescaped(buf, (mark + 1) + 1, n)])
      BY DEF Handled, n, type
    <3>2. (mark + 1) + 1 = mark + 2
      OBVIOUS
    <3>3. QED BY <1>12, <3>1, <3>2
  <2> HIDE DEF m
  <2>4. Wanted(mode, m) \in Seq(Message)
    BY <2>1 DEF Wanted
  <2>5. QED BY <2>2, <2>3, <2>4
<1>14. QED
  <2>1. EndAt(mode, buf, mark) > mark + 1
    BY <1>1, <1>2, <1>5 DEF N, p
  <2>2. QED BY <1>5, <1>8, <1>13, <2>1

\* Either there is no mark from som on or there is a first one.
LEMMA FirstMark ==
    ASSUME NEW buf, Len(buf) \in Nat, NEW som \in Nat
    PROVE  \/ Clear(buf, som, Len(buf))
           \/ \E mark \in Nat : /\ som <= mark /\ mark <= Len(buf) /\ buf[mark] = Escape
                                /\ Clear(buf, som, mark - 1)
<1> DEFINE marks == {q \in Nat : som <= q /\ q <= Len(buf) /\ buf[q] = Escape}
<1>1. CASE marks = {}
  BY <1>1 DEF Clear
<1>2. CASE marks # {}
  <2> DEFINE m == Min(marks)
  <2>1. m \in marks /\ \A q \in marks : m <= q
    <3>1. marks \in SUBSET Nat
      OBVIOUS
    <3>2. QED BY <1>2, <3>1, LeastElement
  <2> HIDE DEF m
  <2>2. m \in Nat /\ som <= m /\ m <= Len(buf) /\ buf[m] = Escape
    BY <2>1
  <2>3. Clear(buf, som, m - 1)
    <3> SUFFICES ASSUME NEW q \in Nat, som <= q, q <= m - 1, buf[q] = Escape PROVE FALSE
      BY DEF Clear
    <3>1. q \in marks /\ ~(m <= q)
      BY <2>2
    <3>2. QED BY <2>1, <3>1
  <2>4. QED BY <2>2, <2>3
<1>3. QED BY <1>1, <1>2

-------------------------------------------------------------------------------
(* A reader is never ahead of one that has the whole stream                   *)

Start == [som |-> 1, out |-> <<>>, done |-> FALSE]

\* The states of a reader that has the whole stream.
Whole(mode, stream) == Turns(NextMessage(mode, stream), Start)

LEMMA WholeGoes ==
    ASSUME NEW mode, NEW stream
    PROVE  /\ Whole(mode, stream)[0] = Start
           /\ \A k \in Nat : Whole(mode, stream)[k + 1] = NextMessage(mode, stream)[Whole(mode, stream)[k]]
<1> DEFINE turn == NextMessage(mode, stream)
           J == Turns(turn, Start)
<1>1. Whole(mode, stream) = J
  BY DEF Whole
<1> HIDE DEF turn
<1>2. J[0] = Start /\ \A k \in Nat : J[k + 1] = turn[J[k]]
  BY TurnsGo
<1>3. QED BY <1>1, <1>2 DEF turn

\* Such a reader has handled the same, and has nothing to do before place at.
Behind(mode, stream, at, out) ==
    \E k \in Nat : LET a == Whole(mode, stream)[k]
                   IN  /\ a \in Scans /\ ~a.done /\ a.out = out
                       /\ a.som <= at /\ Clear(stream, a.som, at - 1)

LEMMA BehindGarbage ==
    ASSUME NEW mode, NEW stream, NEW at \in Nat, NEW out, Behind(mode, stream, at, out),
           NEW to \in Nat, at <= to, Clear(stream, at, to - 1)
    PROVE  Behind(mode, stream, to, out)
<1>1. PICK k \in Nat : LET a == Whole(mode, stream)[k]
                       IN  /\ a \in Scans /\ ~a.done /\ a.out = out
                           /\ a.som <= at /\ Clear(stream, a.som, at - 1)
  BY DEF Behind
<1> DEFINE a == Whole(mode, stream)[k]
<1>2. a.som \in Nat /\ a.som <= to
  BY <1>1 DEF Scans
<1>3. Clear(stream, a.som, to - 1)
  <2> SUFFICES ASSUME NEW q \in Nat, a.som <= q, q <= to - 1 PROVE stream[q] # Escape
    BY DEF Clear
  <2>1. CASE q <= at - 1
    BY <1>1, <2>1 DEF Clear
  <2>2. CASE at <= q
    BY <2>2 DEF Clear
  <2>3. QED BY <2>1, <2>2
<1>4. QED BY <1>1, <1>2, <1>3 DEF Behind

\* Such a reader comes to place at when it has handled out.
Reached(mode, stream, at, out) ==
    \E k \in Nat : LET a == Whole(mode, stream)[k]
                   IN  a \in Scans /\ ~a.done /\ a.out = out /\ a.som = at

LEMMA ReachedIsBehind ==
    ASSUME NEW mode, NEW stream, NEW at \in Nat, NEW out, Reached(mode, stream, at, out)
    PROVE  Behind(mode, stream, at, out)
<1>1. Clear(stream, at, at - 1)
  BY DEF Clear
<1>2. QED BY <1>1 DEF Reached, Behind

\* With the next mark it goes on.
LEMMA MarkReached ==
    ASSUME NEW mode \in Modes, NEW stream \in Seq(Byte), NEW at \in Nat \ {0}, NEW out, Behind(mode, stream, at, out),
           NEW mark \in Nat, at <= mark, mark < Len(stream), stream[mark] = Escape, Clear(stream, at, mark - 1)
    PROVE  /\ stream[mark + 1] \notin Types(mode) => Reached(mode, stream, mark + 1, out)
           /\ stream[mark + 1] \in Types(mode) /\ EndAt(mode, stream, mark) <= Len(stream) + 1 =>
                 Reached(mode, stream, EndAt(mode, stream, mark), out \o Handled(mode, stream, mark + 1))
<1>1. Behind(mode, stream, mark, out)
  BY BehindGarbage
<1>2. PICK k \in Nat : LET a == Whole(mode, stream)[k]
                       IN  /\ a \in Scans /\ ~a.done /\ a.out = out
                           /\ a.som <= mark /\ Clear(stream, a.som, mark - 1)
  BY <1>1 DEF Behind
<1> DEFINE a == Whole(mode, stream)[k]
           b == Whole(mode, stream)[k + 1]
<1>3. b = NextMessage(mode, stream)[a]
  BY WholeGoes
<1>4. a \in Scans /\ ~a.done /\ a.out = out /\ a.som <= mark /\ Clear(stream, a.som, mark - 1)
  BY <1>2
<1> HIDE DEF a
<1>5. b = IF mark = Len(stream) THEN [a EXCEPT !.som = mark, !.done = TRUE]
          ELSE IF stream[mark + 1] \notin Types(mode) THEN [a EXCEPT !.som = mark + 1]
          ELSE IF EndAt(mode, stream, mark) > Len(stream) + 1 THEN [a EXCEPT !.som = mark, !.done = TRUE]
          ELSE [a EXCEPT !.som = EndAt(mode, stream, mark), !.out = @ \o Handled(mode, stream, mark + 1)]
  <2>1. Len(stream) \in Nat /\ mark <= Len(stream)
    OBVIOUS
  <2>2. NextMessage(mode, stream)[a] = AtMark(mode, stream, a, mark)
    BY <1>4, <2>1, NextAtMark
  <2> HIDE DEF b
  <2>3. QED BY <1>3, <2>2 DEF AtMark
<1> HIDE DEF b
<1>6. Len(stream) \in Nat /\ mark # Len(stream)
  OBVIOUS
<1>7. ASSUME NEW to \in Nat, b \in Scans, ~b.done, b.som = to
      PROVE  Reached(mode, stream, to, b.out)
  <2>1. k + 1 \in Nat
    OBVIOUS
  <2>2. QED BY <1>7, <2>1 DEF Reached, b
<1>8. ASSUME stream[mark + 1] \notin Types(mode) PROVE Reached(mode, stream, mark + 1, out)
  <2> DEFINE to == mark + 1
  <2>1. b = [a EXCEPT !.som = to] /\ to \in Nat
    BY <1>5, <1>6, <1>8
  <2> HIDE DEF to
  <2>2. b \in Scans /\ ~b.done /\ b.som = to /\ b.out = out
    BY <1>4, <2>1 DEF Scans
  <2>3. Reached(mode, stream, to, out)
    BY <1>7, <2>1, <2>2
  <2>4. QED BY <2>3 DEF to
<1>9. ASSUME stream[mark + 1] \in Types(mode), EndAt(mode, stream, mark) <= Len(stream) + 1
      PROVE  Reached(mode, stream, EndAt(mode, stream, mark), out \o Handled(mode, stream, mark + 1))
  <2>1. EndAt(mode, stream, mark) \in Nat /\ Handled(mode, stream, mark + 1) \in Seq(Message)
    <3>1. 0 \in Int /\ mark = 0 + mark /\ mark \in Nat \ {0} /\ 0 + Len(stream) <= Len(stream)
      BY <1>6
    <3>2. SameBytes(stream, mark, Len(stream), stream, 0)
      BY DEF SameBytes
    <3>3. QED BY <1>9, <3>1, <3>2, SameMessage
  <2> DEFINE e == EndAt(mode, stream, mark)
             h == Handled(mode, stream, mark + 1)
  <2>2. b = [a EXCEPT !.som = e, !.out = @ \o h]
    <3>1. ~(e > Len(stream) + 1)
      BY <1>6, <1>9, <2>1
    <3>2. QED BY <1>5, <1>6, <1>9, <3>1
  <2>3. e \in Nat /\ h \in Seq(Message)
    BY <2>1
  <2> HIDE DEF e, h
  <2>4. a.out \o h \in Seq(Message)
    BY <1>4, <2>3 DEF Scans, Message
  <2>5. b \in Scans /\ ~b.done /\ b.som = e /\ b.out = out \o h
    BY <1>4, <2>2, <2>3, <2>4 DEF Scans, Message
  <2>6. Reached(mode, stream, e, out \o h)
    BY <1>7, <2>3, <2>5
  <2>7. QED BY <2>6 DEF e, h
<1>10. QED BY <1>8, <1>9

LEMMA BehindMark ==
    ASSUME NEW mode \in Modes, NEW stream \in Seq(Byte), NEW at \in Nat \ {0}, NEW out, Behind(mode, stream, at, out),
           NEW mark \in Nat, at <= mark, mark < Len(stream), stream[mark] = Escape, Clear(stream, at, mark - 1)
    PROVE  /\ stream[mark + 1] \notin Types(mode) => Behind(mode, stream, mark + 1, out)
           /\ stream[mark + 1] \in Types(mode) /\ EndAt(mode, stream, mark) <= Len(stream) + 1 =>
                 Behind(mode, stream, EndAt(mode, stream, mark), out \o Handled(mode, stream, mark + 1))
<1>1. ASSUME NEW to \in Nat, NEW more, Reached(mode, stream, to, more) PROVE Behind(mode, stream, to, more)
  BY <1>1, ReachedIsBehind
<1>2. ASSUME stream[mark + 1] \notin Types(mode) PROVE Behind(mode, stream, mark + 1, out)
  <2> DEFINE to == mark + 1
  <2>1. Reached(mode, stream, to, out) /\ to \in Nat
    BY <1>2, MarkReached
  <2> HIDE DEF to
  <2>2. Behind(mode, stream, to, out)
    BY <1>1, <2>1
  <2>3. QED BY <2>2 DEF to
<1>3. ASSUME stream[mark + 1] \in Types(mode), EndAt(mode, stream, mark) <= Len(stream) + 1
      PROVE  Behind(mode, stream, EndAt(mode, stream, mark), out \o Handled(mode, stream, mark + 1))
  <2> DEFINE to == EndAt(mode, stream, mark)
             more == out \o Handled(mode, stream, mark + 1)
  <2>1. Reached(mode, stream, to, more)
    BY <1>3, MarkReached
  <2>2. to \in Nat
    BY <1>3, EndAtBounds
  <2> HIDE DEF to, more
  <2>3. Behind(mode, stream, to, more)
    BY <1>1, <2>1, <2>2
  <2>4. QED BY <2>3 DEF to, more
<1>4. QED BY <1>2, <1>3

-------------------------------------------------------------------------------
(* One scan of the buffer                                                     *)

\* From som on there is nothing, or the beginning of a message.
Settled(mode, buf, som) ==
    \/ Clear(buf, som, Len(buf))
    \/ /\ som <= Len(buf) /\ buf[som] = Escape
       /\ \/ som = Len(buf)
          \/ som < Len(buf) /\ buf[som + 1] \in Types(mode) /\ EndAt(mode, buf, som) > Len(buf) + 1

\* What holds while the buffer is scanned that has what follows the first o bytes.
Scanning(mode, stream, o, buf, s) ==
    /\ s \in Scans /\ 1 <= s.som /\ s.som <= Len(buf) + 1
    /\ Behind(mode, stream, o + s.som, s.out)
    /\ s.done => Settled(mode, buf, s.som)

LEMMA ScanStep ==
    ASSUME NEW mode \in Modes, NEW stream \in Seq(Byte), NEW o \in Nat, NEW buf \in Seq(Byte),
           StandsIn(buf, stream, o), NEW s, Scanning(mode, stream, o, buf, s),
           NEW t, t = NextMessage(mode, buf)[s]
    PROVE  /\ Scanning(mode, stream, o, buf, t)
           /\ t.done \/ t.som > s.som
<1> DEFINE L == Len(buf)
<1>1. s \in Scans /\ 1 <= s.som /\ s.som <= L + 1 /\ Behind(mode, stream, o + s.som, s.out)
  BY DEF Scanning
<1>2. s.som \in Nat /\ s.done \in BOOLEAN /\ s.out \in Seq(Message)
  BY <1>1 DEF Scans, Message
<1>3. L \in Nat /\ Len(stream) \in Nat /\ o + L <= Len(stream) /\ \A q \in 1 .. L : stream[o + q] = buf[q]
  BY DEF StandsIn
<1>4. CASE s.done
  <2>1. NextMessage(mode, buf)[s] = s
    <3>1. s \in Scans /\ Len(buf) \in Nat
      BY <1>1, <1>3
    <3>2. QED BY <1>4, <3>1, NextEnds, Zenon
  <2>2. t = s
    BY <2>1
  <2>3. QED BY <1>4, <2>2
<1>5. CASE ~s.done /\ Clear(buf, s.som, L)
  <2>1. t = [s EXCEPT !.done = TRUE]
    BY <1>1, <1>3, <1>5, NextEnds
  <2>2. t \in Scans /\ t.som = s.som /\ t.out = s.out /\ t.done
    BY <1>1, <2>1 DEF Scans
  <2>3. Settled(mode, buf, t.som)
    BY <1>5, <2>2 DEF Settled
  <2>4. QED BY <1>1, <2>2, <2>3 DEF Scanning
<1>6. CASE ~s.done /\ ~Clear(buf, s.som, L)
  <2>1. PICK mark \in Nat : s.som <= mark /\ mark <= L /\ buf[mark] = Escape /\ Clear(buf, s.som, mark - 1)
    BY <1>2, <1>3, <1>6, FirstMark
  <2> DEFINE M == o + mark
             at == o + s.som
  <2>2. /\ M \in Nat /\ at \in Nat \ {0} /\ at <= M /\ M <= Len(stream) /\ mark \in Nat \ {0}
        /\ M + 1 = o + (mark + 1)
    BY <1>1, <1>2, <1>3, <2>1
  <2>3. stream[M] = Escape
    BY <1>1, <1>2, <1>3, <2>1
  <2>4. Clear(stream, at, M - 1)
    <3> SUFFICES ASSUME NEW q \in Nat, at <= q, q <= M - 1 PROVE stream[q] # Escape
      BY DEF Clear
    <3>1. q - o \in Nat /\ s.som <= q - o /\ q - o <= mark - 1 /\ q - o \in 1 .. L /\ o + (q - o) = q
      BY <1>1, <1>2, <1>3, <2>1
    <3>2. buf[q - o] # Escape
      BY <2>1, <3>1 DEF Clear
    <3>3. stream[o + (q - o)] = buf[q - o]
      BY <1>3, <3>1
    <3>4. QED BY <3>1, <3>2, <3>3
  <2>5. t = AtMark(mode, buf, s, mark)
    BY <1>1, <1>3, <1>6, <2>1, NextAtMark
  <2> HIDE DEF M
  <2>6. Behind(mode, stream, M, s.out)
    <3> HIDE DEF at
    <3>1. Behind(mode, stream, at, s.out)
      BY <1>1 DEF at
    <3>2. QED BY <2>2, <2>4, <3>1, BehindGarbage
  <2>7. ASSUME t = [s EXCEPT !.som = mark, !.done = TRUE], Settled(mode, buf, mark)
        PROVE  Scanning(mode, stream, o, buf, t) /\ t.done
    <3>1. t \in Scans /\ t.som = mark /\ t.out = s.out /\ t.done
      BY <1>1, <2>1, <2>7 DEF Scans
    <3>2. o + t.som = M /\ 1 <= t.som /\ t.som <= L + 1
      BY <1>1, <1>2, <1>3, <2>1, <3>1 DEF M
    <3>3. QED BY <2>6, <2>7, <3>1, <3>2 DEF Scanning
  <2>8. CASE mark = L
    <3>1. Settled(mode, buf, mark)
      BY <1>3, <2>1, <2>8 DEF Settled
    <3>2. t = [s EXCEPT !.som = mark, !.done = TRUE]
      BY <2>5, <2>8 DEF AtMark
    <3>3. QED BY <2>7, <3>1, <3>2
  <2>9. CASE mark < L
    <3> DEFINE type == buf[mark + 1]
    <3>1. mark # L /\ M < Len(stream) /\ M + 1 \in Nat
      BY <1>3, <2>1, <2>2, <2>9 DEF M
    <3>2. stream[M + 1] = type
      BY <1>3, <2>1, <2>2, <2>9
    <3> HIDE DEF type
    <3>3. CASE type \notin Types(mode)
      <4> DEFINE to == mark + 1
      <4>1. t = [s EXCEPT !.som = to] /\ to \in Nat
        BY <2>5, <3>1, <3>3 DEF AtMark, type
      <4>2. Behind(mode, stream, M + 1, s.out)
        <5> HIDE DEF at
        <5>1. Behind(mode, stream, at, s.out)
          BY <1>1 DEF at
        <5>2. QED BY <2>2, <2>3, <2>4, <3>1, <3>2, <3>3, <5>1, BehindMark
      <4>3. to > s.som /\ 1 <= to /\ to <= L + 1 /\ M + 1 = o + to
        <5>1. to > s.som
          BY <1>2, <2>1
        <5>2. 1 <= to /\ to <= L + 1
          BY <1>3, <2>9
        <5>3. M + 1 = o + to
          BY <2>2
        <5>4. QED BY <5>1, <5>2, <5>3
      <4> HIDE DEF to
      <4>4. t \in Scans /\ t.som = to /\ t.out = s.out /\ ~t.done
        BY <1>1, <1>6, <4>1 DEF Scans
      <4>5. QED BY <4>2, <4>3, <4>4 DEF Scanning
    <3>4. CASE type \in Types(mode) /\ EndAt(mode, buf, mark) > L + 1
      <4>1. Settled(mode, buf, mark)
        BY <2>1, <2>9, <3>4 DEF Settled, type
      <4>2. t = [s EXCEPT !.som = mark, !.done = TRUE]
        BY <2>5, <3>1, <3>4 DEF AtMark, type
      <4>3. QED BY <2>7, <4>1, <4>2
    <3>5. CASE type \in Types(mode) /\ ~(EndAt(mode, buf, mark) > L + 1)
      <4> DEFINE e == EndAt(mode, buf, mark)
                 h == Handled(mode, buf, mark + 1)
      <4>1. t = [s EXCEPT !.som = e, !.out = @ \o h]
        BY <2>5, <3>1, <3>5 DEF AtMark, type
      <4>2. e <= L + 1
        <5>1. e \in Nat
          <6>1. Rest(mode, type) \in Nat
            BY <3>5, TypesAndLengths
          <6>2. mark + 1 \in Nat \ {0} /\ Rest(mode, type) + 1 \in Nat
            BY <6>1
          <6>3. EndOf(buf, mark + 1, (mark + 1) + (Rest(mode, type) + 1)) \in Nat
            BY <1>3, <6>2, EndOfIsPlace
          <6>4. QED BY <6>3 DEF EndAt, type
        <5>2. QED BY <1>3, <3>5, <5>1
      <4>3. SameBytes(buf, mark, L, stream, o)
        BY <1>3, <2>2 DEF SameBytes
      <4>4. /\ EndAt(mode, stream, M) = o + e /\ Handled(mode, stream, M + 1) = h
            /\ h \in Seq(Message) /\ e \in Nat /\ e > mark + 1
        <5>1. buf[mark + 1] \in Types(mode) /\ M \in Nat \ {0} /\ M = o + mark
          BY <2>2, <3>5 DEF M, type
        <5>2. QED BY <1>3, <2>2, <2>9, <4>2, <4>3, <5>1, SameMessage
      <4> HIDE DEF e, h
      <4>5. Behind(mode, stream, o + e, s.out \o h)
        <5>1. EndAt(mode, stream, M) <= Len(stream) + 1
          BY <1>3, <4>2, <4>4
        <5> HIDE DEF at
        <5>2. Behind(mode, stream, at, s.out)
          BY <1>1 DEF at
        <5>3. Behind(mode, stream, EndAt(mode, stream, M), s.out \o Handled(mode, stream, M + 1))
          BY <2>2, <2>3, <2>4, <3>1, <3>2, <3>5, <5>1, <5>2, BehindMark
        <5>4. QED BY <4>4, <5>3
      <4>6. s.out \o h \in Seq(Message)
        BY <1>2, <4>4
      <4>7. t \in Scans /\ t.som = e /\ t.out = s.out \o h /\ ~t.done
        BY <1>1, <1>6, <4>1, <4>4, <4>6 DEF Scans, Message
      <4>8. 1 <= e /\ e > s.som
        BY <1>2, <2>1, <4>4
      <4>9. QED BY <4>2, <4>5, <4>7, <4>8 DEF Scanning
    <3>6. QED BY <3>3, <3>4, <3>5
  <2>10. QED BY <1>3, <2>1, <2>8, <2>9
<1>7. QED BY <1>4, <1>5, <1>6

\* The loop is left before its turns are used up.
LEMMA ScanEnds ==
    ASSUME NEW mode \in Modes, NEW stream \in Seq(Byte), NEW o \in Nat, NEW buf \in Seq(Byte),
           StandsIn(buf, stream, o), NEW out \in Seq(Message), Behind(mode, stream, o + 1, out)
    PROVE  Scanning(mode, stream, o, buf, Scan(mode, buf, out)) /\ Scan(mode, buf, out).done
<1> DEFINE turn == NextMessage(mode, buf)
           start == [som |-> 1, out |-> out, done |-> FALSE]
           L == Len(buf)
           I == [n \in Nat |-> {s \in Scans : Scanning(mode, stream, o, buf, s) /\ (s.done \/ s.som > n)}]
<1>1. L \in Nat
  OBVIOUS
<1>2. start \in Scans /\ start.som = 1 /\ start.out = out /\ ~start.done
  BY DEF Scans, Message
<1>3. Scan(mode, buf, out) = Turns(turn, start)[L + 1]
  BY DEF Scan
<1> HIDE DEF turn, start
<1>4. start \in I[0]
  <2>1. Scanning(mode, stream, o, buf, start)
    BY <1>1, <1>2 DEF Scanning
  <2>2. QED BY <1>2, <2>1
<1>5. ASSUME NEW n \in 0 .. L + 1, n < L + 1, NEW s \in I[n] PROVE turn[s] \in I[n + 1]
  <2>1. Scanning(mode, stream, o, buf, s) /\ (s.done \/ s.som > n) /\ s.som \in Nat
    BY <1>5 DEF Scans
  <2> DEFINE t == turn[s]
  <2>2. Scanning(mode, stream, o, buf, t) /\ (t.done \/ t.som > s.som)
    BY <2>1, ScanStep DEF turn
  <2>3. s.done => t.done
    <3>1. s \in Scans
      BY <2>1 DEF Scanning
    <3>2. s.done => t = s
      BY <1>1, <3>1, NextEnds DEF turn
    <3>3. QED BY <3>2
  <2> HIDE DEF t
  <2>4. t \in Scans /\ t.som \in Nat
    BY <2>2 DEF Scanning, Scans
  <2>5. t.done \/ t.som > n + 1
    BY <2>1, <2>2, <2>3, <2>4
  <2>6. QED BY <2>2, <2>4, <2>5 DEF t
<1>6. Turns(turn, start)[L + 1] \in I[L + 1]
  <2> HIDE DEF I
  <2> DEFINE N == L + 1
  <2>1. N \in Nat /\ N \in 0 .. N
    BY <1>1
  <2>2. \A n \in 0 .. N : n < N => \A s \in I[n] : turn[s] \in I[n + 1]
    BY <1>5
  <2> HIDE DEF N
  <2>3. \A n \in 0 .. N : Turns(turn, start)[n] \in I[n]
    BY <1>4, <2>1, <2>2, LoopInvariant
  <2>4. QED BY <2>1, <2>3 DEF N
<1> DEFINE s == Turns(turn, start)[L + 1]
<1>7. Scanning(mode, stream, o, buf, s) /\ (s.done \/ s.som > L + 1)
  BY <1>1, <1>6
<1>8. ~(s.som > L + 1)
  <2> HIDE DEF s
  <2>1. s.som \in Nat /\ s.som <= L + 1
    BY <1>7 DEF Scanning, Scans
  <2>2. QED BY <1>1, <2>1
<1> HIDE DEF s
<1>9. QED BY <1>3, <1>7, <1>8 DEF s

-------------------------------------------------------------------------------
(* All turns of the reader                                                    *)

\* What is kept of the buffer is settled as it was.
LEMMA SettledRest ==
    ASSUME NEW mode \in Modes, NEW buf \in Seq(Byte), NEW som \in 1 .. Len(buf) + 1, Settled(mode, buf, som),
           NEW rest \in Seq(Byte), Len(rest) = Len(buf) - som + 1, StandsIn(rest, buf, som - 1)
    PROVE  Settled(mode, rest, 1)
<1>1. /\ Len(buf) \in Nat /\ Len(rest) \in Nat /\ som - 1 \in Nat
      /\ \A q \in 1 .. Len(rest) : buf[(som - 1) + q] = rest[q]
  BY DEF StandsIn
<1>2. CASE Clear(buf, som, Len(buf))
  <2>1. Clear(rest, 1, Len(rest))
    <3> SUFFICES ASSUME NEW q \in Nat, 1 <= q, q <= Len(rest) PROVE rest[q] # Escape
      BY DEF Clear
    <3>1. (som - 1) + q \in Nat /\ som <= (som - 1) + q /\ (som - 1) + q <= Len(buf) /\ q \in 1 .. Len(rest)
      BY <1>1
    <3>2. QED BY <1>1, <1>2, <3>1 DEF Clear
  <2>2. QED BY <2>1 DEF Settled
<1>3. CASE /\ som <= Len(buf) /\ buf[som] = Escape
           /\ \/ som = Len(buf)
              \/ som < Len(buf) /\ buf[som + 1] \in Types(mode) /\ EndAt(mode, buf, som) > Len(buf) + 1
  <2>1. 1 <= Len(rest) /\ rest[1] = Escape
    BY <1>1, <1>3
  <2>2. CASE som = Len(buf)
    BY <1>1, <2>1, <2>2 DEF Settled
  <2>3. CASE som < Len(buf) /\ buf[som + 1] \in Types(mode) /\ EndAt(mode, buf, som) > Len(buf) + 1
    <3>1. 1 < Len(rest) /\ rest[1 + 1] = buf[som + 1]
      BY <1>1, <2>3
    <3>2. EndAt(mode, rest, 1) \in Nat /\ EndAt(mode, buf, som) \in Nat
      <4>1. 1 \in Nat /\ som \in Nat
        BY <1>1
      <4>2. QED BY <1>1, <2>3, <3>1, <4>1, EndAtBounds
    <3>3. EndAt(mode, rest, 1) > Len(rest) + 1
      <4> SUFFICES ASSUME EndAt(mode, rest, 1) <= Len(rest) + 1 PROVE FALSE
        BY <1>1, <3>2
      <4> DEFINE o == som - 1
      <4>1. o \in Int /\ som = o + 1 /\ som \in Nat \ {0} /\ 1 \in Nat \ {0} /\ o + Len(rest) <= Len(buf)
        BY <1>1
      <4>2. SameBytes(rest, 1, Len(rest), buf, o)
        BY <1>1 DEF SameBytes
      <4>3. rest[1 + 1] \in Types(mode)
        BY <2>3, <3>1
      <4> HIDE DEF o
      <4>4. EndAt(mode, buf, som) = o + EndAt(mode, rest, 1)
        BY <3>1, <4>1, <4>2, <4>3, SameMessage
      <4> DEFINE e == EndAt(mode, rest, 1)
                 f == EndAt(mode, buf, som)
      <4>5. e \in Nat /\ f \in Nat /\ f = o + e /\ e <= Len(rest) + 1 /\ f > Len(buf) + 1
        BY <2>3, <3>2, <4>4
      <4> HIDE DEF e, f
      <4>6. f <= o + Len(rest) + 1
        BY <1>1, <4>1, <4>5
      <4>7. o + Len(rest) + 1 <= Len(buf) + 1
        BY <1>1, <4>1
      <4>8. QED BY <1>1, <4>1, <4>5, <4>6, <4>7
    <3>4. rest[1 + 1] \in Types(mode)
      BY <2>3, <3>1
    <3>5. QED BY <2>1, <3>1, <3>3, <3>4, Zenon DEF Settled
  <2>4. QED BY <1>3, <2>2, <2>3
<1>4. QED BY <1>2, <1>3 DEF Settled

LEMMA BufferSize == MODES_CLIENT_BUF_SIZE \in Nat /\ MODES_CLIENT_BUF_SIZE >= 46
BY BeastAssumption DEF BodyLength, Long, Short, ModeAC, MODES_LONG_MSG_BYTES

\* A settled buffer that is full holds no mark: the longest message is shorter.
LEMMA FullIsClear ==
    ASSUME NEW mode \in Modes, NEW buf \in Seq(Byte), Settled(mode, buf, 1),
           Len(buf) >= MODES_CLIENT_BUF_SIZE - 1
    PROVE  Clear(buf, 1, Len(buf))
<1>1. Len(buf) \in Nat /\ Len(buf) >= 45
  BY BufferSize
<1>2. ~(buf[1 + 1] \in Types(mode) /\ EndAt(mode, buf, 1) > Len(buf) + 1)
  <2> SUFFICES ASSUME buf[1 + 1] \in Types(mode), EndAt(mode, buf, 1) > Len(buf) + 1 PROVE FALSE
    OBVIOUS
  <2>1. EndAt(mode, buf, 1) \in Nat /\ EndAt(mode, buf, 1) <= 1 + 44
    BY <1>1, EndAtBounds
  <2>2. QED BY <1>1, <2>1
<1>3. QED BY <1>1, <1>2 DEF Settled

\* The lesser of two numbers.
LEMMA LesserOf ==
    ASSUME NEW k \in Nat, NEW l \in Nat
    PROVE  Min({k, l}) \in {k, l} /\ Min({k, l}) <= k /\ Min({k, l}) <= l
<1>1. {k, l} \in SUBSET Nat /\ {k, l} # {} /\ k \in {k, l} /\ l \in {k, l}
  OBVIOUS
<1>2. Min({k, l}) \in {k, l} /\ \A n \in {k, l} : Min({k, l}) <= n
  BY <1>1, LeastElement
<1>3. QED BY <1>1, <1>2

Client == [buf : Seq(Byte), read : Nat, out : Seq(Message)]

\* Between turns the reader has not lost anything, and cannot do anything yet.
Reads(mode, stream, client) ==
    /\ client \in Client
    /\ \E o \in Nat : /\ o + Len(client.buf) = client.read
                      /\ StandsIn(client.buf, stream, o)
                      /\ Behind(mode, stream, o + 1, client.out)
                      /\ Settled(mode, client.buf, 1)

\* The bytes that are read in a turn.
Arriving(stream, read, upto) == SubSeq(stream, read + 1, upto)

\* The buffer with the bytes that are read.
LEMMA BytesAppended ==
    ASSUME NEW stream \in Seq(Byte), NEW kept \in Seq(Byte), NEW o \in Nat, StandsIn(kept, stream, o),
           NEW read \in Nat, o + Len(kept) = read, NEW upto \in Nat, read <= upto, upto <= Len(stream),
           NEW new, new = Arriving(stream, read, upto)
    PROVE  kept \o new \in Seq(Byte) /\ Len(kept \o new) = upto - o /\ StandsIn(kept \o new, stream, o)
<1> DEFINE buf == kept \o new
<1>1. Len(stream) \in Nat /\ Len(kept) \in Nat /\ \A q \in 1 .. Len(stream) : stream[q] \in Byte
  OBVIOUS
<1>2. new \in Seq(Byte) /\ Len(new) = upto - read /\ \A i \in 1 .. upto - read : new[i] = stream[read + i]
  BY <1>1 DEF Arriving
<1>3. /\ buf \in Seq(Byte) /\ Len(buf) = Len(kept) + Len(new)
      /\ \A q \in 1 .. Len(kept) : buf[q] = kept[q]
      /\ \A q \in 1 .. Len(new) : buf[Len(kept) + q] = new[q]
  <2>1. kept \in Seq(Byte) /\ new \in Seq(Byte)
    BY <1>2
  <2>2. QED BY <2>1, BytesTogether, Zenon
<1> HIDE DEF buf
<1>4. Len(buf) = upto - o
  <2> DEFINE k == Len(kept)
  <2>1. k \in Nat /\ o + k = read /\ Len(buf) = k + (upto - read)
    BY <1>1, <1>2, <1>3
  <2> HIDE DEF k
  <2>2. QED BY <2>1
<1>5. ASSUME NEW q \in 1 .. Len(buf) PROVE stream[o + q] = buf[q]
  <2>1. CASE q <= Len(kept)
    BY <1>1, <1>3, <2>1 DEF StandsIn
  <2>2. CASE ~(q <= Len(kept))
    <3> DEFINE k == Len(kept)
               i == q - k
    <3>1. k \in Nat /\ o + k = read /\ q \in Nat /\ q <= upto - o /\ q > k
      BY <1>1, <1>4, <2>2
    <3>2. \A j \in 1 .. Len(new) : buf[k + j] = new[j]
      BY <1>3
    <3> HIDE DEF k
    <3>3. i \in 1 .. upto - read /\ read + i = o + q /\ k + i = q
      BY <3>1
    <3> HIDE DEF i
    <3>4. QED BY <1>2, <3>2, <3>3
  <2>3. QED BY <2>1, <2>2
<1>6. o + Len(buf) <= Len(stream)
  BY <1>1, <1>4
<1>7. buf \in Seq(Byte) /\ Len(buf) = upto - o /\ StandsIn(buf, stream, o)
  BY <1>3, <1>4, <1>5, <1>6 DEF StandsIn
<1>8. QED BY <1>7 DEF buf

\* The buffer without what was scanned.
LEMMA BytesDropped ==
    ASSUME NEW buf \in Seq(Byte), NEW som \in 1 .. Len(buf) + 1
    PROVE  LET rest == SubSeq(buf, som, Len(buf))
           IN  rest \in Seq(Byte) /\ Len(rest) = Len(buf) - som + 1 /\ StandsIn(rest, buf, som - 1)
<1> DEFINE L == Len(buf)
           rest == SubSeq(buf, som, L)
<1>1. L \in Nat /\ som \in Nat /\ 1 <= som /\ som <= L + 1 /\ \A q \in 1 .. L : buf[q] \in Byte
  OBVIOUS
<1>2. rest \in Seq(Byte) /\ Len(rest) = L - som + 1 /\ \A i \in 1 .. L - som + 1 : rest[i] = buf[som + i - 1]
  BY <1>1
<1> HIDE DEF rest
<1>3. ASSUME NEW q \in 1 .. Len(rest) PROVE buf[(som - 1) + q] = rest[q]
  <2>1. (som - 1) + q = som + q - 1 /\ q \in 1 .. L - som + 1
    BY <1>1, <1>2
  <2>2. QED BY <1>2, <2>1
<1>4. (som - 1) + Len(rest) <= Len(buf)
  BY <1>1, <1>2
<1>5. QED BY <1>2, <1>3, <1>4 DEF StandsIn, rest

\* A turn reads on, and keeps that.
LEMMA TurnReads ==
    ASSUME NEW mode \in Modes, NEW stream \in Seq(Byte), NEW client, Reads(mode, stream, client),
           NEW arrived \in Nat, client.read < arrived, arrived <= Len(stream)
    PROVE  /\ Reads(mode, stream, Turn(mode, stream, arrived, client))
           /\ Turn(mode, stream, arrived, client).read > client.read
<1> DEFINE full == Len(client.buf) >= MODES_CLIENT_BUF_SIZE - 1
           kept == IF full THEN <<>> ELSE client.buf
           left == IF full THEN MODES_CLIENT_BUF_SIZE ELSE MODES_CLIENT_BUF_SIZE - Len(client.buf) - 1
           upto == Min({arrived, client.read + left})
           buf == kept \o SubSeq(stream, client.read + 1, upto)
           scan == Scan(mode, buf, client.out)
           rest == SubSeq(buf, scan.som, Len(buf))
<1>1. Turn(mode, stream, arrived, client) = [buf |-> rest, read |-> upto, out |-> scan.out]
  BY DEF Turn
<1>2. client.buf \in Seq(Byte) /\ client.read \in Nat /\ client.out \in Seq(Message)
  BY DEF Reads, Client
<1>3. PICK o \in Nat : /\ o + Len(client.buf) = client.read
                       /\ StandsIn(client.buf, stream, o)
                       /\ Behind(mode, stream, o + 1, client.out)
                       /\ Settled(mode, client.buf, 1)
  BY DEF Reads
<1>4. Len(client.buf) \in Nat /\ Len(stream) \in Nat
  BY <1>2
<1>5. left \in Nat /\ left > 0
  <2>1. CASE full
    BY <2>1, BufferSize
  <2>2. CASE ~full
    BY <1>4, <2>2, BufferSize
  <2>3. QED BY <2>1, <2>2
<1>6. upto \in Nat /\ client.read < upto /\ upto <= Len(stream)
  <2> HIDE DEF left
  <2>1. client.read + left \in Nat /\ client.read < client.read + left
    BY <1>2, <1>5
  <2>2. upto \in {arrived, client.read + left} /\ upto <= arrived
    BY <2>1, LesserOf
  <2> HIDE DEF upto
  <2>3. QED BY <1>4, <2>1, <2>2
<1> HIDE DEF upto, left
<1>7. PICK p \in Nat : /\ p + Len(kept) = client.read /\ kept \in Seq(Byte)
                       /\ StandsIn(kept, stream, p)
                       /\ Behind(mode, stream, p + 1, client.out)
  <2>1. CASE full
    <3>1. kept = <<>> /\ kept \in Seq(Byte) /\ Len(kept) = 0
      BY <2>1
    <3>2. client.read + Len(kept) = client.read /\ StandsIn(kept, stream, client.read)
      BY <1>2, <1>4, <1>6, <3>1 DEF StandsIn
    <3>3. Clear(client.buf, 1, Len(client.buf))
      BY <1>2, <1>3, <2>1, FullIsClear
    <3>4. Clear(stream, o + 1, (client.read + 1) - 1)
      <4> SUFFICES ASSUME NEW q \in Nat, o + 1 <= q, q <= (client.read + 1) - 1 PROVE stream[q] # Escape
        BY DEF Clear
      <4> DEFINE i == q - o
      <4>1. i \in Nat /\ 1 <= i /\ i <= Len(client.buf) /\ i \in 1 .. Len(client.buf) /\ o + i = q
        BY <1>2, <1>3, <1>4
      <4> HIDE DEF i
      <4>2. client.buf[i] # Escape
        BY <3>3, <4>1 DEF Clear
      <4>3. stream[o + i] = client.buf[i]
        BY <1>3, <4>1 DEF StandsIn
      <4>4. QED BY <4>1, <4>2, <4>3
    <3>5. Behind(mode, stream, client.read + 1, client.out)
      <4> DEFINE at == o + 1
                 to == client.read + 1
      <4>1. at \in Nat /\ to \in Nat /\ at <= to
        BY <1>2, <1>3, <1>4
      <4>2. Behind(mode, stream, at, client.out) /\ Clear(stream, at, to - 1)
        BY <1>3, <3>4
      <4> HIDE DEF at, to
      <4>3. Behind(mode, stream, to, client.out)
        BY <4>1, <4>2, BehindGarbage
      <4>4. QED BY <4>3 DEF to
    <3> HIDE DEF kept
    <3>6. QED BY <1>2, <3>1, <3>2, <3>5
  <2>2. CASE ~full
    <3>1. kept = client.buf
      BY <2>2
    <3> HIDE DEF kept
    <3>2. QED BY <1>2, <1>3, <3>1
  <2>3. QED BY <2>1, <2>2
<1> HIDE DEF kept, full
<1>8. buf \in Seq(Byte) /\ Len(buf) = upto - p /\ StandsIn(buf, stream, p)
  <2> DEFINE read == client.read
  <2>1. read \in Nat /\ p + Len(kept) = read /\ read <= upto
    BY <1>2, <1>6, <1>7
  <2> HIDE DEF read
  <2>2. kept \in Seq(Byte) /\ StandsIn(kept, stream, p) /\ upto \in Nat /\ upto <= Len(stream)
    BY <1>6, <1>7
  <2> DEFINE new == SubSeq(stream, read + 1, upto)
  <2>3. new = Arriving(stream, read, upto) /\ buf = kept \o new
    BY DEF read, Arriving
  <2> HIDE DEF buf, new
  <2>4. kept \o new \in Seq(Byte) /\ Len(kept \o new) = upto - p /\ StandsIn(kept \o new, stream, p)
    BY <2>1, <2>2, <2>3, BytesAppended
  <2>5. QED BY <2>3, <2>4
<1> HIDE DEF buf
<1>9. Scanning(mode, stream, p, buf, scan) /\ scan.done
  BY <1>2, <1>7, <1>8, ScanEnds
<1> HIDE DEF scan
<1>10. /\ scan.som \in 1 .. Len(buf) + 1 /\ scan.out \in Seq(Message)
       /\ Behind(mode, stream, p + scan.som, scan.out) /\ Settled(mode, buf, scan.som)
  <2>1. scan \in Scans /\ Len(buf) \in Nat
    BY <1>8, <1>9 DEF Scanning
  <2>2. scan.som \in Nat /\ scan.out \in Seq(Message)
    BY <2>1 DEF Scans, Message
  <2>3. QED BY <1>9, <2>1, <2>2 DEF Scanning
<1>11. rest \in Seq(Byte) /\ Len(rest) = Len(buf) - scan.som + 1 /\ StandsIn(rest, buf, scan.som - 1)
  BY <1>8, <1>10, BytesDropped
<1> HIDE DEF rest
<1>12. Settled(mode, rest, 1)
  BY <1>8, <1>10, <1>11, SettledRest
<1> DEFINE q == p + (scan.som - 1)
<1>13. /\ q \in Nat /\ q + 1 = p + scan.som /\ q + Len(rest) = upto /\ Len(rest) \in Nat
       /\ Len(buf) \in Nat /\ scan.som \in Nat /\ scan.som >= 1
  <2> DEFINE som == scan.som
             L == Len(buf)
  <2>1. L \in Nat /\ upto \in Nat /\ L = upto - p /\ Len(rest) \in Nat /\ Len(rest) = L - som + 1
    BY <1>6, <1>8, <1>11
  <2>2. som \in Nat /\ som >= 1
    BY <1>10
  <2> HIDE DEF som, L
  <2>3. p + (som - 1) \in Nat /\ p + (som - 1) + 1 = p + som /\ p + (som - 1) + Len(rest) = upto
    BY <2>1, <2>2
  <2>4. QED BY <2>1, <2>2, <2>3 DEF som, L
<1>14. StandsIn(rest, stream, q)
  <2>1. q + Len(rest) <= Len(stream)
    BY <1>4, <1>6, <1>13
  <2>2. ASSUME NEW i \in 1 .. Len(rest) PROVE stream[q + i] = rest[i]
    <3> DEFINE j == (scan.som - 1) + i
    <3>1. j \in 1 .. Len(buf) /\ p + j = q + i
      <4> DEFINE som == scan.som
      <4>1. som \in Nat /\ som >= 1 /\ Len(buf) \in Nat /\ Len(rest) = Len(buf) - som + 1 /\ i \in Nat /\ 1 <= i /\ i <= Len(rest)
        BY <1>11, <1>13
      <4> HIDE DEF som
      <4>2. (som - 1) + i \in 1 .. Len(buf) /\ p + ((som - 1) + i) = (p + (som - 1)) + i
        BY <4>1
      <4>3. QED BY <4>2 DEF som
    <3>2. buf[j] = rest[i]
      BY <1>11 DEF StandsIn
    <3> HIDE DEF j, q
    <3>3. stream[p + j] = buf[j]
      BY <1>8, <3>1 DEF StandsIn
    <3>4. QED BY <3>1, <3>2, <3>3
  <2>3. QED BY <2>1, <2>2 DEF StandsIn
<1>15. Behind(mode, stream, q + 1, scan.out)
  BY <1>10, <1>13
<1> HIDE DEF q
<1> DEFINE t == [buf |-> rest, read |-> upto, out |-> scan.out]
<1>16. t \in Client /\ t.buf = rest /\ t.read = upto /\ t.out = scan.out
  BY <1>6, <1>10, <1>11 DEF Client
<1> HIDE DEF t
<1>17. Reads(mode, stream, t)
  BY <1>12, <1>13, <1>14, <1>15, <1>16 DEF Reads
<1>18. t.read > client.read
  BY <1>2, <1>6, <1>16
<1>19. QED BY <1>1, <1>17, <1>18 DEF t

\* Nothing is behind at the start.
LEMMA BehindAtFirst ==
    ASSUME NEW mode, NEW stream
    PROVE  Behind(mode, stream, 1, <<>>)
<1>1. Whole(mode, stream)[0] = Start
  BY WholeGoes
<1>2. Start \in Scans /\ ~Start.done /\ Start.out = <<>> /\ Start.som = 1
  BY DEF Start, Scans
<1>3. Clear(stream, 1, 1 - 1)
  BY DEF Clear
<1> HIDE DEF Start
<1>4. QED BY <1>1, <1>2, <1>3 DEF Behind

\* modesReadFromClient reads all of the stream.
LEMMA AllIsRead ==
    ASSUME NEW mode \in Modes, NEW stream \in Seq(Byte), NEW cuts \in SUBSET (1 .. Len(stream))
    PROVE  LET client == modesReadFromClient(mode, stream, cuts)
           IN  Reads(mode, stream, client) /\ client.read = Len(stream)
<1> DEFINE L == Len(stream)
           arrived(c) == Min({i \in cuts \cup {L} : i > c.read})
           read == [c \in Client |-> IF c.read >= L THEN c ELSE Turn(mode, stream, arrived(c), c)]
           start == [buf |-> <<>>, read |-> 0, out |-> <<>>]
           I == [n \in Nat |-> {c \in Client : Reads(mode, stream, c) /\ (c.read >= L \/ c.read >= n)}]
<1>1. L \in Nat
  OBVIOUS
<1>2. modesReadFromClient(mode, stream, cuts) = Turns(read, start)[L]
  BY DEF modesReadFromClient, Client, Message
<1>3. start \in I[0]
  <2>1. start \in Client /\ start.buf = <<>> /\ Len(start.buf) = 0 /\ start.read = 0 /\ start.out = <<>>
    BY DEF Client
  <2> HIDE DEF start
  <2>2. 0 \in Nat /\ 0 + Len(start.buf) = start.read /\ StandsIn(start.buf, stream, 0)
    BY <1>1, <2>1 DEF StandsIn
  <2>3. Settled(mode, start.buf, 1)
    BY <2>1 DEF Settled, Clear
  <2>4. Behind(mode, stream, 0 + 1, start.out)
    BY <2>1, BehindAtFirst
  <2>5. Reads(mode, stream, start)
    BY <2>1, <2>2, <2>3, <2>4 DEF Reads
  <2>6. QED BY <2>1, <2>5
<1> HIDE DEF start
<1>4. ASSUME NEW n \in 0 .. L, n < L, NEW c \in I[n] PROVE read[c] \in I[n + 1]
  <2>1. c \in Client /\ Reads(mode, stream, c) /\ (c.read >= L \/ c.read >= n) /\ c.read \in Nat
    BY <1>4 DEF Client
  <2>2. CASE c.read >= L
    <3>1. read[c] = c
      BY <2>1, <2>2
    <3> HIDE DEF read
    <3>2. QED BY <1>4, <2>1, <2>2, <3>1
  <2>3. CASE ~(c.read >= L)
    <3> DEFINE to == arrived(c)
               t == Turn(mode, stream, to, c)
    <3>1. to \in Nat /\ c.read < to /\ to <= L
      <4> DEFINE S == {i \in cuts \cup {L} : i > c.read}
      <4>1. S \in SUBSET Nat /\ L \in S
        <5>1. cuts \cup {L} \subseteq Nat /\ L \in cuts \cup {L}
          <6>1. 1 .. L \subseteq Nat
            BY <1>1
          <6>2. cuts \subseteq 1 .. L
            OBVIOUS
          <6> HIDE DEF L
          <6>3. QED BY <1>1, <6>1, <6>2
        <5>2. L > c.read
          BY <1>1, <2>1, <2>3
        <5>3. QED BY <5>1, <5>2
      <4>2. Min(S) \in S
        BY <4>1, LeastElement
      <4>3. \A i \in S : i > c.read /\ i <= L
        BY <1>1
      <4> HIDE DEF S
      <4>4. to = Min(S)
        BY DEF S
      <4>5. QED BY <4>1, <4>2, <4>3, <4>4
    <3>2. read[c] = t
      BY <2>1, <2>3
    <3> HIDE DEF to, read
    <3>3. Reads(mode, stream, t) /\ t.read > c.read
      BY <2>1, <3>1, TurnReads
    <3> HIDE DEF t
    <3>4. t \in Client /\ t.read \in Nat
      BY <3>3 DEF Reads, Client
    <3>5. t.read >= n + 1
      BY <1>4, <2>1, <2>3, <3>3, <3>4
    <3>6. QED BY <3>2, <3>3, <3>4, <3>5
  <2>4. QED BY <2>2, <2>3
<1> HIDE DEF read
<1>5. Turns(read, start)[L] \in I[L]
  <2> HIDE DEF I
  <2>1. \A n \in 0 .. L : Turns(read, start)[n] \in I[n]
    BY <1>1, <1>3, <1>4, LoopInvariant
  <2>2. QED BY <1>1, <2>1
<1> DEFINE c == Turns(read, start)[L]
<1>6. Reads(mode, stream, c) /\ c.read >= L
  BY <1>1, <1>5
<1> HIDE DEF c
<1>7. c.read <= L /\ c.read \in Nat
  BY <1>6 DEF Reads, Client, StandsIn
<1>8. QED BY <1>1, <1>2, <1>6, <1>7 DEF c

\* A reader that has everything is done when it is as far.
LEMMA WholeIsDone ==
    ASSUME NEW mode \in Modes, NEW stream \in Seq(Byte), NEW client, Reads(mode, stream, client),
           client.read = Len(stream)
    PROVE  \E k \in Nat : LET a == Whole(mode, stream)[k]
                          IN  /\ a \in Scans /\ a.done /\ a.out = client.out
                              /\ a.som = Len(stream) + 1 => client.buf = <<>>
<1> DEFINE buf == client.buf
           L == Len(stream)
<1>1. buf \in Seq(Byte) /\ Len(buf) \in Nat /\ L \in Nat
  BY DEF Reads, Client
<1>2. PICK o \in Nat : /\ o + Len(buf) = L /\ StandsIn(buf, stream, o)
                       /\ Behind(mode, stream, o + 1, client.out)
                       /\ Settled(mode, buf, 1)
  BY DEF Reads
<1>3. PICK k \in Nat : LET a == Whole(mode, stream)[k]
                       IN  /\ a \in Scans /\ ~a.done /\ a.out = client.out
                           /\ a.som <= o + 1 /\ Clear(stream, a.som, (o + 1) - 1)
  BY <1>2 DEF Behind
<1> DEFINE a == Whole(mode, stream)[k]
           b == Whole(mode, stream)[k + 1]
<1>4. a \in Scans /\ ~a.done /\ a.out = client.out /\ a.som <= o + 1 /\ Clear(stream, a.som, o)
  BY <1>3
<1>5. b = NextMessage(mode, stream)[a] /\ k + 1 \in Nat
  <2>1. b = NextMessage(mode, stream)[a]
    BY WholeGoes
  <2>2. QED BY <2>1
<1> HIDE DEF a
<1>6. a.som \in Nat
  BY <1>4 DEF Scans
<1>7. ASSUME NEW som \in Nat, b = [a EXCEPT !.som = som, !.done = TRUE], som = L + 1 => buf = <<>>
      PROVE  b \in Scans /\ b.done /\ b.out = client.out /\ (b.som = L + 1 => client.buf = <<>>)
  <2> HIDE DEF b
  <2>1. b \in Scans /\ b.done /\ b.out = a.out /\ b.som = som
    BY <1>4, <1>7 DEF Scans
  <2>2. QED BY <1>4, <1>7, <2>1
<1>8. CASE Clear(buf, 1, Len(buf))
  <2>1. Clear(stream, a.som, L)
    <3> SUFFICES ASSUME NEW q \in Nat, a.som <= q, q <= L PROVE stream[q] # Escape
      BY DEF Clear
    <3>1. CASE q <= o
      BY <1>4, <3>1 DEF Clear
    <3>2. CASE ~(q <= o)
      <4> DEFINE i == q - o
      <4>1. i \in Nat /\ 1 <= i /\ i <= Len(buf) /\ i \in 1 .. Len(buf) /\ o + i = q
        BY <1>1, <1>2, <3>2
      <4> HIDE DEF i
      <4>2. buf[i] # Escape
        BY <1>8, <4>1 DEF Clear
      <4>3. stream[o + i] = buf[i]
        BY <1>2, <4>1 DEF StandsIn
      <4>4. QED BY <4>1, <4>2, <4>3
    <3>3. QED BY <3>1, <3>2
  <2>2. b = [a EXCEPT !.done = TRUE]
    BY <1>1, <1>4, <1>5, <2>1, NextEnds
  <2>3. b = [a EXCEPT !.som = a.som, !.done = TRUE]
    <3> HIDE DEF b
    <3>1. QED BY <1>4, <2>2 DEF Scans
  <2>4. a.som = L + 1 => buf = <<>>
    <3>1. a.som = L + 1 => Len(buf) = 0
      BY <1>1, <1>2, <1>4, <1>6
    <3> HIDE DEF buf
    <3>2. QED BY <1>1, <3>1, EmptySeq
  <2>5. QED BY <1>5, <1>6, <1>7, <2>3, <2>4
<1>9. CASE /\ 1 <= Len(buf) /\ buf[1] = Escape
           /\ \/ 1 = Len(buf)
              \/ 1 < Len(buf) /\ buf[1 + 1] \in Types(mode) /\ EndAt(mode, buf, 1) > Len(buf) + 1
  <2> DEFINE M == o + 1
  <2>1. M \in Nat \ {0} /\ M <= L /\ stream[M] = Escape
    BY <1>1, <1>2, <1>9 DEF StandsIn
  <2>2. b = AtMark(mode, stream, a, M)
    <3>1. a.som <= M /\ Clear(stream, a.som, M - 1)
      BY <1>4
    <3> HIDE DEF M
    <3>2. QED BY <1>1, <1>4, <1>5, <2>1, <3>1, NextAtMark
  <2> HIDE DEF b
  <2>3. b = [a EXCEPT !.som = M, !.done = TRUE]
    <3>1. CASE M = L
      BY <2>2, <3>1 DEF AtMark
    <3>2. CASE M # L
      <4>1. 1 < Len(buf) /\ buf[1 + 1] \in Types(mode) /\ EndAt(mode, buf, 1) > Len(buf) + 1
        BY <1>1, <1>2, <1>9, <3>2
      <4>2. stream[M + 1] = buf[1 + 1]
        BY <1>1, <1>2, <4>1 DEF StandsIn
      <4>3. EndAt(mode, stream, M) \in Nat /\ EndAt(mode, buf, 1) \in Nat
        <5>1. 1 \in Nat /\ M \in Nat
          BY <2>1
        <5>2. QED BY <1>1, <4>1, <4>2, <5>1, EndAtBounds
      <4>4. EndAt(mode, stream, M) > L + 1
        <5> SUFFICES ASSUME EndAt(mode, stream, M) <= L + 1 PROVE FALSE
          BY <1>1, <4>3
        <5> DEFINE d == 0 - o
        <5>1. d \in Int /\ 1 = d + M /\ 1 \in Nat \ {0} /\ M < L /\ d + L <= Len(buf)
          BY <1>1, <1>2, <2>1, <3>2
        <5>2. SameBytes(stream, M, L, buf, d)
          <6> SUFFICES ASSUME NEW q \in Nat, M <= q, q <= L PROVE buf[d + q] = stream[q]
            BY DEF SameBytes
          <6> DEFINE i == q - o
          <6>1. i \in 1 .. Len(buf) /\ o + i = q /\ d + q = i
            BY <1>1, <1>2
          <6> HIDE DEF i, d
          <6>2. QED BY <1>2, <6>1 DEF StandsIn
        <5> HIDE DEF d
        <5>3. stream[M + 1] \in Types(mode)
          BY <4>1, <4>2
        <5> HIDE DEF M
        <5>4. EndAt(mode, buf, 1) = d + EndAt(mode, stream, M)
          BY <1>1, <2>1, <5>1, <5>2, <5>3, SameMessage
        <5> DEFINE e == EndAt(mode, buf, 1)
                   f == EndAt(mode, stream, M)
        <5>5. e \in Nat /\ f \in Nat /\ e = d + f /\ f <= L + 1 /\ e > Len(buf) + 1
          BY <4>1, <4>3, <5>4
        <5> HIDE DEF e, f
        <5>6. QED BY <1>1, <5>1, <5>5
      <4>5. stream[M + 1] \in Types(mode)
        BY <4>1, <4>2
      <4>6. QED BY <2>2, <3>2, <4>4, <4>5 DEF AtMark
    <3>3. QED BY <3>1, <3>2
  <2>4. M \in Nat /\ M # L + 1
    BY <1>1, <2>1
  <2> HIDE DEF M
  <2>5. b \in Scans /\ b.done /\ b.out = client.out /\ (b.som = L + 1 => client.buf = <<>>)
    BY <1>7, <2>3, <2>4
  <2>6. QED BY <1>5, <2>5 DEF b
<1>10. QED BY <1>2, <1>8, <1>9 DEF Settled

\* A loop that is left has a single last state.
LEMMA DoneStays ==
    ASSUME NEW mode, NEW stream \in Seq(Byte), NEW k \in Nat,
           Whole(mode, stream)[k] \in Scans, Whole(mode, stream)[k].done,
           NEW l \in Nat, k <= l
    PROVE  Whole(mode, stream)[l] = Whole(mode, stream)[k]
<1> DEFINE A == Whole(mode, stream)
           S == {n \in Nat : k <= n => A[n] = A[k]}
<1>1. \A n \in Nat : A[n + 1] = NextMessage(mode, stream)[A[n]]
  BY WholeGoes
<1>2. NextMessage(mode, stream)[A[k]] = A[k]
  <2>1. A[k] \in Scans /\ A[k].done /\ Len(stream) \in Nat
    OBVIOUS
  <2> DEFINE a == A[k]
  <2>2. a \in Scans /\ a.done /\ Len(stream) \in Nat
    BY <2>1
  <2> HIDE DEF a
  <2>3. NextMessage(mode, stream)[a] = a
    BY <2>2, NextDone
  <2>4. QED BY <2>3 DEF a
<1> HIDE DEF A
<1>3. 0 \in S
  OBVIOUS
<1>4. ASSUME NEW n \in Nat, n \in S PROVE n + 1 \in S
  <2>1. CASE k <= n
    <3>1. A[n] = A[k]
      BY <1>4, <2>1
    <3>2. A[n + 1] = A[k]
      BY <1>1, <1>2, <3>1
    <3>3. QED BY <3>2
  <2>2. CASE k = n + 1
    BY <2>2
  <2>3. CASE n + 1 < k
    BY <2>3
  <2>4. QED BY <2>1, <2>2, <2>3
<1> HIDE DEF S
<1>5. l \in S
  BY <1>3, <1>4, SetInduction
<1>6. QED BY <1>5 DEF S, A

\* Which is what one scan of the whole stream comes to.
LEMMA DoneIsScan ==
    ASSUME NEW mode \in Modes, NEW stream \in Seq(Byte), NEW k \in Nat,
           Whole(mode, stream)[k] \in Scans, Whole(mode, stream)[k].done
    PROVE  Scan(mode, stream, <<>>) = Whole(mode, stream)[k]
<1> DEFINE A == Whole(mode, stream)
           l == Len(stream) + 1
<1>1. l \in Nat /\ Scan(mode, stream, <<>>) = A[l]
  BY DEF Scan, Whole, Start
<1>2. A[l] \in Scans /\ A[l].done
  <2>1. StandsIn(stream, stream, 0) /\ <<>> \in Seq(Message)
    BY EmptySeq DEF StandsIn
  <2>2. Behind(mode, stream, 0 + 1, <<>>)
    BY BehindAtFirst
  <2> DEFINE scan == Scan(mode, stream, <<>>)
  <2>3. Scanning(mode, stream, 0, stream, scan) /\ scan.done
    BY <2>1, <2>2, ScanEnds
  <2> HIDE DEF scan
  <2>4. scan \in Scans
    BY <2>3 DEF Scanning
  <2>5. QED BY <1>1, <2>3, <2>4 DEF scan
<1>3. A[l] = A[k]
  <2> HIDE DEF l
  <2>1. CASE k <= l
    BY <1>1, <2>1, DoneStays
  <2>2. CASE l <= k
    BY <1>1, <1>2, <2>2, DoneStays
  <2>3. QED BY <1>1, <2>1, <2>2
<1>4. QED BY <1>1, <1>3

\* However the stream is cut, the reader handles what it would handle if it had all of it
\* at once, and nothing stays behind unless that leaves something (net_io.c:2142).
THEOREM CutsMakeNoDifference ==
    ASSUME NEW mode \in Modes, NEW stream \in Seq(Byte), NEW cuts \in SUBSET (1 .. Len(stream))
    PROVE  LET client == modesReadFromClient(mode, stream, cuts)
               whole == Scan(mode, stream, <<>>)
           IN  /\ client.out = whole.out
               /\ whole.som = Len(stream) + 1 => client.buf = <<>>
<1> DEFINE client == modesReadFromClient(mode, stream, cuts)
           A == Whole(mode, stream)
<1>1. Reads(mode, stream, client) /\ client.read = Len(stream)
  BY AllIsRead
<1> HIDE DEF client
<1>2. PICK k \in Nat : A[k] \in Scans /\ A[k].done /\ A[k].out = client.out
                       /\ (A[k].som = Len(stream) + 1 => client.buf = <<>>)
  BY <1>1, WholeIsDone
<1>3. Scan(mode, stream, <<>>) = A[k]
  BY <1>2, DoneIsScan
<1> HIDE DEF A
<1>4. QED BY <1>2, <1>3 DEF client

-------------------------------------------------------------------------------
(* What is on the stream                                                      *)

\* When there is nothing more to find the scan is over.
LEMMA ScanOver ==
    ASSUME NEW mode \in Modes, NEW stream \in Seq(Byte), NEW at \in Nat, NEW out, Reached(mode, stream, at, out),
           Clear(stream, at, Len(stream))
    PROVE  Scan(mode, stream, <<>>).out = out /\ Scan(mode, stream, <<>>).som = at
<1> DEFINE A == Whole(mode, stream)
<1>1. PICK k \in Nat : A[k] \in Scans /\ ~A[k].done /\ A[k].out = out /\ A[k].som = at
  BY DEF Reached
<1> DEFINE a == A[k]
           b == A[k + 1]
<1>2. b = NextMessage(mode, stream)[a] /\ k + 1 \in Nat
  <2>1. b = NextMessage(mode, stream)[a]
    BY WholeGoes
  <2>2. QED BY <2>1
<1>3. a \in Scans /\ ~a.done /\ a.out = out /\ a.som = at
  BY <1>1
<1> HIDE DEF a
<1>4. Len(stream) \in Nat /\ Clear(stream, a.som, Len(stream))
  BY <1>3
<1>5. b = [a EXCEPT !.done = TRUE]
  BY <1>2, <1>3, <1>4, NextEnds
<1> HIDE DEF b
<1>6. b \in Scans /\ b.done /\ b.out = out /\ b.som = at
  BY <1>3, <1>5 DEF Scans
<1> DEFINE l == k + 1
<1>7. l \in Nat /\ b = A[l]
  BY <1>2 DEF b
<1> HIDE DEF l
<1>8. Scan(mode, stream, <<>>) = b
  BY <1>6, <1>7, DoneIsScan
<1>9. QED BY <1>6, <1>8

\* The next message is handled.
LEMMA MessageReached ==
    ASSUME NEW mode \in Modes, NEW stream \in Seq(Byte), NEW at \in Nat \ {0}, NEW out, Behind(mode, stream, at, out),
           NEW type \in Types(mode), NEW body \in Seq(Byte), Len(body) = Rest(mode, type),
           NEW w, w = <<Escape, type>> \o Escaped(body),
           NEW a \in Nat, StandsIn(w, stream, a), at <= a + 1, Clear(stream, at, a)
    PROVE  Reached(mode, stream, a + Len(w) + 1, out \o Wanted(mode, [type |-> type, body |-> body]))
<1> DEFINE mark == a + 1
           e == EndAt(mode, stream, mark)
           h == Handled(mode, stream, mark + 1)
<1>1. type \in Byte \ {Escape}
  BY TypesAndLengths
<1>2. /\ Len(w) \in Nat /\ Len(w) >= 2
      /\ stream[a + 1] = Escape /\ stream[a + 2] = type
      /\ EndOf(stream, a + 2, (a + 2) + (Len(body) + 1)) = a + Len(w) + 1
      /\ Unescaped(stream, a + 3, Len(body)) = body
  <2>1. Found(type, body, w, stream, a)
    BY <1>1, FoundWhole
  <2>2. Len(body) \in Nat
    OBVIOUS
  <2>3. QED BY <2>1, <2>2 DEF Found
<1>3. a + Len(w) <= Len(stream)
  BY DEF StandsIn
<1>4. mark \in Nat /\ at <= mark /\ mark < Len(stream) /\ stream[mark] = Escape /\ mark - 1 = a /\ mark + 1 = a + 2 /\ mark + 2 = a + 3
  BY <1>2, <1>3
<1>5. stream[mark + 1] = type
  BY <1>2, <1>4
<1>6. e = a + Len(w) + 1 /\ e <= Len(stream) + 1
  <2>1. e = a + Len(w) + 1
    BY <1>2, <1>4, <1>5 DEF EndAt
  <2> HIDE DEF e
  <2>2. QED BY <1>2, <1>3, <2>1
<1>7. h = Wanted(mode, [type |-> type, body |-> body])
  <2>1. h = Wanted(mode, [type |-> stream[mark + 1],
                          body |-> Unescaped(stream, (mark + 1) + 1, Rest(mode, stream[mark + 1]))])
    BY DEF Handled
  <2>2. (mark + 1) + 1 = a + 3
    OBVIOUS
  <2> HIDE DEF mark, h
  <2>3. QED BY <1>2, <1>5, <2>1, <2>2
<1> HIDE DEF mark
<1>8. Reached(mode, stream, e, out \o h)
  <2>1. Clear(stream, at, mark - 1) /\ stream[mark + 1] \in Types(mode)
    BY <1>4, <1>5
  <2>2. QED BY <1>4, <1>6, <2>1, MarkReached
<1> HIDE DEF e, h
<1>9. QED BY <1>6, <1>7, <1>8

\* What is written for a message.
LEMMA Written ==
    ASSUME NEW m \in BeastMessages
    PROVE  /\ m.type \in Types("messages") /\ m.type \in Byte \ {Escape}
           /\ m.body \in Seq(Byte) /\ Len(m.body) = Rest("messages", m.type)
           /\ m = [type |-> m.type, body |-> m.body]
           /\ writeBeastMessage(m) = <<Escape, m.type>> \o Escaped(m.body)
           /\ writeBeastMessage(m) \in Seq(Byte)
<1>1. m \in [type : ModeAC .. Status, body : Seq(Byte)] /\ Len(m.body) = BodyLength(m.type)
  BY BeastAssumption
<1>2. m.type \in 49 .. 52 /\ m.body \in Seq(Byte) /\ m = [type |-> m.type, body |-> m.body]
  BY <1>1 DEF ModeAC, Status
<1>3. m.type \in Types("messages") /\ m.type \in Byte \ {Escape}
  BY <1>2 DEF Types, ModeAC, Byte, Escape
<1>4. Len(m.body) = Rest("messages", m.type)
  BY <1>1 DEF Rest
<1>5. writeBeastMessage(m) = <<Escape, m.type>> \o Escaped(m.body)
  BY DEF writeBeastMessage
<1>6. writeBeastMessage(m) \in Seq(Byte)
  <2> DEFINE w == <<Escape, m.type>> \o Escaped(m.body)
  <2>1. Holds(w, 2, Text(m.type, m.body), Len(m.body) + 1)
    BY <1>2, <1>3, WriteHolds
  <2>2. QED BY <1>5, <2>1 DEF Holds
<1>7. QED BY <1>2, <1>3, <1>4, <1>5, <1>6

LEMMA MessageArrives ==
    ASSUME NEW m \in BeastMessages, NEW stream \in Seq(Byte), NEW at \in Nat \ {0}, NEW out,
           Behind("messages", stream, at, out),
           NEW a \in Nat, StandsIn(writeBeastMessage(m), stream, a), at <= a + 1, Clear(stream, at, a)
    PROVE  Reached("messages", stream, a + Len(writeBeastMessage(m)) + 1, out \o Wanted("messages", m))
<1> DEFINE mode == "messages"
           type == m.type
           body == m.body
           w == writeBeastMessage(m)
<1>1. /\ mode \in Modes /\ type \in Types(mode) /\ body \in Seq(Byte) /\ Len(body) = Rest(mode, type)
      /\ m = [type |-> type, body |-> body] /\ w = <<Escape, type>> \o Escaped(body)
  BY Written DEF Modes
<1>2. StandsIn(w, stream, a) /\ Behind(mode, stream, at, out)
  OBVIOUS
<1> HIDE DEF mode, type, body, w
<1>3. Reached(mode, stream, a + Len(w) + 1, out \o Wanted(mode, [type |-> type, body |-> body]))
  BY <1>1, <1>2, MessageReached
<1>4. QED BY <1>1, <1>3 DEF mode, w

LEMMA StandsBetween ==
    ASSUME NEW t \in Seq(Byte), NEW u \in Seq(Byte), NEW v \in Seq(Byte)
    PROVE  StandsIn(u, t \o u, Len(t)) /\ StandsIn(u, (t \o u) \o v, Len(t))
<1> DEFINE x == t \o u
           y == x \o v
<1>1. /\ x \in Seq(Byte) /\ Len(t) \in Nat /\ Len(u) \in Nat /\ Len(x) = Len(t) + Len(u)
      /\ \A q \in 1 .. Len(u) : x[Len(t) + q] = u[q]
  BY BytesTogether
<1> HIDE DEF x
<1>2. Len(v) \in Nat /\ Len(y) = Len(x) + Len(v) /\ \A q \in 1 .. Len(x) : y[q] = x[q]
  BY <1>1, BytesTogether
<1> HIDE DEF y
<1>3. StandsIn(u, x, Len(t))
  BY <1>1 DEF StandsIn
<1>4. StandsIn(u, y, Len(t))
  <2>1. Len(t) + Len(u) <= Len(y)
    BY <1>1, <1>2
  <2>2. ASSUME NEW q \in 1 .. Len(u) PROVE y[Len(t) + q] = u[q]
    <3>1. Len(t) + q \in 1 .. Len(x)
      BY <1>1
    <3>2. QED BY <1>1, <1>2, <3>1
  <2>3. QED BY <2>1, <2>2 DEF StandsIn
<1>5. QED BY <1>3, <1>4 DEF x, y

\* In front of t and between t and v.
LEMMA NoMarks ==
    ASSUME NEW t \in Seq(Byte), NEW u \in Seq(Byte), Escape \notin Range(u), NEW s, StandsIn(u, s, Len(t))
    PROVE  Clear(s, Len(t) + 1, Len(t) + Len(u))
<1> SUFFICES ASSUME NEW q \in Nat, Len(t) + 1 <= q, q <= Len(t) + Len(u) PROVE s[q] # Escape
  BY DEF Clear
<1> DEFINE i == q - Len(t)
<1>1. i \in 1 .. Len(u) /\ Len(t) + i = q
  OBVIOUS
<1> HIDE DEF i
<1>2. s[q] = u[i]
  BY <1>1 DEF StandsIn
<1>3. u[i] \in Range(u)
  BY <1>1 DEF Range
<1>4. QED BY <1>2, <1>3

\* Every cut is within the stream.
LEMMA CutsWithin ==
    ASSUME NEW stream, Len(stream) \in Nat, NEW cuts \in Cuts(stream)
    PROVE  cuts \in SUBSET (1 .. Len(stream))
BY DEF Cuts

\* Two messages that writeBeastMessage wrote are handled and nothing stays behind, however
\* they are cut and whatever garbage is before and between them (net_io.c:2196).
THEOREM TwoMessagesArrive == MessagesArrive
<1> SUFFICES ASSUME NEW m \in BeastMessages, NEW n \in BeastMessages, NEW g \in Garbage, NEW h \in Garbage
             PROVE  LET stream == g \o writeBeastMessage(m) \o h \o writeBeastMessage(n)
                    IN  \A cuts \in Cuts(stream) :
                            LET client == modesReadFromClient("messages", stream, cuts)
                            IN  /\ client.out = Wanted("messages", m) \o Wanted("messages", n)
                                /\ client.buf = <<>>
  BY DEF MessagesArrive
<1> DEFINE w == writeBeastMessage(m)
           v == writeBeastMessage(n)
           x == g \o w
           y == x \o h
           s == y \o v
           A == Wanted("messages", m)
           B == Wanted("messages", n)
           a == Len(g)
           b == Len(y)
<1>1. g \in Seq(Byte) /\ h \in Seq(Byte) /\ Escape \notin Range(g) /\ Escape \notin Range(h)
  BY BeastAssumption
<1>2. w \in Seq(Byte) /\ v \in Seq(Byte)
  BY Written
<1> HIDE DEF w, v
<1>3. /\ x \in Seq(Byte) /\ Len(x) = Len(g) + Len(w)
      /\ Len(g) \in Nat /\ Len(w) \in Nat /\ \A q \in 1 .. Len(g) : x[q] = g[q]
  BY <1>1, <1>2, BytesTogether
<1>4. y \in Seq(Byte) /\ Len(y) = Len(x) + Len(h) /\ Len(h) \in Nat /\ Len(x) \in Nat /\ StandsIn(h, y, Len(x))
  <2> HIDE DEF x
  <2>1. y \in Seq(Byte) /\ Len(y) = Len(x) + Len(h) /\ Len(h) \in Nat /\ Len(x) \in Nat
    BY <1>1, <1>3, BytesTogether
  <2>2. StandsIn(h, y, Len(x))
    BY <1>1, <1>3, StandsBetween
  <2>3. QED BY <2>1, <2>2
<1>5. s \in Seq(Byte) /\ Len(s) = Len(y) + Len(v) /\ Len(v) \in Nat /\ StandsIn(v, s, Len(y)) /\ StandsIn(h, s, Len(x))
  <2> HIDE DEF x
  <2>1. StandsIn(h, s, Len(x))
    BY <1>1, <1>2, <1>3, StandsBetween
  <2> HIDE DEF y
  <2>2. s \in Seq(Byte) /\ Len(s) = Len(y) + Len(v) /\ Len(v) \in Nat
    BY <1>2, <1>4, BytesTogether
  <2>3. StandsIn(v, s, Len(y))
    BY <1>2, <1>4, StandsBetween
  <2>4. QED BY <2>1, <2>2, <2>3
<1>6. StandsIn(w, s, Len(g)) /\ StandsIn(g, s, 0)
  <2>1. StandsIn(w, x, Len(g)) /\ StandsIn(g, x, 0)
    <3>1. StandsIn(w, x, Len(g))
      BY <1>1, <1>2, StandsBetween
    <3> HIDE DEF x
    <3>2. QED BY <1>3, <3>1 DEF StandsIn
  <2> HIDE DEF x
  <2>2. Len(y) \in Nat /\ \A q \in 1 .. Len(x) : y[q] = x[q]
    BY <1>1, <1>3, BytesTogether
  <2> HIDE DEF y
  <2>3. \A q \in 1 .. Len(y) : s[q] = y[q]
    BY <1>2, <1>4, BytesTogether
  <2> HIDE DEF s
  <2>4. Len(x) <= Len(s) /\ \A q \in 1 .. Len(x) : s[q] = x[q]
    BY <1>3, <1>4, <1>5, <2>2, <2>3
  <2>5. ASSUME NEW q \in 1 .. Len(w) PROVE Len(g) + q \in 1 .. Len(x)
    BY <1>3
  <2>6. ASSUME NEW q \in 1 .. Len(g) PROVE 0 + q \in 1 .. Len(x) /\ 0 + q = q
    BY <1>3
  <2>7. StandsIn(w, s, Len(g))
    BY <1>3, <2>1, <2>4, <2>5 DEF StandsIn
  <2>8. StandsIn(g, s, 0)
    BY <1>3, <2>1, <2>4, <2>6 DEF StandsIn
  <2>9. QED BY <2>7, <2>8
<1> HIDE DEF s
<1>7. a \in Nat /\ b \in Nat /\ b = Len(x) + Len(h) /\ Len(s) = b + Len(v)
  BY <1>3, <1>4, <1>5
<1>8. Clear(s, 1, a) /\ Clear(s, Len(x) + 1, b)
  <2>1. Clear(s, 1, a)
    <3>1. ASSUME NEW q \in Nat, 1 <= q, q <= a PROVE s[q] # Escape
      <4>1. q \in 1 .. Len(g) /\ 0 + q = q
        BY <1>7, <3>1
      <4>2. s[q] = g[q] /\ g[q] \in Range(g)
        BY <1>6, <4>1 DEF StandsIn, Range
      <4>3. QED BY <1>1, <4>2
    <3>2. QED BY <3>1 DEF Clear
  <2>2. Clear(s, Len(x) + 1, b)
    <3> HIDE DEF x, y
    <3>1. Clear(s, Len(x) + 1, Len(x) + Len(h))
      BY <1>1, <1>3, <1>5, NoMarks
    <3>2. QED BY <1>7, <3>1
  <2>3. QED BY <2>1, <2>2
<1> HIDE DEF x, y, a, b
<1>9. Behind("messages", s, 1, <<>>)
  <2>1. "messages" \in Modes
    BY DEF Modes
  <2>2. QED BY <1>5, <2>1, BehindAtFirst
<1>10. Reached("messages", s, a + Len(w) + 1, <<>> \o A)
  <2>1. 1 \in Nat \ {0} /\ 1 <= a + 1 /\ StandsIn(w, s, a)
    BY <1>6, <1>7 DEF a
  <2>2. QED BY <1>5, <1>7, <1>8, <1>9, <2>1, MessageArrives DEF w
<1> DEFINE c == a + Len(w) + 1
           out == <<>> \o A
           d == b + Len(v) + 1
<1>11. c \in Nat \ {0} /\ c = Len(x) + 1 /\ c <= b + 1 /\ d = Len(s) + 1 /\ d \in Nat
  BY <1>3, <1>4, <1>5, <1>7 DEF a, b
<1>12. Reached("messages", s, c, out)
  BY <1>10
<1> HIDE DEF c, out
<1>13. Reached("messages", s, d, out \o B)
  <2>1. Behind("messages", s, c, out)
    BY <1>11, <1>12, ReachedIsBehind
  <2>2. StandsIn(v, s, b) /\ Clear(s, c, b)
    BY <1>5, <1>8, <1>11 DEF b
  <2>3. QED BY <1>5, <1>7, <1>11, <2>1, <2>2, MessageArrives DEF v
<1>14. out \o B = A \o B
  <2>1. A = <<>> \/ A = <<m>>
    BY Zenon DEF Wanted
  <2> HIDE DEF A
  <2>2. <<>> \o <<>> = <<>> /\ <<>> \o <<m>> = <<m>>
    OBVIOUS
  <2>3. <<>> \o A = A
    BY <2>1, <2>2, Zenon
  <2>4. QED BY <2>3 DEF out
<1> HIDE DEF d
<1>15. Scan("messages", s, <<>>).out = A \o B /\ Scan("messages", s, <<>>).som = Len(s) + 1
  <2>1. Clear(s, d, Len(s))
    BY <1>5, <1>11 DEF Clear
  <2>2. "messages" \in Modes
    BY DEF Modes
  <2> HIDE DEF A, B
  <2>3. Scan("messages", s, <<>>).out = out \o B /\ Scan("messages", s, <<>>).som = d
    BY <1>5, <1>11, <1>13, <2>1, <2>2, ScanOver
  <2>4. QED BY <1>11, <1>14, <2>3
<1>16. ASSUME NEW cuts \in Cuts(s)
       PROVE  LET client == modesReadFromClient("messages", s, cuts)
              IN  client.out = A \o B /\ client.buf = <<>>
  <2>1. cuts \in SUBSET (1 .. Len(s)) /\ "messages" \in Modes
    BY <1>5, CutsWithin DEF Modes
  <2> HIDE DEF A, B
  <2>2. QED BY <1>5, <1>15, <2>1, CutsMakeNoDifference
<1>17. QED BY <1>16 DEF s, y, x, w, v

\* What writeBeastMessage writes fits in what it asks prepareWrite for: every byte of the
\* body is doubled at most.
THEOREM WritersReserveEnough == FitsReserved
<1> SUFFICES ASSUME NEW m \in BeastMessages PROVE Len(writeBeastMessage(m)) <= Reserved(m)
  BY DEF FitsReserved
<1> DEFINE w == writeBeastMessage(m)
           type == m.type
           body == m.body
<1>1. /\ type \in Byte \ {Escape} /\ body \in Seq(Byte) /\ w = <<Escape, type>> \o Escaped(body)
      /\ w \in Seq(Byte)
  BY Written
<1>2. Len(body) = BodyLength(type)
  BY BeastAssumption
<1> HIDE DEF w, type, body
<1>3. StandsIn(w, w, 0)
  BY <1>1 DEF StandsIn
<1>4. Found(type, body, w, w, 0)
  BY <1>1, <1>3, FoundWhole
<1>5. Len(w) <= 2 + 2 * BodyLength(type)
  BY <1>2, <1>4 DEF Found
<1>6. QED BY <1>5 DEF w, type, Reserved

LEMMA EscapedSetting ==
    ASSUME NEW x \in Byte \ {Escape}
    PROVE  Escaped(<<x>>) = <<x>>
<1> DEFINE body == <<x>>
           put == [s \in [next : Nat, out : Seq(Byte)] |->
                      [next |-> s.next + 1,
                       out |-> s.out \o IF body[s.next] = Escape THEN <<Escape, Escape>> ELSE <<body[s.next]>>]]
           start == [next |-> 1, out |-> <<>>]
           J == Turns(put, start)
<1>1. Escaped(body) = J[1].out
  BY DEF Escaped
<1>2. start \in [next : Nat, out : Seq(Byte)] /\ start.next = 1 /\ start.out = <<>>
  OBVIOUS
<1> DEFINE n == start.next + 1
           o == start.out \o IF body[start.next] = Escape THEN <<Escape, Escape>> ELSE <<body[start.next]>>
<1>3. put[start] = [next |-> n, out |-> o]
  BY <1>2, Zenon
<1>4. o = <<>> \o <<x>>
  BY <1>2
<1> HIDE DEF put, start, n, o
<1>5. J[0] = start /\ J[0 + 1] = put[J[0]]
  BY TurnsGo
<1> HIDE DEF J
<1>6. J[1].out = <<>> \o <<x>>
  BY <1>3, <1>4, <1>5
<1>7. QED BY <1>1, <1>6

\* The next command is handled.
LEMMA CommandReached ==
    ASSUME NEW x \in Settings, NEW stream \in Seq(Byte), NEW a \in Nat, NEW at \in Nat, at = a + 1, NEW out,
           Behind("commands", stream, at, out),
           a + 3 <= Len(stream), stream[a + 1] = Escape, stream[a + 2] = ModeAC, stream[a + 3] = x
    PROVE  Reached("commands", stream, a + 4, out \o <<[type |-> ModeAC, body |-> <<x>>]>>)
<1> DEFINE mode == "commands"
           type == ModeAC
           body == <<x>>
           w == <<Escape, type>> \o Escaped(body)
<1>1. x \in Byte \ {Escape}
  BY BeastAssumption
<1>2. mode \in Modes /\ type \in Types(mode) /\ body \in Seq(Byte) /\ Len(body) = Rest(mode, type)
  BY <1>1 DEF Modes, Types, Rest
<1>3. Len(w) = 3 /\ w[1] = Escape /\ w[2] = ModeAC /\ w[3] = x
  <2> DEFINE head == <<Escape, type>>
  <2>1. Escaped(body) = <<x>>
    BY <1>1, EscapedSetting
  <2>2. head \in Seq(Byte) /\ Len(head) = 2 /\ head[1] = Escape /\ head[2] = ModeAC
    BY DEF Escape, ModeAC, Byte
  <2>3. body \in Seq(Byte) /\ Len(body) = 1 /\ body[1] = x
    BY <1>2
  <2> HIDE DEF head, body, type
  <2>4. Len(head \o body) = 3 /\ (head \o body)[1] = Escape /\ (head \o body)[2] = ModeAC /\ (head \o body)[3] = x
    <3>1. /\ Len(head \o body) = Len(head) + Len(body)
          /\ \A q \in 1 .. Len(head) : (head \o body)[q] = head[q]
          /\ \A q \in 1 .. Len(body) : (head \o body)[Len(head) + q] = body[q]
      BY <2>2, <2>3, BytesTogether
    <3>2. QED BY <2>2, <2>3, <3>1
  <2>5. QED BY <2>1, <2>4 DEF head, body
<1>4. Len(w) = 3 /\ StandsIn(w, stream, a)
  <2> HIDE DEF w
  <2>1. QED BY <1>3 DEF StandsIn
<1>5. Wanted(mode, [type |-> type, body |-> body]) = <<[type |-> ModeAC, body |-> <<x>>]>>
  BY DEF Wanted
<1>6. Clear(stream, at, a) /\ at \in Nat \ {0} /\ at <= a + 1
  BY DEF Clear
<1>7. Behind(mode, stream, at, out) /\ w = <<Escape, type>> \o Escaped(body)
  OBVIOUS
<1>8. a + Len(w) + 1 = a + 4
  BY <1>4
<1> HIDE DEF mode, type, body, w
<1>9. Reached(mode, stream, a + Len(w) + 1, out \o Wanted(mode, [type |-> type, body |-> body]))
  BY <1>2, <1>4, <1>6, <1>7, MessageReached
<1>10. QED BY <1>5, <1>8, <1>9 DEF mode

\* The settings that sendBeastSettings wrote are what handleBeastCommand is called for.
THEOREM SettingsArrive == CommandsArrive
<1> SUFFICES ASSUME NEW settings \in [1 .. 3 -> Settings]
             PROVE  LET stream == sendBeastSettings(settings)
                    IN  \A cuts \in Cuts(stream) :
                            modesReadFromClient("commands", stream, cuts).out =
                                [i \in 1 .. 3 |-> [type |-> ModeAC, body |-> <<settings[i]>>]]
  BY DEF CommandsArrive
<1> DEFINE s == sendBeastSettings(settings)
           Command(i) == [type |-> ModeAC, body |-> <<settings[i]>>]
<1>1. \A i \in 1 .. 3 : settings[i] \in Settings /\ settings[i] \in Byte
  BY BeastAssumption
<1>2. Len(settings) = 3
  OBVIOUS
<1>3. s = [i \in 1 .. 9 |-> IF i % 3 = 1 THEN Escape ELSE IF i % 3 = 2 THEN ModeAC ELSE settings[i \div 3]]
  BY <1>2 DEF sendBeastSettings
<1>4. \A i \in 0 .. 2 : s[3 * i + 1] = Escape /\ s[3 * i + 2] = ModeAC /\ s[3 * i + 3] = settings[i + 1]
  <2> HIDE DEF s
  <2>1. s[1] = Escape /\ s[4] = Escape /\ s[7] = Escape
    BY <1>3
  <2>2. s[2] = ModeAC /\ s[5] = ModeAC /\ s[8] = ModeAC
    BY <1>3
  <2>3. s[3] = settings[1] /\ s[6] = settings[2] /\ s[9] = settings[3]
    BY <1>3
  <2>4. QED BY <2>1, <2>2, <2>3
<1>5. s \in Seq(Byte) /\ Len(s) = 9
  <2> HIDE DEF s
  <2>1. \A i \in 1 .. 9 : s[i] \in Byte
    <3>1. Escape \in Byte /\ ModeAC \in Byte
      BY DEF Escape, ModeAC, Byte
    <3>2. QED BY <1>1, <1>4, <3>1
  <2> DEFINE n == 9
  <2>2. n \in Nat /\ s = [i \in 1 .. n |-> s[i]] /\ \A i \in 1 .. n : s[i] \in Byte
    BY <1>3, <2>1
  <2> HIDE DEF n
  <2>3. s \in [1 .. n -> Byte]
    BY <2>2
  <2>4. s \in Seq(Byte) /\ Len(s) = n
    BY <2>2, <2>3
  <2>5. QED BY <2>4 DEF n
<1> HIDE DEF s
<1>6. Behind("commands", s, 1, <<>>)
  BY BehindAtFirst
<1> DEFINE one == <<>> \o <<Command(1)>>
           two == one \o <<Command(2)>>
           three == two \o <<Command(3)>>
<1>7. ASSUME NEW i \in 0 .. 2, NEW at \in Nat, at = 3 * i + 1, NEW out, Behind("commands", s, at, out)
      PROVE  Reached("commands", s, 3 * i + 4, out \o <<Command(i + 1)>>)
  <2> DEFINE a == 3 * i
             x == settings[i + 1]
  <2>1. a \in Nat /\ at = a + 1 /\ a + 3 <= Len(s)
    BY <1>5, <1>7
  <2>2. x \in Settings /\ s[a + 1] = Escape /\ s[a + 2] = ModeAC /\ s[a + 3] = x
    BY <1>1, <1>4
  <2> HIDE DEF a, x
  <2>3. Reached("commands", s, a + 4, out \o <<[type |-> ModeAC, body |-> <<x>>]>>)
    BY <1>5, <1>7, <2>1, <2>2, CommandReached
  <2>4. QED BY <2>3 DEF a, x
<1> HIDE DEF Command
<1>8. Reached("commands", s, 4, one)
  <2>1. 3 * 0 + 1 = 1 /\ 3 * 0 + 4 = 4 /\ 0 + 1 = 1 /\ 0 \in 0 .. 2 /\ 1 \in Nat
    OBVIOUS
  <2>2. QED BY <1>6, <1>7, <2>1
<1> HIDE DEF one
<1>9. Reached("commands", s, 7, two)
  <2>1. 3 * 1 + 1 = 4 /\ 3 * 1 + 4 = 7 /\ 1 + 1 = 2 /\ 1 \in 0 .. 2 /\ 4 \in Nat
    OBVIOUS
  <2>2. Behind("commands", s, 4, one)
    BY <1>8, ReachedIsBehind
  <2>3. QED BY <1>7, <2>1, <2>2
<1> HIDE DEF two
<1>10. Reached("commands", s, 10, three)
  <2>1. 3 * 2 + 1 = 7 /\ 3 * 2 + 4 = 10 /\ 2 + 1 = 3 /\ 2 \in 0 .. 2 /\ 7 \in Nat
    OBVIOUS
  <2>2. Behind("commands", s, 7, two)
    BY <1>9, ReachedIsBehind
  <2>3. QED BY <1>7, <2>1, <2>2
<1>11. three = [i \in 1 .. 3 |-> Command(i)]
  BY DEF three, two, one
<1> HIDE DEF three
<1>12. Scan("commands", s, <<>>).out = three
  <2>1. Clear(s, 10, Len(s)) /\ 10 \in Nat /\ "commands" \in Modes
    BY <1>5 DEF Clear, Modes
  <2>2. QED BY <1>5, <1>10, <2>1, ScanOver
<1>13. ASSUME NEW cuts \in Cuts(s)
       PROVE  modesReadFromClient("commands", s, cuts).out = three
  <2>1. Len(s) \in Nat /\ "commands" \in Modes
    BY <1>5 DEF Modes
  <2>2. cuts \in SUBSET (1 .. Len(s))
    BY <2>1, CutsWithin
  <2>3. QED BY <1>5, <1>12, <2>1, <2>2, CutsMakeNoDifference
<1>14. QED BY <1>11, <1>13 DEF s, Command

\* What stands in t still does when u follows.
LEMMA StandsStill ==
    ASSUME NEW t \in Seq(Byte), NEW u \in Seq(Byte), NEW w, Len(w) \in Nat, NEW a \in Nat, StandsIn(w, t, a)
    PROVE  StandsIn(w, t \o u, a)
<1> DEFINE x == t \o u
<1>1. Len(t) \in Nat /\ Len(u) \in Nat /\ Len(x) = Len(t) + Len(u) /\ \A q \in 1 .. Len(t) : x[q] = t[q]
  BY BytesTogether
<1> HIDE DEF x
<1>2. a + Len(w) <= Len(t) /\ \A q \in 1 .. Len(w) : t[a + q] = w[q]
  BY DEF StandsIn
<1>3. ASSUME NEW q \in 1 .. Len(w) PROVE x[a + q] = w[q]
  <2>1. a + q \in 1 .. Len(t)
    BY <1>1, <1>2
  <2>2. QED BY <1>1, <1>2, <2>1
<1>4. QED BY <1>1, <1>2, <1>3 DEF StandsIn, x

\* Five copies of v follow t.
Copies(t, v, s) ==
    /\ s \in Seq(Byte) /\ Len(t) \in Nat /\ Len(v) \in Nat /\ Len(s) = Len(t) + 5 * Len(v)
    /\ StandsIn(t, s, 0)
    /\ \A k \in 0 .. 4 : StandsIn(v, s, Len(t) + k * Len(v))

LEMMA FiveCopies ==
    ASSUME NEW t \in Seq(Byte), NEW v \in Seq(Byte)
    PROVE  Copies(t, v, t \o v \o v \o v \o v \o v)
<1> DEFINE a == t \o v
           b == a \o v
           c == b \o v
           d == c \o v
           s == d \o v
<1>1. Len(t) \in Nat /\ Len(v) \in Nat
  OBVIOUS
<1>2. ASSUME NEW x \in Seq(Byte)
      PROVE  x \o v \in Seq(Byte) /\ Len(x) \in Nat /\ Len(x \o v) = Len(x) + Len(v) /\ StandsIn(v, x \o v, Len(x))
  <2>1. StandsIn(v, x \o v, Len(x))
    BY StandsBetween
  <2>2. QED BY <2>1, BytesTogether
<1>3. ASSUME NEW x \in Seq(Byte), NEW w, Len(w) \in Nat, NEW p \in Nat, StandsIn(w, x, p)
      PROVE  StandsIn(w, x \o v, p)
  BY <1>3, StandsStill
<1>4. StandsIn(t, t, 0)
  BY <1>1 DEF StandsIn
<1>5. a \in Seq(Byte) /\ Len(a) = Len(t) + Len(v) /\ StandsIn(v, a, Len(t)) /\ StandsIn(t, a, 0)
  BY <1>1, <1>2, <1>3, <1>4
<1> DEFINE p1 == Len(t) + Len(v)
           p2 == Len(t) + 2 * Len(v)
           p3 == Len(t) + 3 * Len(v)
           p4 == Len(t) + 4 * Len(v)
           p5 == Len(t) + 5 * Len(v)
           l == Len(t)
<1>6. /\ p1 \in Nat /\ p2 \in Nat /\ p3 \in Nat /\ p4 \in Nat /\ p5 \in Nat /\ l \in Nat
      /\ p2 = p1 + Len(v) /\ p3 = p2 + Len(v) /\ p4 = p3 + Len(v) /\ p5 = p4 + Len(v)
  BY <1>1
<1>7. Len(a) = p1 /\ StandsIn(v, a, l)
  BY <1>5
<1> HIDE DEF a, p1, p2, p3, p4, p5, l
<1>8. b \in Seq(Byte) /\ Len(b) = p2 /\ StandsIn(t, b, 0) /\ StandsIn(v, b, l) /\ StandsIn(v, b, p1)
  BY <1>1, <1>2, <1>3, <1>5, <1>6, <1>7
<1> HIDE DEF b
<1>9. c \in Seq(Byte) /\ Len(c) = p3 /\ StandsIn(t, c, 0) /\ StandsIn(v, c, l) /\ StandsIn(v, c, p1) /\ StandsIn(v, c, p2)
  BY <1>1, <1>2, <1>3, <1>6, <1>8
<1> HIDE DEF c
<1>10. /\ d \in Seq(Byte) /\ Len(d) = p4 /\ StandsIn(t, d, 0) /\ StandsIn(v, d, l) /\ StandsIn(v, d, p1)
       /\ StandsIn(v, d, p2) /\ StandsIn(v, d, p3)
  BY <1>1, <1>2, <1>3, <1>6, <1>9
<1> HIDE DEF d
<1>11. /\ s \in Seq(Byte) /\ Len(s) = p5 /\ StandsIn(t, s, 0) /\ StandsIn(v, s, l) /\ StandsIn(v, s, p1)
       /\ StandsIn(v, s, p2) /\ StandsIn(v, s, p3) /\ StandsIn(v, s, p4)
  BY <1>1, <1>2, <1>3, <1>6, <1>10
<1> HIDE DEF s
<1>12. ASSUME NEW k \in 0 .. 4 PROVE StandsIn(v, s, Len(t) + k * Len(v))
  <2>1. CASE k = 0
    BY <1>1, <1>11, <2>1 DEF l
  <2>2. CASE k = 1
    BY <1>1, <1>11, <2>2 DEF p1
  <2>3. CASE k = 2
    BY <1>11, <2>3 DEF p2
  <2>4. CASE k = 3
    BY <1>11, <2>4 DEF p3
  <2>5. CASE k = 4
    BY <1>11, <2>5 DEF p4
  <2>6. QED BY <2>1, <2>2, <2>3, <2>4, <2>5
<1>13. Copies(t, v, s)
  BY <1>1, <1>11, <1>12 DEF Copies, p5
<1>14. QED BY <1>13 DEF s, d, c, b, a

\* Bytes of which none is doubled are next to each other.
LEMMA PlacesPlain ==
    ASSUME NEW buf, NEW p \in Nat, NEW N \in Nat, \A k \in 0 .. N - 1 : buf[Places(buf, p)[k]] # Escape
    PROVE  \A k \in 0 .. N : Places(buf, p)[k] = p + k
<1> DEFINE J == Places(buf, p)
           S == {k \in Nat : k <= N => J[k] = p + k}
<1>1. J[0] = p /\ \A n \in Nat : J[n] \in Nat /\ J[n + 1] = IF buf[J[n]] = Escape THEN J[n] + 2 ELSE J[n] + 1
  BY PlacesGo
<1>2. \A k \in 0 .. N - 1 : buf[J[k]] # Escape
  OBVIOUS
<1> HIDE DEF J
<1>3. 0 \in S
  BY <1>1
<1>4. ASSUME NEW k \in Nat, k \in S PROVE k + 1 \in S
  <2>1. CASE k + 1 <= N
    <3>1. k \in 0 .. N - 1 /\ k <= N
      BY <2>1
    <3>2. buf[J[k]] # Escape /\ J[k] = p + k
      BY <1>2, <1>4, <3>1
    <3>3. J[k + 1] = J[k] + 1
      BY <1>1, <3>2
    <3>4. QED BY <3>2, <3>3
  <2>2. CASE ~(k + 1 <= N)
    BY <2>2
  <2>3. QED BY <2>1, <2>2
<1> HIDE DEF S
<1>5. \A k \in Nat : k \in S
  BY <1>3, <1>4, SetInduction
<1>6. \A k \in 0 .. N : J[k] = p + k
  BY <1>5 DEF S
<1>7. QED BY <1>6 DEF J

\* A message with no 0x1a in its body has none but its mark.
LEMMA Plain ==
    ASSUME NEW type \in Byte \ {Escape}, NEW body \in Seq(Byte), Escape \notin Range(body),
           NEW w, w = <<Escape, type>> \o Escaped(body)
    PROVE  Len(w) = Len(body) + 2 /\ w[1] = Escape /\ \A q \in 2 .. Len(w) : w[q] # Escape
<1> DEFINE R == Len(body)
           text == Text(type, body)
           N == R + 1
           J == Places(w, 2)
<1>1. Holds(w, 2, text, N) /\ w[1] = Escape
  BY WriteHolds
<1>2. ASSUME NEW j \in 1 .. N PROVE text[j] # Escape
  <2>1. CASE j = 1
    BY <2>1 DEF Text
  <2>2. CASE j # 1
    <3>1. text[j] = body[j - 1] /\ j - 1 \in 1 .. Len(body)
      BY <2>2 DEF Text
    <3>2. QED BY <3>1 DEF Range
  <2>3. QED BY <2>1, <2>2
<1>3. N \in Nat /\ N = R + 1 /\ R \in Nat
  OBVIOUS
<1> HIDE DEF N, R, text
<1>4. w \in Seq(Byte) /\ J[N] = Len(w) + 1 /\ \A j \in 1 .. N : w[J[j - 1]] = text[j]
  BY <1>1 DEF Holds
<1>5. Len(w) \in Nat
  BY <1>4
<1>6. ASSUME NEW k \in 0 .. N - 1 PROVE w[J[k]] # Escape
  <2> DEFINE j == k + 1
  <2>1. j \in 1 .. N /\ j - 1 = k
    BY <1>3
  <2> HIDE DEF j, J
  <2>2. w[J[j - 1]] = text[j] /\ text[j] # Escape
    BY <1>2, <1>4, <2>1
  <2>3. QED BY <2>1, <2>2
<1> DEFINE p == 2
<1>7. \A k \in 0 .. N : J[k] = p + k
  <2>1. p \in Nat /\ \A k \in 0 .. N - 1 : w[Places(w, p)[k]] # Escape
    BY <1>6
  <2> HIDE DEF p
  <2>2. \A k \in 0 .. N : Places(w, p)[k] = p + k
    BY <1>3, <2>1, PlacesPlain
  <2>3. QED BY <2>2 DEF p
<1> HIDE DEF J
<1>8. Len(w) = R + 2
  <2>1. N \in 0 .. N
    BY <1>3
  <2>2. J[N] = 2 + N
    BY <1>7, <2>1
  <2>3. QED BY <1>3, <1>4, <1>5, <2>2
<1>9. ASSUME NEW q \in 2 .. Len(w) PROVE w[q] # Escape
  <2> DEFINE k == q - 2
  <2>1. k \in 0 .. N - 1 /\ k \in 0 .. N /\ 2 + k = q
    BY <1>3, <1>8
  <2> HIDE DEF k
  <2>2. J[k] = 2 + k
    BY <1>7, <2>1
  <2>3. QED BY <1>6, <2>1, <2>2
<1>10. QED BY <1>1, <1>8, <1>9 DEF R

\* The bytes of v, which has a single mark, at its begin.
SingleMark(v) == Len(v) \in Nat /\ Len(v) >= 11 /\ v[1] = Escape /\ \A q \in 2 .. Len(v) : v[q] # Escape

\* In three copies the marks are at the begins.
LEMMA CopyBytes ==
    ASSUME NEW t, NEW v, NEW s, Copies(t, v, s), SingleMark(v), NEW x \in Nat
    PROVE  /\ x = 0 \/ x = Len(v) \/ x = 2 * Len(v) => s[Len(t) + 1 + x] = Escape
           /\ \/ 1 <= x /\ x < Len(v)
              \/ Len(v) + 1 <= x /\ x < 2 * Len(v)
              \/ 2 * Len(v) + 1 <= x /\ x < 3 * Len(v)
              => s[Len(t) + 1 + x] # Escape
<1> DEFINE l == Len(t)
           L == Len(v)
<1>1. /\ l \in Nat /\ L \in Nat /\ L >= 11 /\ v[1] = Escape /\ \A q \in 2 .. L : v[q] # Escape
      /\ \A k \in 0 .. 4 : StandsIn(v, s, l + k * L)
  BY DEF Copies, SingleMark
<1>2. /\ \A q \in 1 .. L : s[l + q] = v[q]
      /\ \A q \in 1 .. L : s[(l + L) + q] = v[q]
      /\ \A q \in 1 .. L : s[(l + 2 * L) + q] = v[q]
  <2>1. StandsIn(v, s, l + 0 * L) /\ StandsIn(v, s, l + 1 * L) /\ StandsIn(v, s, l + 2 * L)
    BY <1>1
  <2> HIDE DEF l, L
  <2>2. l + 0 * L = l /\ l + 1 * L = l + L
    BY <1>1
  <2>3. StandsIn(v, s, l) /\ StandsIn(v, s, l + L) /\ StandsIn(v, s, l + 2 * L)
    BY <2>1, <2>2
  <2>4. QED BY <2>3 DEF StandsIn, L
<1> HIDE DEF l, L
<1>3. ASSUME NEW k \in {0, L, 2 * L}, NEW q \in 1 .. L, x = k + q - 1 PROVE s[l + 1 + x] = v[q]
  <2>1. CASE k = 0
    <3>1. l + 1 + x = l + q
      BY <1>1, <1>3, <2>1
    <3>2. QED BY <1>2, <3>1
  <2>2. CASE k = L
    <3>1. l + 1 + x = (l + L) + q
      BY <1>1, <1>3, <2>2
    <3>2. QED BY <1>2, <3>1
  <2>3. CASE k = 2 * L
    <3>1. l + 1 + x = (l + 2 * L) + q
      BY <1>1, <1>3, <2>3
    <3>2. QED BY <1>2, <3>1
  <2>4. QED BY <2>1, <2>2, <2>3
<1>4. ASSUME x = 0 \/ x = L \/ x = 2 * L PROVE s[l + 1 + x] = Escape
  <2>1. 1 \in 1 .. L /\ x \in {0, L, 2 * L} /\ x = x + 1 - 1
    BY <1>1, <1>4
  <2>2. QED BY <1>1, <1>3, <2>1
<1>5. ASSUME NEW k \in {0, L, 2 * L}, k + 1 <= x, x < k + L PROVE s[l + 1 + x] # Escape
  <2> DEFINE q == x - k + 1
  <2>1. q \in 1 .. L /\ q \in 2 .. L /\ x = k + q - 1
    BY <1>1, <1>5
  <2> HIDE DEF q
  <2>2. QED BY <1>1, <1>3, <2>1
<1>6. ASSUME \/ 1 <= x /\ x < L
             \/ L + 1 <= x /\ x < 2 * L
             \/ 2 * L + 1 <= x /\ x < 3 * L
      PROVE  s[l + 1 + x] # Escape
  <2>1. CASE 1 <= x /\ x < L
    <3>1. 0 \in {0, L, 2 * L} /\ 0 + 1 <= x /\ x < 0 + L
      BY <1>1, <2>1
    <3>2. QED BY <1>5, <3>1
  <2>2. CASE L + 1 <= x /\ x < 2 * L
    <3>1. L \in {0, L, 2 * L} /\ L + 1 <= x /\ x < L + L
      BY <1>1, <2>2
    <3>2. QED BY <1>5, <3>1
  <2>3. CASE 2 * L + 1 <= x /\ x < 3 * L
    <3> DEFINE k == 2 * L
    <3>1. k \in {0, L, 2 * L} /\ k + 1 <= x /\ x < k + L
      BY <1>1, <2>3
    <3> HIDE DEF k
    <3>2. QED BY <1>5, <3>1
  <2>4. QED BY <1>6, <2>1, <2>2, <2>3
<1>7. QED BY <1>4, <1>6 DEF l, L

\* The reader looks through the wrong message: after j bytes it is x places past the first
\* byte of the copies, of length L.
Lands(x, L, j) ==
    \/ x <= 0
    \/ 1 <= x /\ x <= L /\ x <= j
    \/ L + 1 <= x /\ x <= 2 * L /\ x - 1 <= j
    \/ 2 * L + 1 <= x /\ x <= 3 * L /\ x - 2 <= j

\* One byte further: the byte after a mark is skipped.
LEMMA LandsNext ==
    ASSUME NEW L \in Nat, L >= 11, NEW j \in Nat, j + 1 <= 22, NEW y \in Int, NEW z \in Int, Lands(y, L, j),
           y = 0 => j >= 1,
           z <= y + 2,
           y = 0 \/ y = L \/ y = 2 * L => z = y + 2,
           \/ 1 <= y /\ y < L
           \/ L + 1 <= y /\ y < 2 * L
           \/ 2 * L + 1 <= y /\ y < 3 * L
           => z = y + 1
    PROVE  Lands(z, L, j + 1)
<1>1. CASE y < 0
  <2>1. z <= 0 \/ z = 1
    BY <1>1
  <2>2. CASE z <= 0
    BY <2>2 DEF Lands
  <2>3. CASE z = 1
    <3>1. 1 <= z /\ z <= L /\ z <= j + 1
      BY <2>3
    <3>2. QED BY <3>1 DEF Lands
  <2>4. QED BY <2>1, <2>2, <2>3
<1>2. CASE y = 0
  <2>1. 1 <= z /\ z <= L /\ z <= j + 1
    BY <1>2
  <2>2. QED BY <2>1 DEF Lands
<1>3. CASE 1 <= y /\ y <= L /\ y <= j
  <2>1. CASE y < L
    <3>1. 1 <= z /\ z <= L /\ z <= j + 1
      BY <1>3, <2>1
    <3>2. QED BY <3>1 DEF Lands
  <2>2. CASE y = L
    <3>1. L + 1 <= z /\ z <= 2 * L /\ z - 1 <= j + 1
      BY <1>3, <2>2
    <3>2. QED BY <3>1 DEF Lands
  <2>3. QED BY <1>3, <2>1, <2>2
<1>4. CASE L + 1 <= y /\ y <= 2 * L /\ y - 1 <= j
  <2>1. CASE y < 2 * L
    <3>1. L + 1 <= z /\ z <= 2 * L /\ z - 1 <= j + 1
      BY <1>4, <2>1
    <3>2. QED BY <3>1 DEF Lands
  <2>2. CASE y = 2 * L
    <3>1. 2 * L + 1 <= z /\ z <= 3 * L /\ z - 2 <= j + 1
      BY <1>4, <2>2
    <3>2. QED BY <3>1 DEF Lands
  <2>3. QED BY <1>4, <2>1, <2>2
<1>5. CASE 2 * L + 1 <= y /\ y <= 3 * L /\ y - 2 <= j
  <2>1. y < 3 * L
    BY <1>5
  <2>2. z = y + 1
    BY <1>5, <2>1
  <2>3. 2 * L + 1 <= z /\ z <= 3 * L /\ z - 2 <= j + 1
    BY <1>5, <2>1, <2>2
  <2>4. QED BY <2>3 DEF Lands
<1>6. QED BY <1>1, <1>2, <1>3, <1>4, <1>5 DEF Lands

LEMMA WrongMessage ==
    ASSUME NEW t, NEW v, NEW s, Copies(t, v, s), SingleMark(v), Len(t) >= 2
    PROVE  \A j \in 0 .. 22 : Lands(Places(s, 2)[j] - (Len(t) + 1), Len(v), j)
<1> DEFINE l == Len(t)
           L == Len(v)
           J == Places(s, 2)
<1>1. l \in Nat /\ l >= 2 /\ L \in Nat /\ L >= 11
  BY DEF Copies, SingleMark
<1>2. J[0] = 2 /\ \A j \in Nat : J[j] \in Nat /\ J[j + 1] = IF s[J[j]] = Escape THEN J[j] + 2 ELSE J[j] + 1
  <2> DEFINE p == 2
  <2>1. p \in Nat
    OBVIOUS
  <2> HIDE DEF p
  <2>2. Places(s, p)[0] = p /\ \A n \in Nat : Places(s, p)[n] \in Nat /\ Places(s, p)[n + 1] = IF s[Places(s, p)[n]] = Escape THEN Places(s, p)[n] + 2 ELSE Places(s, p)[n] + 1
    BY <2>1, PlacesGo
  <2>3. QED BY <2>2 DEF p
<1>3. \A y \in Nat : /\ y = 0 \/ y = L \/ y = 2 * L => s[l + 1 + y] = Escape
                     /\ \/ 1 <= y /\ y < L
                        \/ L + 1 <= y /\ y < 2 * L
                        \/ 2 * L + 1 <= y /\ y < 3 * L
                        => s[l + 1 + y] # Escape
  BY CopyBytes
<1> HIDE DEF l, L, J
<1> DEFINE S == {j \in Nat : j <= 22 => Lands(J[j] - (l + 1), L, j)}
<1>4. Lands(J[0] - (l + 1), L, 0)
  <2>1. J[0] - (l + 1) <= 0
    BY <1>1, <1>2
  <2>2. QED BY <2>1 DEF Lands
<1>5. ASSUME NEW j \in Nat, j + 1 <= 22, Lands(J[j] - (l + 1), L, j) PROVE Lands(J[j + 1] - (l + 1), L, j + 1)
  <2> DEFINE a == J[j]
             b == J[j + 1]
             y == a - (l + 1)
             z == b - (l + 1)
  <2>1. a \in Nat /\ b \in Nat /\ (s[a] = Escape => b = a + 2) /\ (s[a] # Escape => b = a + 1)
    <3>1. a \in Nat /\ b = IF s[a] = Escape THEN a + 2 ELSE a + 1
      BY <1>2
    <3> HIDE DEF a, b
    <3>2. QED BY <3>1
  <2>2. j = 0 => a = 2
    BY <1>2
  <2>3. Lands(y, L, j)
    BY <1>5
  <2> HIDE DEF a, b
  <2>4. y \in Int /\ z \in Int /\ z <= y + 2 /\ l + 1 + y = a /\ (y = 0 => j >= 1)
        /\ (s[a] = Escape => z = y + 2) /\ (s[a] # Escape => z = y + 1)
    BY <1>1, <2>1, <2>2
  <2> HIDE DEF y, z
  <2>5. y = 0 \/ y = L \/ y = 2 * L => z = y + 2
    <3>1. y = 0 \/ y = L \/ y = 2 * L => y \in Nat
      BY <1>1
    <3>2. QED BY <1>3, <2>4, <3>1
  <2>6. \/ 1 <= y /\ y < L
        \/ L + 1 <= y /\ y < 2 * L
        \/ 2 * L + 1 <= y /\ y < 3 * L
        => z = y + 1
    <3>1. 1 <= y \/ L + 1 <= y \/ 2 * L + 1 <= y => y \in Nat
      BY <1>1, <2>4
    <3>2. QED BY <1>3, <2>4, <3>1
  <2>7. Lands(z, L, j + 1)
    BY <1>1, <1>5, <2>3, <2>4, <2>5, <2>6, LandsNext
  <2>8. QED BY <2>7 DEF z, b
<1>6. 0 \in S
  BY <1>4
<1>7. ASSUME NEW j \in Nat, j \in S PROVE j + 1 \in S
  <2>1. CASE j + 1 <= 22
    <3>1. Lands(J[j] - (l + 1), L, j)
      BY <1>7, <2>1
    <3>2. Lands(J[j + 1] - (l + 1), L, j + 1)
      BY <1>5, <2>1, <3>1
    <3>3. QED BY <3>2
  <2>2. CASE ~(j + 1 <= 22)
    BY <2>2
  <2>3. QED BY <2>1, <2>2
<1> HIDE DEF S
<1>8. \A j \in Nat : j \in S
  BY <1>6, <1>7, SetInduction
<1>9. \A j \in 0 .. 22 : Lands(J[j] - (l + 1), L, j)
  BY <1>8 DEF S
<1>10. QED BY <1>9 DEF J, l, L

\* What is handled is n, but for the first at most, and n for the last j.
Recovers(out, n, j) ==
    /\ out \in Seq(Message) /\ Len(out) >= j
    /\ \A q \in 2 .. Len(out) : out[q] = n
    /\ \A q \in 1 .. Len(out) : q > Len(out) - j => out[q] = n

LEMMA RecoversMore ==
    ASSUME NEW n \in Message, NEW j \in Nat, NEW out, Recovers(out, n, j)
    PROVE  Recovers(out \o <<n>>, n, j + 1)
<1> DEFINE l == Len(out)
           more == out \o <<n>>
<1>1. out \in Seq(Message) /\ l \in Nat /\ l >= j
  BY DEF Recovers
<1>2. /\ more \in Seq(Message) /\ Len(more) = l + 1
      /\ \A q \in 1 .. l : more[q] = out[q]
      /\ more[l + 1] = n
  BY <1>1
<1>3. /\ \A q \in 2 .. l : out[q] = n
      /\ \A q \in 1 .. l : q > l - j => out[q] = n
  BY DEF Recovers
<1> HIDE DEF more, l
<1>4. ASSUME NEW q \in 2 .. Len(more) PROVE more[q] = n
  <2>1. CASE q = l + 1
    BY <1>2, <2>1
  <2>2. CASE q # l + 1
    <3>1. q \in 1 .. l /\ q \in 2 .. l
      BY <1>1, <1>2, <2>2
    <3>2. QED BY <1>2, <1>3, <3>1
  <2>3. QED BY <2>1, <2>2
<1>5. ASSUME NEW q \in 1 .. Len(more), q > Len(more) - (j + 1) PROVE more[q] = n
  <2>1. CASE q = l + 1
    BY <1>2, <2>1
  <2>2. CASE q # l + 1
    <3>1. q \in 1 .. l /\ q > l - j
      BY <1>1, <1>2, <1>5, <2>2
    <3>2. QED BY <1>2, <1>3, <3>1
  <2>3. QED BY <2>1, <2>2
<1>6. Len(more) >= j + 1
  BY <1>1, <1>2
<1>7. Recovers(more, n, j + 1)
  BY <1>2, <1>4, <1>5, <1>6 DEF Recovers
<1>8. QED BY <1>7 DEF more

\* All the more for fewer.
LEMMA RecoversLess ==
    ASSUME NEW n, NEW out, NEW j \in Nat, NEW i \in Nat, i <= j, Recovers(out, n, j)
    PROVE  Recovers(out, n, i)
<1>1. out \in Seq(Message) /\ Len(out) \in Nat /\ Len(out) >= j
  BY DEF Recovers
<1>2. ASSUME NEW q \in 1 .. Len(out), q > Len(out) - i PROVE q > Len(out) - j
  BY <1>1, <1>2
<1>3. QED BY <1>1, <1>2 DEF Recovers

LEMMA OneWrong ==
    ASSUME NEW n \in Message, NEW out, Recovers(out, n, 2)
    PROVE  /\ Cardinality({k \in 1 .. Len(out) : out[k] # n}) <= 1
           /\ IsSuffix(<<n, n>>, out)
<1> DEFINE l == Len(out)
           wrong == {k \in 1 .. l : out[k] # n}
<1>1. out \in Seq(Message) /\ l \in Nat /\ l >= 2
  BY DEF Recovers
<1>2. /\ \A q \in 2 .. l : out[q] = n
      /\ \A q \in 1 .. l : q > l - 2 => out[q] = n
  BY DEF Recovers
<1>3. Cardinality(wrong) <= 1
  <2>1. wrong \in SUBSET {1}
    BY <1>1, <1>2
  <2> HIDE DEF wrong
  <2>2. IsFiniteSet({1}) /\ Cardinality({1}) = 1
    BY FS_Singleton
  <2>3. Cardinality(wrong) <= Cardinality({1})
    BY <2>1, <2>2, FS_Subset
  <2>4. QED BY <2>2, <2>3
<1>4. out[l] = n /\ out[l - 1] = n
  <2>1. l \in 1 .. l /\ l > l - 2 /\ l - 1 \in 1 .. l /\ l - 1 > l - 2
    BY <1>1
  <2> HIDE DEF l
  <2>2. QED BY <1>2, <2>1
<1>5. IsSuffix(<<n, n>>, out)
  <2> DEFINE two == Reverse(<<n, n>>)
             back == Reverse(out)
  <2>1. two = [i \in 1 .. 2 |-> n]
    <3> DEFINE pair == <<n, n>>
    <3>1. pair \in Seq(Message) /\ Len(pair) = 2 /\ pair[1] = n /\ pair[2] = n
      OBVIOUS
    <3>2. two = [i \in 1 .. Len(pair) |-> pair[(Len(pair) - i) + 1]]
      BY DEF Reverse
    <3> HIDE DEF pair, two
    <3>3. \A i \in 1 .. 2 : pair[(2 - i) + 1] = n
      BY <3>1
    <3>4. QED BY <3>1, <3>2, <3>3
  <2>2. back = [i \in 1 .. l |-> out[(l - i) + 1]]
    BY DEF Reverse
  <2> HIDE DEF two, back, l
  <2>3. back \in Seq(Message) /\ Len(back) = l
    <3>1. \A i \in 1 .. l : out[(l - i) + 1] \in Message
      <4>1. ASSUME NEW i \in 1 .. l PROVE (l - i) + 1 \in 1 .. l
        BY <1>1
      <4>2. QED BY <1>1, <4>1 DEF l
    <3>2. back \in [1 .. l -> Message]
      BY <2>2, <3>1
    <3>3. QED BY <1>1, <3>2
  <2>4. back[1] = n /\ back[2] = n
    <3>1. 1 \in 1 .. l /\ 2 \in 1 .. l /\ (l - 1) + 1 = l /\ (l - 2) + 1 = l - 1
      BY <1>1
    <3>2. QED BY <1>4, <2>2, <3>1
  <2>5. two \in Seq(Message) /\ Len(two) = 2
    <3> DEFINE k == 2
    <3>1. k \in Nat /\ two \in [1 .. k -> Message]
      BY <2>1
    <3> HIDE DEF k
    <3>2. two \in Seq(Message) /\ Len(two) = k
      BY <3>1
    <3>3. QED BY <3>2 DEF k
  <2>6. ASSUME NEW x \in Seq(Message), Len(x) >= 2, x[1] = n, x[2] = n
        PROVE  /\ SubSeq(x, 1, 2) \in Seq(Message) /\ Len(SubSeq(x, 1, 2)) = 2
               /\ SubSeq(x, 1, 2)[1] = n /\ SubSeq(x, 1, 2)[2] = n
    BY <2>6
  <2>7. SubSeq(two, 1, 2) = SubSeq(back, 1, 2)
    <3> DEFINE x == SubSeq(two, 1, 2)
               y == SubSeq(back, 1, 2)
    <3>1. x \in Seq(Message) /\ Len(x) = 2 /\ x[1] = n /\ x[2] = n
      BY <2>1, <2>5, <2>6
    <3>2. y \in Seq(Message) /\ Len(y) = 2 /\ y[1] = n /\ y[2] = n
      BY <1>1, <2>3, <2>4, <2>6
    <3> HIDE DEF x, y
    <3>3. \A i \in 1 .. Len(x) : x[i] = y[i]
      BY <3>1, <3>2
    <3>4. x = y
      BY <3>1, <3>2, <3>3, SeqEqual
    <3>5. QED BY <3>4 DEF x, y
  <2>8. IsPrefix(two, back)
    BY <1>1, <2>3, <2>5, <2>7 DEF IsPrefix
  <2>9. QED BY <2>8 DEF IsSuffix, two, back
<1>6. QED BY <1>3, <1>5

\* The copies that follow place at are all handled, if that is within the first three or
\* in front of them and there is no mark before the next one.
LEMMA CopiesArrive ==
    ASSUME NEW n \in BeastMessages, n \in Message, Wanted("messages", n) = <<n>>,
           NEW t, NEW v, v = writeBeastMessage(n), NEW s, Copies(t, v, s),
           NEW c \in 0 .. 3, NEW at \in Nat \ {0}, at <= Len(t) + c * Len(v) + 1, Clear(s, at, Len(t) + c * Len(v)),
           NEW out, Recovers(out, n, 0), Reached("messages", s, at, out)
    PROVE  Recovers(Scan("messages", s, <<>>).out, n, 2)
<1> DEFINE l == Len(t)
           L == Len(v)
           b == [k \in 0 .. 5 |-> l + k * L]
           T(k) == \E x : Recovers(x, n, 1) /\ Reached("messages", s, b[k] + 1, x)
<1>1. l \in Nat /\ L \in Nat /\ s \in Seq(Byte) /\ Len(s) = l + 5 * L /\ \A k \in 0 .. 4 : StandsIn(v, s, l + k * L)
  BY DEF Copies
<1>2. at <= l + c * L + 1 /\ Clear(s, at, l + c * L)
  OBVIOUS
<1> HIDE DEF l, L
<1>3. /\ b[0] = l /\ b[1] = l + L /\ b[2] = l + 2 * L /\ b[3] = l + 3 * L /\ b[4] = l + 4 * L /\ b[5] = l + 5 * L
  BY <1>1
<1>4. \A k \in 0 .. 4 : StandsIn(v, s, b[k]) /\ b[k] = l + k * L
  <2>1. \A k \in 0 .. 4 : b[k] = l + k * L
    OBVIOUS
  <2> HIDE DEF b
  <2>2. QED BY <1>1, <2>1, Zenon
<1> HIDE DEF b
<1>5. ASSUME NEW k \in 0 .. 4 PROVE b[k] \in Nat /\ b[k + 1] = b[k] + L
  <2>1. CASE k = 0
    BY <1>1, <1>3, <2>1
  <2>2. CASE k = 1
    BY <1>1, <1>3, <2>2
  <2>3. CASE k = 2
    BY <1>1, <1>3, <2>3
  <2>4. CASE k = 3
    BY <1>1, <1>3, <2>4
  <2>5. CASE k = 4
    BY <1>1, <1>3, <2>5
  <2>6. QED BY <2>1, <2>2, <2>3, <2>4, <2>5
<1>6. ASSUME NEW k \in 0 .. 4, NEW from \in Nat \ {0}, from <= b[k] + 1, Clear(s, from, b[k]),
             NEW x, Reached("messages", s, from, x)
      PROVE  Reached("messages", s, b[k + 1] + 1, x \o <<n>>)
  <2>1. Behind("messages", s, from, x)
    BY <1>6, ReachedIsBehind
  <2> DEFINE a == b[k]
  <2>2. a \in Nat /\ StandsIn(v, s, a) /\ from <= a + 1 /\ Clear(s, from, a)
    BY <1>4, <1>5, <1>6
  <2> HIDE DEF a
  <2>3. Reached("messages", s, a + Len(v) + 1, x \o Wanted("messages", n))
    BY <1>1, <2>1, <2>2, MessageArrives
  <2>4. b[k + 1] = a + L
    BY <1>5 DEF a
  <2>5. QED BY <2>3, <2>4 DEF L
<1>7. T(c + 1)
  <2> DEFINE more == out \o <<n>>
  <2>1. c \in 0 .. 4 /\ at <= b[c] + 1 /\ Clear(s, at, b[c])
    BY <1>2, <1>4
  <2>2. Reached("messages", s, b[c + 1] + 1, more)
    BY <1>6, <2>1
  <2>3. Recovers(more, n, 0 + 1)
    BY RecoversMore
  <2> HIDE DEF more
  <2>4. QED BY <2>2, <2>3
<1>8. ASSUME NEW k \in 1 .. 4, T(k)
      PROVE  \E x : Recovers(x, n, 2) /\ Reached("messages", s, b[k + 1] + 1, x)
  <2>1. PICK x : Recovers(x, n, 1) /\ Reached("messages", s, b[k] + 1, x)
    BY <1>8
  <2> DEFINE more == x \o <<n>>
             from == b[k] + 1
  <2>2. k \in 0 .. 4 /\ from \in Nat \ {0} /\ from <= b[k] + 1 /\ Clear(s, from, b[k])
    <3>1. k \in 0 .. 4
      OBVIOUS
    <3>2. b[k] \in Nat
      BY <1>5, <3>1
    <3>3. QED BY <3>1, <3>2 DEF Clear
  <2>3. Reached("messages", s, from, x)
    BY <2>1
  <2> HIDE DEF from
  <2>4. Reached("messages", s, b[k + 1] + 1, more)
    BY <1>6, <2>2, <2>3
  <2>5. Recovers(more, n, 1 + 1)
    BY <2>1, RecoversMore
  <2>6. Recovers(more, n, 2)
    BY <2>5
  <2> HIDE DEF more
  <2>7. QED BY <2>4, <2>6
<1>9. ASSUME NEW k \in 1 .. 4, T(k) PROVE T(k + 1)
  <2>1. PICK x : Recovers(x, n, 2) /\ Reached("messages", s, b[k + 1] + 1, x)
    BY <1>8, <1>9
  <2>2. Recovers(x, n, 1)
    BY <2>1, RecoversLess
  <2>3. QED BY <2>1, <2>2
<1> HIDE DEF T
<1>10. T(4)
  <2>1. T(1) => T(2)
    BY <1>9
  <2>2. T(2) => T(3)
    BY <1>9
  <2>3. T(3) => T(4)
    BY <1>9
  <2>4. T(1) \/ T(2) \/ T(3) \/ T(4)
    BY <1>7
  <2>5. QED BY <2>1, <2>2, <2>3, <2>4
<1>11. PICK x : Recovers(x, n, 2) /\ Reached("messages", s, b[4 + 1] + 1, x)
  BY <1>8, <1>10
<1> DEFINE end == Len(s) + 1
<1>12. Reached("messages", s, end, x) /\ end \in Nat /\ Clear(s, end, Len(s)) /\ "messages" \in Modes
  <2>1. b[4 + 1] + 1 = end
    BY <1>1, <1>3
  <2>2. Clear(s, end, Len(s)) /\ end \in Nat
    BY <1>1 DEF Clear
  <2>3. QED BY <1>11, <2>1, <2>2 DEF Modes
<1> HIDE DEF end
<1>13. Scan("messages", s, <<>>).out = x
  BY <1>1, <1>12, ScanOver
<1>14. QED BY <1>11, <1>13

\* A message that breaks off before the copies: the reader looks for its N bytes and finds
\* the last of them in the copies.
Continues(s, type, i, N) ==
    /\ s[1] = Escape /\ s[2] = type
    /\ N \in 1 .. 22
    /\ Places(s, 2)[N] \in Nat /\ Places(s, 2)[N] > i + 1

LEMMA BrokenOff ==
    ASSUME NEW m \in BeastMessages, NEW w, w = writeBeastMessage(m), NEW i \in 1 .. Len(w) - 1, i >= 2,
           NEW t, t = SubSeq(w, 1, i),
           NEW v, NEW s, Copies(t, v, s), SingleMark(v),
           NEW N, N = BodyLength(m.type) + 1
    PROVE  Continues(s, m.type, i, N)
<1> DEFINE type == m.type
           body == m.body
           J == Places(s, 2)
<1>1. /\ type \in Types("messages") /\ type \in Byte \ {Escape} /\ body \in Seq(Byte)
      /\ Len(body) = Rest("messages", type) /\ w = <<Escape, type>> \o Escaped(body) /\ w \in Seq(Byte)
  BY Written
<1>2. Rest("messages", type) = BodyLength(type)
  BY DEF Rest
<1>3. N \in 1 .. 22 /\ N = Len(body) + 1
  <2>1. "messages" \in Modes
    BY DEF Modes
  <2>2. Rest("messages", type) \in Nat /\ Rest("messages", type) <= 21
    BY <1>1, <2>1, TypesAndLengths
  <2> HIDE DEF type, body
  <2>3. BodyLength(type) \in Nat /\ BodyLength(type) <= 21 /\ Len(body) = BodyLength(type)
    BY <1>1, <1>2, <2>2
  <2> DEFINE x == BodyLength(type)
  <2>4. N = x + 1 /\ x \in Nat /\ x <= 21 /\ Len(body) = x
    BY <2>3 DEF type
  <2> HIDE DEF x
  <2>5. N = Len(body) + 1
    BY <2>4
  <2>6. x + 1 \in 1 .. 22
    BY <2>4
  <2>7. N \in 1 .. 22
    BY <2>4, <2>6, Zenon
  <2>8. QED BY <2>5, <2>7
<1> HIDE DEF type, body
<1>4. Holds(w, 2, Text(type, body), N) /\ w[1] = Escape /\ w[2] = type
  <2>1. Holds(w, 2, Text(type, body), Len(body) + 1) /\ w[1] = Escape /\ w[2] = type
    BY <1>1, WriteHolds
  <2>2. QED BY <1>3, <2>1
<1>5. Places(w, 2)[N] = Len(w) + 1
  BY <1>4 DEF Holds
<1>6. t \in Seq(Byte) /\ Len(t) = i /\ \A q \in 1 .. i : t[q] = w[q]
  BY <1>1
<1>7. \A q \in 1 .. i : s[q] = w[q]
  <2>1. ASSUME NEW q \in 1 .. i PROVE s[0 + q] = t[q] /\ 0 + q = q
    <3>1. StandsIn(t, s, 0)
      BY DEF Copies
    <3>2. s[0 + q] = t[q]
      BY <1>6, <3>1 DEF StandsIn
    <3>3. QED BY <3>2
  <2>2. QED BY <1>6, <2>1
<1>8. s[1] = Escape /\ s[2] = type
  BY <1>4, <1>7
<1>9. J[N] \in Nat
  <2> DEFINE p == 2
  <2>1. p \in Nat /\ N \in Nat
    BY <1>3
  <2> HIDE DEF p
  <2>2. Places(s, p)[N] \in Nat
    BY <2>1, PlacesGo
  <2>3. QED BY <2>2 DEF p
<1>10. ASSUME J[N] <= i + 1 PROVE FALSE
  <2> DEFINE p == 2
  <2>1. p \in Nat /\ p = 0 + p /\ 0 \in Int /\ i \in Nat /\ N \in Nat /\ Places(s, p)[N] <= i + 1
    BY <1>3, <1>10
  <2>2. SameBytes(s, p, i, w, 0)
    <3>1. ASSUME NEW q \in Nat, p <= q, q <= i PROVE q \in 1 .. i /\ 0 + q = q
      BY <3>1
    <3>2. QED BY <1>7, <3>1 DEF SameBytes
  <2> HIDE DEF p
  <2>3. SamePlaces(s, p, N, w, p, 0)
    BY <2>1, <2>2, PlacesShift
  <2>4. N \in 0 .. N
    BY <1>3
  <2>5. Places(w, p)[N] = 0 + Places(s, p)[N]
    BY <2>3, <2>4 DEF SamePlaces
  <2>6. Len(w) + 1 = J[N]
    BY <1>5, <1>9, <2>5 DEF p
  <2> HIDE DEF J
  <2>7. Len(w) \in Nat
    BY <1>1
  <2>8. QED BY <1>10, <2>6, <2>7
<1> HIDE DEF J
<1>11. J[N] > i + 1
  BY <1>9, <1>10
<1>12. QED BY <1>3, <1>8, <1>9, <1>11 DEF J, type, Continues

\* After a message that breaks off modesReadFromClient takes at most one wrong message
\* from the copies that follow, three of them at most, and then handles the rest.
THEOREM ReaderFindsItsWayBack == FindsItsWayBack
<1> SUFFICES ASSUME NEW m \in BeastMessages, NEW n \in BeastMessages,
                    Escape \notin Range(n.body), Wanted("messages", n) = <<n>>,
                    NEW i \in 1 .. Len(writeBeastMessage(m)) - 1
             PROVE  LET copy == writeBeastMessage(n)
                        stream == SubSeq(writeBeastMessage(m), 1, i) \o copy \o copy \o copy \o copy \o copy
                        out == modesReadFromClient("messages", stream, {}).out
                    IN  /\ Cardinality({k \in 1 .. Len(out) : out[k] # n}) <= 1
                        /\ IsSuffix(<<n, n>>, out)
  BY DEF FindsItsWayBack
<1> DEFINE w == writeBeastMessage(m)
           v == writeBeastMessage(n)
           t == SubSeq(w, 1, i)
           s == t \o v \o v \o v \o v \o v
           out == modesReadFromClient("messages", s, {}).out
           L == Len(v)
<1>1. w \in Seq(Byte) /\ v \in Seq(Byte)
  BY Written
<1>2. i \in 1 .. Len(w) - 1
  OBVIOUS
<1>3. SingleMark(v)
  <2> DEFINE type == n.type
             body == n.body
  <2>1. type \in Byte \ {Escape} /\ body \in Seq(Byte) /\ v = <<Escape, type>> \o Escaped(body)
    BY Written
  <2>2. Escape \notin Range(body)
    OBVIOUS
  <2>3. Len(body) = BodyLength(type)
    BY BeastAssumption
  <2> HIDE DEF v, type, body
  <2>4. BodyLength(type) \in 9 .. 21
    BY DEF BodyLength, MODEAC_MSG_BYTES, MODES_SHORT_MSG_BYTES, MODES_LONG_MSG_BYTES
  <2>5. Len(v) = Len(body) + 2 /\ v[1] = Escape /\ \A q \in 2 .. Len(v) : v[q] # Escape
    BY <2>1, <2>2, Plain
  <2>6. QED BY <2>3, <2>4, <2>5 DEF SingleMark
<1>4. n \in Message
  <2>1. n.type \in Byte /\ n.body \in Seq(Byte) /\ n = [type |-> n.type, body |-> n.body]
    BY Written
  <2>2. QED BY <2>1 DEF Message
<1>5. v = writeBeastMessage(n) /\ w = writeBeastMessage(m)
  OBVIOUS
<1> HIDE DEF w, v
<1>6. t \in Seq(Byte) /\ Len(t) = i /\ \A q \in 1 .. i : t[q] = w[q]
  BY <1>1, <1>2
<1>7. t = SubSeq(w, 1, i)
  OBVIOUS
<1> HIDE DEF t
<1>8. Copies(t, v, s)
  BY <1>1, <1>6, FiveCopies
<1> HIDE DEF s
<1>9. s \in Seq(Byte) /\ Len(s) \in Nat /\ Len(s) = i + 5 * L /\ L \in Nat /\ L >= 11 /\ i \in Nat /\ i >= 1
  BY <1>2, <1>6, <1>8, <1>3 DEF Copies, SingleMark
<1>10. "messages" \in Modes
  BY DEF Modes
<1>11. Recovers(<<>>, n, 0)
  BY DEF Recovers
<1>12. Behind("messages", s, 1, <<>>)
  BY BehindAtFirst
<1>13. Recovers(Scan("messages", s, <<>>).out, n, 2)
  <2>1. CASE i = 1
    <3>1. w[1] = Escape
      <4>1. /\ m.type \in Byte \ {Escape} /\ m.body \in Seq(Byte)
            /\ w = <<Escape, m.type>> \o Escaped(m.body)
        BY Written DEF w
      <4>2. QED BY <4>1, WriteHolds
    <3>2. s[1] = Escape
      <4>1. StandsIn(t, s, 0) /\ 1 \in 1 .. Len(t) /\ 0 + 1 = 1
        BY <1>6, <2>1, <1>8 DEF Copies
      <4>2. s[0 + 1] = t[1]
        BY <4>1 DEF StandsIn
      <4>3. QED BY <1>6, <2>1, <3>1, <4>1, <4>2
    <3>3. s[1 + 1] = Escape
      <4> DEFINE y == 0
      <4>1. y \in Nat /\ y = 0
        OBVIOUS
      <4> HIDE DEF y
      <4>2. s[Len(t) + 1 + y] = Escape
        BY <1>3, <1>8, <4>1, CopyBytes
      <4>3. QED BY <1>6, <2>1, <4>1, <4>2
    <3>4. Reached("messages", s, 1 + 1, <<>>)
      <4>1. Escape \notin Types("messages")
        BY DEF Types, Escape, ModeAC
      <4>2. 1 \in Nat \ {0} /\ 1 <= 1 /\ 1 < Len(s) /\ Clear(s, 1, 1 - 1)
        BY <1>9 DEF Clear
      <4>3. QED BY <1>9, <1>10, <1>12, <3>2, <3>3, <4>1, <4>2, MarkReached
    <3> DEFINE at == 2
               x == <<>>
    <3>5. /\ at \in Nat \ {0} /\ at <= Len(t) + 0 * Len(v) + 1 /\ Clear(s, at, Len(t) + 0 * Len(v))
          /\ Reached("messages", s, at, x) /\ Recovers(x, n, 0) /\ 0 \in 0 .. 3
      <4>1. Len(t) + 0 * Len(v) = 1
        BY <1>6, <1>9, <2>1
      <4>2. QED BY <1>11, <3>4, <4>1 DEF Clear
    <3> HIDE DEF at, x
    <3>6. QED BY <1>4, <1>5, <1>8, <3>5, CopiesArrive
  <2>2. CASE i # 1
    <3> DEFINE N == BodyLength(m.type) + 1
               f == Places(s, 2)[N]
               x == f - (i + 1)
               e == EndAt("messages", s, 1)
               h == Handled("messages", s, 1 + 1)
    <3>1. i >= 2
      BY <1>9, <2>2
    <3>2. s[1] = Escape /\ s[2] = m.type /\ N \in 1 .. 22 /\ f \in Nat /\ f > i + 1
      <4> DEFINE k == N
      <4>1. k = BodyLength(m.type) + 1
        OBVIOUS
      <4> HIDE DEF k
      <4>2. Continues(s, m.type, i, k)
        BY <1>2, <1>3, <1>5, <1>7, <1>8, <3>1, <4>1, BrokenOff
      <4>3. QED BY <4>2 DEF k, Continues
    <3>3. Lands(x, L, N)
      <4>1. Len(t) >= 2
        BY <1>6, <3>1
      <4>2. \A j \in 0 .. 22 : Lands(Places(s, 2)[j] - (Len(t) + 1), Len(v), j)
        BY <1>3, <1>8, <4>1, WrongMessage
      <4> HIDE DEF N
      <4>3. N \in 0 .. 22
        BY <3>2
      <4>4. QED BY <1>6, <4>2, <4>3
    <3>4. e = EndOf(s, 2, 2 + N)
      <4>1. s[1 + 1] = m.type /\ Rest("messages", m.type) = BodyLength(m.type)
        BY <3>2 DEF Rest
      <4>2. QED BY <4>1 DEF EndAt
    <3> HIDE DEF N, f, e, h
    <3>5. x \in Nat /\ f = i + 1 + x /\ x >= 1
      BY <1>9, <3>2
    <3> HIDE DEF x
    <3>6. PICK c \in 1 .. 3 : /\ (c - 1) * L + 1 <= x /\ x <= c * L
      <4>1. CASE 1 <= x /\ x <= L
        <5>1. (1 - 1) * L + 1 <= x /\ x <= 1 * L /\ 1 \in 1 .. 3
          BY <1>9, <4>1
        <5>2. QED BY <5>1
      <4>2. CASE L + 1 <= x /\ x <= 2 * L
        <5>1. (2 - 1) * L + 1 <= x /\ x <= 2 * L /\ 2 \in 1 .. 3
          BY <1>9, <4>2
        <5>2. QED BY <5>1
      <4>3. CASE 2 * L + 1 <= x /\ x <= 3 * L
        <5>1. (3 - 1) * L + 1 <= x /\ x <= 3 * L /\ 3 \in 1 .. 3
          BY <1>9, <4>3
        <5>2. QED BY <5>1
      <4>4. QED BY <3>3, <3>5, <4>1, <4>2, <4>3 DEF Lands
    <3>7. c * L <= 3 * L /\ c * L \in Nat
      <4>1. CASE c = 1
        BY <1>9, <4>1
      <4>2. CASE c = 2
        BY <1>9, <4>2
      <4>3. CASE c = 3
        BY <1>9, <4>3
      <4>4. QED BY <4>1, <4>2, <4>3
    <3>8. f <= Len(s) + 1
      BY <1>9, <3>5, <3>6, <3>7
    <3>9. e = f
      <4> DEFINE p == 2
      <4>1. p \in Nat \ {0} /\ N \in Nat /\ Places(s, p)[N] <= Len(s) + 1
        BY <3>2, <3>8 DEF f
      <4> HIDE DEF p
      <4>2. EndOf(s, p, p + N) = Places(s, p)[N]
        BY <1>9, <4>1, EndOfIsPlace
      <4>3. QED BY <3>4, <4>2 DEF p, f
    <3>10. Clear(s, e, i + c * L)
      <4> SUFFICES ASSUME NEW q \in Nat, e <= q, q <= i + c * L PROVE s[q] # Escape
        BY DEF Clear
      <4> DEFINE y == q - (i + 1)
      <4>1. y \in Nat /\ i + 1 + y = q /\ x <= y /\ y < c * L
        BY <1>9, <3>5, <3>7, <3>9
      <4> HIDE DEF y
      <4>2. \/ 1 <= y /\ y < L
            \/ L + 1 <= y /\ y < 2 * L
            \/ 2 * L + 1 <= y /\ y < 3 * L
        <5>1. CASE c = 1
          BY <1>9, <3>5, <3>6, <4>1, <5>1
        <5>2. CASE c = 2
          BY <1>9, <3>5, <3>6, <4>1, <5>2
        <5>3. CASE c = 3
          BY <1>9, <3>5, <3>6, <4>1, <5>3
        <5>4. QED BY <5>1, <5>2, <5>3
      <4>3. s[Len(t) + 1 + y] # Escape
        BY <1>3, <1>8, <4>1, <4>2, CopyBytes
      <4>4. QED BY <1>6, <4>1, <4>3
    <3>11. Reached("messages", s, e, <<>> \o h)
      <4>1. s[1 + 1] \in Types("messages")
        <5>1. m.type \in Types("messages")
          BY Written
        <5>2. QED BY <3>2, <5>1
      <4>2. 1 \in Nat \ {0} /\ 1 <= 1 /\ 1 < Len(s) /\ Clear(s, 1, 1 - 1)
        BY <1>9 DEF Clear
      <4>3. e <= Len(s) + 1
        BY <3>8, <3>9
      <4>4. QED BY <1>9, <1>10, <1>12, <3>2, <4>1, <4>2, <4>3, MarkReached DEF e, h
    <3> DEFINE a == <<>> \o h
    <3>12. Recovers(a, n, 0)
      <4>1. a \in Seq(Message)
        BY <3>11 DEF Reached, Scans, Message
      <4>2. \E o : h = Wanted("messages", o)
        BY DEF h, Handled
      <4>3. PICK o : h = <<>> \/ h = <<o>>
        BY <4>2 DEF Wanted
      <4>4. Len(a) \in Nat /\ Len(a) <= 1
        <5>1. <<>> \o <<>> = <<>> /\ <<>> \o <<o>> = <<o>>
          OBVIOUS
        <5>2. a = <<>> \/ a = <<o>>
          BY <4>3, <5>1
        <5> HIDE DEF a
        <5>3. /\ Len(<<>>) \in Nat /\ Len(<<>>) <= 1
              /\ Len(<<o>>) \in Nat /\ Len(<<o>>) <= 1
          OBVIOUS
        <5>4. QED BY <5>2, <5>3, Zenon
      <4> HIDE DEF a
      <4>5. QED BY <4>1, <4>4 DEF Recovers
    <3> HIDE DEF a
    <3>13. /\ e \in Nat \ {0} /\ e <= Len(t) + c * Len(v) + 1 /\ Clear(s, e, Len(t) + c * Len(v))
           /\ c \in 0 .. 3 /\ Reached("messages", s, e, a)
      <4>1. e \in Nat \ {0} /\ e <= i + c * L + 1
        BY <1>9, <3>2, <3>5, <3>6, <3>7, <3>9
      <4>2. Len(t) + c * Len(v) = i + c * L
        BY <1>6
      <4>3. QED BY <3>10, <3>11, <4>1, <4>2 DEF a
    <3>14. QED BY <1>4, <1>5, <1>8, <3>12, <3>13, CopiesArrive
  <2>3. QED BY <2>1, <2>2
<1>14. modesReadFromClient("messages", s, {}).out = Scan("messages", s, <<>>).out
  <2>1. {} \in SUBSET (1 .. Len(s))
    OBVIOUS
  <2>2. QED BY <1>9, <1>10, <2>1, CutsMakeNoDifference
<1>15. Recovers(out, n, 2)
  BY <1>13, <1>14
<1> HIDE DEF out
<1>16. /\ Cardinality({k \in 1 .. Len(out) : out[k] # n}) <= 1
       /\ IsSuffix(<<n, n>>, out)
  BY <1>4, <1>15, OneWrong
<1>17. QED BY <1>16 DEF out, s, t, v, w
===============================================================================
