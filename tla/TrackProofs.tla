------------------------------ MODULE TrackProofs ------------------------------
(***************************************************************************)
(* Proofs about IcaoFilter and Track, for any table size, hash function,   *)
(* number of addresses, intervals and counting thresholds, and any subset  *)
(* of messages: the filter's two hash tables implement AddressMemory, by   *)
(* themselves and inside Track; positions are anchored; and address/parity *)
(* replies count for recently announced addresses only.                    *)
(*                                                                         *)
(* The argument about the filter has two halves.  Searching: every address *)
(* lies where the search for it gets to (Chained), so that searching is    *)
(* membership and adding to one table adds to the known addresses and      *)
(* nothing else.  Ages: what the active table holds was added since the    *)
(* last flip, what the other one holds at most a TTL before it; and        *)
(* conversely.                                                             *)
(*                                                                         *)
(* PositionAnchored is inductive given the types.  For the replies one has *)
(* to remember that a reply was accepted in the current tick              *)
(* (ParityRemembered), and what the filter knows of the ages.              *)
(***************************************************************************)
EXTENDS Track, TLAPS, FiniteSetTheorems

-------------------------------------------------------------------------------
(* Searching                                                                  *)

\* k is in a slot of the table.
Holds(table, k) == \E s \in Slots : table[s] = k

\* The search for an address that is in the table comes to it before it stops.
Chained(table) ==
    \A k \in Keys, n \in Slots : table[Probe(k, n)] = k => Reaches(table, k, n)

\* Probing goes through slots, through each one once.
LEMMA ProbeSlots ==
    ASSUME NEW k \in Keys
    PROVE  /\ \A n \in Slots : Probe(k, n) \in Slots
           /\ \A m, n \in Slots : Probe(k, m) = Probe(k, n) => m = n
           /\ \A s \in Slots : \E n \in Slots : Probe(k, n) = s
<1> USE FilterAssumption DEF Slots, Probe
<1>1. hash[k] \in 0 .. Size - 1 /\ Size \in Nat
  OBVIOUS
<1>2. \A n \in Slots : Probe(k, n) \in Slots
  BY <1>1
<1>3. \A m, n \in Slots : Probe(k, m) = Probe(k, n) => m = n
  BY <1>1
<1>4. ASSUME NEW s \in Slots PROVE \E n \in Slots : Probe(k, n) = s
  <2>1. CASE s >= hash[k]
    <3>1. s - hash[k] \in Slots /\ Probe(k, s - hash[k]) = s
      BY <1>1, <2>1
    <3>2. QED BY <3>1
  <2>2. CASE s < hash[k]
    <3>1. s - hash[k] + Size \in Slots /\ Probe(k, s - hash[k] + Size) = s
      BY <1>1, <2>2
    <3>2. QED BY <3>1
  <2>3. QED BY <1>1, <2>1, <2>2
<1>5. QED BY <1>2, <1>3, <1>4

\* In a chained table, searching finds exactly what the table holds.
LEMMA SearchIsMembership ==
    ASSUME NEW table, Chained(table), NEW k \in Keys
    PROVE  Finds(table, k) <=> Holds(table, k)
<1>1. ASSUME Finds(table, k) PROVE Holds(table, k)
  BY <1>1, ProbeSlots DEF Finds, Holds
<1>2. ASSUME Holds(table, k) PROVE Finds(table, k)
  <2>1. PICK n \in Slots : table[Probe(k, n)] = k
    BY <1>2, ProbeSlots DEF Holds
  <2>2. QED BY <2>1 DEF Chained, Finds
<1>3. QED BY <1>1, <1>2

\* An address is in at most one slot of a chained table.
LEMMA NoDuplicates ==
    ASSUME NEW table, Chained(table), NEW k \in Keys, NEW s \in Slots, NEW r \in Slots,
           table[s] = k, table[r] = k
    PROVE  s = r
<1>1. PICK m \in Slots : Probe(k, m) = s
  BY ProbeSlots
<1>2. PICK n \in Slots : Probe(k, n) = r
  BY ProbeSlots
<1>3. Reaches(table, k, m) /\ Reaches(table, k, n)
  BY <1>1, <1>2 DEF Chained
<1>4. ~(m < n) /\ ~(n < m)
  BY <1>1, <1>2, <1>3, FilterAssumption DEF Reaches, Slots
<1>5. QED BY <1>1, <1>2, <1>4, FilterAssumption DEF Slots

\* Adding an address where the search for it stops keeps the table chained.
LEMMA AddKeepsChained ==
    ASSUME NEW table \in [Slots -> Keys \cup {EMPTY}], Chained(table),
           NEW k \in Keys, NEW n \in Slots,
           Reaches(table, k, n), table[Probe(k, n)] \in {EMPTY, k}
    PROVE  Chained([table EXCEPT ![Probe(k, n)] = k])
<1> DEFINE after == [table EXCEPT ![Probe(k, n)] = k]
<1> USE FilterAssumption
<1>1. Probe(k, n) \in Slots
  BY ProbeSlots
<1>2. after[Probe(k, n)] = k /\ \A s \in Slots : s # Probe(k, n) => after[s] = table[s]
  BY <1>1
<1>3. SUFFICES ASSUME NEW j \in Keys, NEW i \in Slots, after[Probe(j, i)] = j
               PROVE  Reaches(after, j, i)
  BY DEF Chained
<1>4. Probe(j, i) \in Slots /\ \A m \in 0 .. i - 1 : m \in Slots /\ Probe(j, m) \in Slots
  <2>1. \A m \in 0 .. i - 1 : m \in Slots
    BY DEF Slots
  <2>2. QED BY <2>1, ProbeSlots
<1> HIDE DEF after
<1>5. CASE j = k /\ i = n
  <2>1. \A m \in 0 .. n - 1 : Probe(k, m) # Probe(k, n)
    BY <1>5, <1>4, ProbeSlots DEF Slots
  <2>2. QED BY <2>1, <1>2, <1>4, <1>5 DEF Reaches
<1>6. CASE j = k /\ i # n
  <2>1. table[Probe(k, i)] = k
    BY <1>2, <1>3, <1>4, <1>6, ProbeSlots
  <2>2. Reaches(table, k, i)
    BY <2>1 DEF Chained
  <2>3. ~(n < i)
    BY <2>2 DEF Reaches, Slots
  <2>4. ~(i < n)
    BY <2>1 DEF Reaches, Slots
  <2>5. QED BY <1>6, <2>3, <2>4 DEF Slots
<1>7. CASE j # k
  <2>1. table[Probe(j, i)] = j
    BY <1>2, <1>3, <1>4, <1>7
  <2>2. Reaches(table, j, i)
    BY <2>1 DEF Chained
  <2>3. \A m \in 0 .. i - 1 : after[Probe(j, m)] \in {table[Probe(j, m)], k}
    BY <1>2, <1>4
  <2>4. QED BY <2>2, <2>3, <1>7 DEF Reaches
<1>8. QED BY <1>5, <1>6, <1>7

\* A table in which the search for k never stops is full of different addresses.
LEMMA FullTable ==
    ASSUME NEW table \in [Slots -> Keys \cup {EMPTY}], Chained(table),
           NEW k \in Keys, Reaches(table, k, Size),
           NEW S, IsFiniteSet(S), \A j \in Keys : Holds(table, j) => j \in S
    PROVE  Cardinality(S) >= Size
<1> USE FilterAssumption
<1>1. \A s \in Slots : table[s] \in Keys
  BY ProbeSlots DEF Reaches, Slots
<1>2. \A s \in Slots : table[s] \in S
  BY <1>1 DEF Holds
<1>3. table \in Injection(Slots, S)
  <2>1. table \in [Slots -> S]
    BY <1>2
  <2>2. \A s, r \in Slots : table[s] = table[r] => s = r
    BY <1>1, NoDuplicates
  <2>3. QED BY <2>1, <2>2 DEF Injection, IsInjective
<1>4. Cardinality(Slots) <= Cardinality(S)
  BY <1>3, FS_Injection
<1>5. Cardinality(Slots) = Size
  <2>1. 0 \in Int /\ Size - 1 \in Int /\ ~(0 > Size - 1) /\ Size - 1 - 0 + 1 = Size
    BY FilterAssumption
  <2>2. Cardinality(0 .. Size - 1) = IF 0 > Size - 1 THEN 0 ELSE Size - 1 - 0 + 1
    BY <2>1, FS_Interval
  <2>3. QED BY <2>1, <2>2 DEF Slots
<1>6. QED BY <1>4, <1>5, FS_CardinalityType

-------------------------------------------------------------------------------
(* The inductive invariant                                                    *)

Active == icao_filter[icao_filter_active]
Inactive == icao_filter[Other(icao_filter_active)]

\* What a table holds is not older than the table.
NothingOld ==
    \A k \in Keys :
        /\ Holds(Active, k) => elapsed[k] <= TTL - next_flip
        /\ Holds(Inactive, k) => elapsed[k] <= 2 * TTL - next_flip

\* An address added since a table was cleared is held, if there was room.
NothingMissed ==
    \A k \in Keys \ refused :
        /\ elapsed[k] < TTL - next_flip => Holds(Active, k)
        /\ elapsed[k] < 2 * TTL - next_flip => Holds(Active, k) \/ Holds(Inactive, k)

FilterInv ==
    /\ FilterTypeOK
    /\ \A t \in Tables : Chained(icao_filter[t])
    /\ NothingOld
    /\ NothingMissed

\* The tables are empty in the beginning.
LEMMA InitFilterInv == FilterInit => FilterInv
<1> SUFFICES ASSUME FilterInit PROVE FilterInv
  OBVIOUS
<1> USE FilterAssumption DEF FilterInit
<1>1. FilterTypeOK
  BY DEF FilterTypeOK, Cleared, Tables, Forever
<1>2. \A t \in Tables : icao_filter[t] = Cleared
  OBVIOUS
<1>3. \A k \in Keys : ~Holds(Cleared, k)
  BY DEF Holds, Cleared
<1>4. \A t \in Tables : Chained(icao_filter[t])
  <2>1. SUFFICES Chained(Cleared)
    BY <1>2
  <2>2. QED BY ProbeSlots DEF Chained, Cleared
<1>5. Active = Cleared /\ Inactive = Cleared
  BY <1>2 DEF Active, Inactive, Tables, Other
<1>6. NothingOld
  BY <1>3, <1>5 DEF NothingOld
<1>7. NothingMissed
  <2>1. TTL \in Nat /\ next_flip = 0 /\ \A k \in Keys : elapsed[k] = 2 * TTL + 1
    BY DEF Forever
  <2>2. ~(2 * TTL + 1 < TTL - 0) /\ ~(2 * TTL + 1 < 2 * TTL - 0)
    BY <2>1
  <2>3. QED BY <2>1, <2>2, Zenon DEF NothingMissed
<1>8. QED BY <1>1, <1>4, <1>6, <1>7 DEF FilterInv

\* The known addresses are those one of the tables holds.
KnownIsHeld == \A k \in Keys : k \in Known <=> Holds(Active, k) \/ Holds(Inactive, k)

LEMMA InvKnownIsHeld == FilterInv => KnownIsHeld
<1> SUFFICES ASSUME FilterInv, NEW k \in Keys
             PROVE  k \in Known <=> Holds(Active, k) \/ Holds(Inactive, k)
  BY DEF KnownIsHeld
<1>1. \A t \in Tables : Finds(icao_filter[t], k) <=> Holds(icao_filter[t], k)
  BY SearchIsMembership DEF FilterInv
<1>2. Tables = {icao_filter_active, Other(icao_filter_active)}
  BY DEF FilterInv, FilterTypeOK, Tables, Other
<1>3. QED BY <1>1, <1>2 DEF Known, icaoFilterTest, Active, Inactive

\* There are finitely many of them.
LEMMA KnownFinite ==
    ASSUME FilterInv
    PROVE  IsFiniteSet(Known)
<1> USE FilterAssumption
<1> DEFINE Content(t) == {icao_filter[t][s] : s \in Slots}
<1>1. IsFiniteSet(Slots)
  BY FS_Interval DEF Slots
<1>2. ASSUME NEW t \in Tables PROVE IsFiniteSet(Content(t))
  <2>1. icao_filter[t] \in Surjection(Slots, Content(t))
    BY DEF FilterInv, FilterTypeOK, Surjection
  <2>2. QED BY <1>1, <2>1, FS_Surjection
<1>3. IsFiniteSet(Content("a")) /\ IsFiniteSet(Content("b"))
  BY <1>2 DEF Tables
<1>4. IsFiniteSet(Content("a") \cup Content("b"))
  BY <1>3, FS_Union
<1>5. \A k \in Known : k \in Content("a") \cup Content("b")
  <2>1. ASSUME NEW k \in Known PROVE k \in Content("a") \cup Content("b")
    <3>1. PICK t \in Tables : Holds(icao_filter[t], k)
      BY SearchIsMembership DEF Known, icaoFilterTest, FilterInv
    <3>2. QED BY <3>1 DEF Holds, Tables
  <2>2. QED BY <2>1
<1>6. Known \in SUBSET (Content("a") \cup Content("b"))
  BY <1>5
<1>7. QED BY <1>4, <1>6, FS_Subset

-------------------------------------------------------------------------------
(* The steps                                                                  *)

\* The table that an addition leaves is chained and holds what it held, and k.
LEMMA AddToTable ==
    ASSUME NEW table \in [Slots -> Keys \cup {EMPTY}], Chained(table),
           NEW k \in Keys, NEW n \in Slots,
           Reaches(table, k, n), table[Probe(k, n)] \in {EMPTY, k}
    PROVE  LET after == [table EXCEPT ![Probe(k, n)] = k] IN
           /\ after \in [Slots -> Keys \cup {EMPTY}]
           /\ Chained(after)
           /\ \A j \in Keys : Holds(after, j) <=> Holds(table, j) \/ j = k
<1> DEFINE after == [table EXCEPT ![Probe(k, n)] = k]
<1>1. Probe(k, n) \in Slots
  BY ProbeSlots
<1>2. after[Probe(k, n)] = k /\ \A s \in Slots : s # Probe(k, n) => after[s] = table[s]
  BY <1>1
<1>3. after \in [Slots -> Keys \cup {EMPTY}]
  BY <1>1
<1>4. \A j \in Keys : Holds(after, j) <=> Holds(table, j) \/ j = k
  BY <1>1, <1>2, FilterAssumption DEF Holds
<1>5. Chained(after)
  BY AddKeepsChained
<1>6. QED BY <1>3, <1>4, <1>5

\* An addition that finds room.
LEMMA AddRemembers ==
    ASSUME FilterInv, NEW k \in Keys, NEW n \in Slots,
           Reaches(Active, k, n), Active[Probe(k, n)] \in {EMPTY, k},
           icao_filter' = [icao_filter EXCEPT ![icao_filter_active] =
                              [Active EXCEPT ![Probe(k, n)] = k]],
           refused' = refused \ {k},
           elapsed' = [elapsed EXCEPT ![k] = 0],
           UNCHANGED <<icao_filter_active, next_flip>>
    PROVE  FilterInv' /\ Known' = Known \cup {k}
<1> DEFINE after == [Active EXCEPT ![Probe(k, n)] = k]
<1> USE FilterAssumption
<1>1. /\ Active \in [Slots -> Keys \cup {EMPTY}]
      /\ Chained(Active)
      /\ icao_filter_active \in Tables /\ Other(icao_filter_active) \in Tables
      /\ Other(icao_filter_active) # icao_filter_active
  BY DEF FilterInv, FilterTypeOK, Active, Tables, Other
<1>2. /\ after \in [Slots -> Keys \cup {EMPTY}]
      /\ Chained(after)
      /\ \A j \in Keys : Holds(after, j) <=> Holds(Active, j) \/ j = k
  BY <1>1, AddToTable
<1> HIDE DEF after
<1>3. icao_filter' = [icao_filter EXCEPT ![icao_filter_active] = after]
  BY DEF after
<1>4. icao_filter \in [Tables -> [Slots -> Keys \cup {EMPTY}]]
  BY DEF FilterInv, FilterTypeOK
<1>5. Active' = after /\ Inactive' = Inactive
  BY <1>1, <1>3, <1>4 DEF Active, Inactive
<1>6. FilterTypeOK'
  <2>1. elapsed' \in [Keys -> 0 .. Forever]
    BY DEF FilterInv, FilterTypeOK, Forever
  <2>2. icao_filter' \in [Tables -> [Slots -> Keys \cup {EMPTY}]]
    BY <1>1, <1>2, <1>3, <1>4
  <2>3. icao_filter_active' \in Tables /\ next_flip' \in 0 .. TTL /\ refused' \subseteq Keys
    BY DEF FilterInv, FilterTypeOK
  <2>4. QED BY <2>1, <2>2, <2>3 DEF FilterTypeOK
<1>7. \A t \in Tables : Chained(icao_filter'[t])
  BY <1>2, <1>3, <1>4 DEF FilterInv
<1>8. next_flip \in 0 .. TTL /\ elapsed \in [Keys -> 0 .. Forever]
  BY DEF FilterInv, FilterTypeOK
<1>9. \A j \in Keys : elapsed'[j] = IF j = k THEN 0 ELSE elapsed[j]
  BY <1>8
<1>10. NothingOld'
  <2>1. SUFFICES ASSUME NEW j \in Keys
                 PROVE  /\ Holds(after, j) => elapsed'[j] <= TTL - next_flip
                        /\ Holds(Inactive, j) => elapsed'[j] <= 2 * TTL - next_flip
    BY <1>5 DEF NothingOld
  <2>2. CASE j = k
    BY <2>2, <1>8, <1>9
  <2>3. CASE j # k
    BY <2>3, <1>2, <1>9 DEF FilterInv, NothingOld
  <2>4. QED BY <2>2, <2>3
<1>11. NothingMissed'
  <2>1. SUFFICES ASSUME NEW j \in Keys \ (refused \ {k})
                 PROVE  /\ elapsed'[j] < TTL - next_flip => Holds(after, j)
                        /\ elapsed'[j] < 2 * TTL - next_flip
                             => Holds(after, j) \/ Holds(Inactive, j)
    BY <1>5 DEF NothingMissed
  <2>2. CASE j = k
    BY <2>2, <1>2
  <2>3. CASE j # k
    BY <2>3, <1>2, <1>9 DEF FilterInv, NothingMissed
  <2>4. QED BY <2>2, <2>3
<1>12. FilterInv'
  BY <1>6, <1>7, <1>10, <1>11 DEF FilterInv
<1>13. KnownIsHeld'
  BY <1>12, InvKnownIsHeld, PTL
<1>14. KnownIsHeld
  BY InvKnownIsHeld
<1>15. Known' \subseteq Keys /\ Known \subseteq Keys
  BY DEF Known
<1>16. \A j \in Keys : j \in Known' <=> j \in Known \/ j = k
  BY <1>2, <1>5, <1>13, <1>14 DEF KnownIsHeld, Holds
<1>17. QED BY <1>12, <1>15, <1>16

\* An addition that finds none.
LEMMA AddRefuses ==
    ASSUME FilterInv, NEW k \in Keys, Reaches(Active, k, Size),
           refused' = refused \cup {k},
           elapsed' = [elapsed EXCEPT ![k] = 0],
           UNCHANGED <<icao_filter, icao_filter_active, next_flip>>
    PROVE  FilterInv' /\ Known' = Known /\ Cardinality(Known) >= Size
<1> USE FilterAssumption
<1>1. Active' = Active /\ Inactive' = Inactive
  BY DEF Active, Inactive
<1>2. next_flip \in 0 .. TTL /\ elapsed \in [Keys -> 0 .. Forever]
  BY DEF FilterInv, FilterTypeOK
<1>3. \A j \in Keys : elapsed'[j] = IF j = k THEN 0 ELSE elapsed[j]
  BY <1>2
<1>4. FilterTypeOK'
  <2>1. elapsed' \in [Keys -> 0 .. Forever]
    BY <1>2 DEF Forever
  <2>2. QED BY <2>1 DEF FilterInv, FilterTypeOK
<1>5. NothingOld'
  BY <1>1, <1>2, <1>3 DEF FilterInv, NothingOld, Holds
<1>6. NothingMissed'
  BY <1>1, <1>3 DEF FilterInv, NothingMissed, Holds
<1>7. FilterInv'
  BY <1>4, <1>5, <1>6 DEF FilterInv, Chained, Reaches
<1>8. Known' = Known
  BY DEF Known, icaoFilterTest, Finds, Reaches
<1>9. Cardinality(Known) >= Size
  <2>1. Active \in [Slots -> Keys \cup {EMPTY}] /\ Chained(Active)
    BY DEF FilterInv, FilterTypeOK, Active
  <2>2. \A j \in Keys : Holds(Active, j) => j \in Known
    BY InvKnownIsHeld DEF KnownIsHeld
  <2>3. QED BY <2>1, <2>2, KnownFinite, FullTable
<1>10. QED BY <1>7, <1>8, <1>9

\* A flip: what the cleared table held is old enough, or was added to the other as well.
LEMMA FlipForgets ==
    ASSUME FilterInv, icaoFilterExpire
    PROVE  /\ FilterInv'
           /\ Known' \subseteq Known
           /\ \A k \in Known \ Known' : elapsed[k] >= TTL \/ k \in refused
<1> USE FilterAssumption DEF icaoFilterExpire
<1>1. /\ icao_filter \in [Tables -> [Slots -> Keys \cup {EMPTY}]]
      /\ icao_filter_active \in Tables /\ Other(icao_filter_active) \in Tables
      /\ Other(icao_filter_active) # icao_filter_active
      /\ Other(Other(icao_filter_active)) = icao_filter_active
      /\ elapsed \in [Keys -> 0 .. Forever]
  BY DEF FilterInv, FilterTypeOK, Tables, Other
<1>2. Active' = Cleared /\ Inactive' = Active
  BY <1>1 DEF Active, Inactive
<1>3. \A k \in Keys : ~Holds(Cleared, k)
  BY DEF Holds, Cleared
<1>4. FilterTypeOK'
  BY <1>1 DEF FilterInv, FilterTypeOK, Cleared
<1>5. \A t \in Tables : Chained(icao_filter'[t])
  <2>1. Chained(Cleared)
    BY ProbeSlots DEF Chained, Cleared
  <2>2. QED BY <2>1, <1>1 DEF FilterInv
<1>6. NothingOld'
  <2>1. \A k \in Keys : Holds(Active, k) => elapsed[k] <= TTL
    BY <1>1 DEF FilterInv, NothingOld
  <2>2. 2 * TTL - TTL = TTL
    OBVIOUS
  <2>3. QED BY <2>1, <2>2, <1>2, <1>3 DEF NothingOld
<1>7. \A k \in Keys \ refused : elapsed[k] < TTL => Holds(Active, k)
  BY DEF FilterInv, NothingMissed
<1>8. NothingMissed'
  <2>1. \A k \in Keys : ~(elapsed[k] < TTL - TTL)
    BY <1>1 DEF Forever
  <2>2. 2 * TTL - TTL = TTL
    OBVIOUS
  <2>3. QED BY <2>1, <2>2, <1>2, <1>7 DEF NothingMissed
<1>9. FilterInv'
  BY <1>4, <1>5, <1>6, <1>8 DEF FilterInv
<1>10. KnownIsHeld'
  BY <1>9, InvKnownIsHeld, PTL
<1>11. KnownIsHeld
  BY InvKnownIsHeld
<1>12. \A k \in Keys : k \in Known' <=> Holds(Active, k)
  BY <1>2, <1>3, <1>10 DEF KnownIsHeld, Holds
<1>13. Known' \subseteq Keys /\ Known \subseteq Keys
  BY DEF Known
<1>14. Known' \subseteq Known
  BY <1>11, <1>12, <1>13 DEF KnownIsHeld
<1>15. \A k \in Known \ Known' : elapsed[k] >= TTL \/ k \in refused
  BY <1>1, <1>7, <1>12, <1>13 DEF Forever
<1>16. QED BY <1>9, <1>14, <1>15

\* Time passes only while nothing known is too old.
LEMMA TickPasses ==
    ASSUME FilterInv, FilterTick
    PROVE  FilterInv' /\ Known' = Known /\ \A k \in Known : elapsed[k] < 2 * TTL
<1> USE FilterAssumption DEF FilterTick
<1>1. Active' = Active /\ Inactive' = Inactive
  BY DEF Active, Inactive
<1>2. next_flip \in 1 .. TTL /\ elapsed \in [Keys -> 0 .. Forever]
  BY DEF FilterInv, FilterTypeOK
<1>3. \A k \in Keys : elapsed'[k] = IF elapsed[k] < Forever THEN elapsed[k] + 1 ELSE Forever
  OBVIOUS
<1>4. FilterTypeOK'
  <2>1. elapsed' \in [Keys -> 0 .. Forever]
    BY <1>2 DEF Forever
  <2>2. next_flip' \in 0 .. TTL
    BY <1>2
  <2>3. QED BY <2>1, <2>2 DEF FilterInv, FilterTypeOK
<1>5. NothingOld'
  <2>1. SUFFICES ASSUME NEW k \in Keys
                 PROVE  /\ Holds(Active, k) => elapsed'[k] <= TTL - next_flip'
                        /\ Holds(Inactive, k) => elapsed'[k] <= 2 * TTL - next_flip'
    BY <1>1 DEF NothingOld, Holds
  <2>2. /\ Holds(Active, k) => elapsed[k] <= TTL - next_flip
        /\ Holds(Inactive, k) => elapsed[k] <= 2 * TTL - next_flip
    BY DEF FilterInv, NothingOld
  <2>3. QED BY <2>2, <1>2, <1>3 DEF Forever
<1>6. NothingMissed'
  <2>1. SUFFICES ASSUME NEW k \in Keys \ refused
                 PROVE  /\ elapsed'[k] < TTL - next_flip' => Holds(Active, k)
                        /\ elapsed'[k] < 2 * TTL - next_flip'
                             => Holds(Active, k) \/ Holds(Inactive, k)
    BY <1>1 DEF NothingMissed, Holds
  <2>2. /\ elapsed[k] < TTL - next_flip => Holds(Active, k)
        /\ elapsed[k] < 2 * TTL - next_flip => Holds(Active, k) \/ Holds(Inactive, k)
    BY DEF FilterInv, NothingMissed
  <2>3. QED BY <2>2, <1>2, <1>3 DEF Forever
<1>7. FilterInv'
  BY <1>4, <1>5, <1>6 DEF FilterInv, Chained, Reaches
<1>8. Known' = Known
  BY DEF Known, icaoFilterTest, Finds, Reaches
<1>9. \A k \in Known : elapsed[k] < 2 * TTL
  <2>1. SUFFICES ASSUME NEW k \in Known PROVE elapsed[k] < 2 * TTL
    OBVIOUS
  <2>2. k \in Keys /\ (Holds(Active, k) \/ Holds(Inactive, k))
    BY InvKnownIsHeld DEF KnownIsHeld, Known
  <2>3. QED BY <2>2, <1>2 DEF FilterInv, NothingOld
<1>10. QED BY <1>7, <1>8, <1>9

-------------------------------------------------------------------------------
(* The refinement                                                             *)

\* Memory takes Cardinality from its own copy of FiniteSets.
LEMMA SameCardinality == \A S : Memory!Cardinality(S) = Cardinality(S)
  BY DEF Memory!Cardinality, Cardinality, Memory!IsFiniteSet, IsFiniteSet

\* An addition is remembered or refused.
LEMMA AddRefines ==
    ASSUME FilterInv, NEW k \in Keys, icaoFilterAdd(k)
    PROVE  FilterInv' /\ (Memory!Remember(k) \/ Memory!Refuse(k))
<1>1. CASE \E n \in Slots :
              /\ Reaches(Active, k, n)
              /\ Active[Probe(k, n)] \in {EMPTY, k}
              /\ icao_filter' = [icao_filter EXCEPT ![icao_filter_active] =
                                    [Active EXCEPT ![Probe(k, n)] = k]]
              /\ refused' = refused \ {k}
  <2>1. FilterInv' /\ Known' = Known \cup {k}
    BY <1>1, AddRemembers DEF icaoFilterAdd
  <2>2. QED BY <1>1, <2>1 DEF icaoFilterAdd, Memory!Remember
<1>2. CASE Reaches(Active, k, Size) /\ refused' = refused \cup {k} /\ icao_filter' = icao_filter
  <2>1. FilterInv' /\ Known' = Known /\ Cardinality(Known) >= Size
    BY <1>2, AddRefuses DEF icaoFilterAdd
  <2>2. QED BY <1>2, <2>1, SameCardinality DEF icaoFilterAdd, Memory!Refuse
<1>3. QED BY <1>1, <1>2 DEF icaoFilterAdd, Active

\* Every step of the filter is one of the memory, and keeps the invariant.
LEMMA StepRefines ==
    FilterInv /\ [FilterNext]_filterVars => FilterInv' /\ [Memory!MemoryNext]_(Memory!memoryVars)
<1> SUFFICES ASSUME FilterInv, [FilterNext]_filterVars
             PROVE  FilterInv' /\ [Memory!MemoryNext]_(Memory!memoryVars)
  OBVIOUS
<1>1. CASE \E k \in Keys : icaoFilterAdd(k)
  <2>1. PICK k \in Keys : icaoFilterAdd(k)
    BY <1>1
  <2>2. FilterInv' /\ (Memory!Remember(k) \/ Memory!Refuse(k))
    BY <2>1, AddRefines
  <2>3. QED BY <2>2 DEF Memory!MemoryNext
<1>2. CASE icaoFilterExpire
  <2>1. /\ FilterInv'
        /\ Known' \in SUBSET Known
        /\ \A k \in Known \ Known' : elapsed[k] >= TTL \/ k \in refused
    BY <1>2, FlipForgets
  <2>2. Memory!Forget
    BY <1>2, <2>1 DEF icaoFilterExpire, Memory!Forget
  <2>3. QED BY <2>1, <2>2 DEF Memory!MemoryNext
<1>3. CASE FilterTick
  <2>1. FilterInv' /\ Known' = Known /\ \A k \in Known : elapsed[k] < 2 * TTL
    BY <1>3, TickPasses
  <2>2. Memory!Pass
    BY <1>3, <2>1 DEF FilterTick, Memory!Pass, Forever, Memory!Forever
  <2>3. QED BY <2>1, <2>2 DEF Memory!MemoryNext
<1>4. CASE UNCHANGED filterVars
  <2>1. FilterInv'
    BY <1>4 DEF filterVars, FilterInv, FilterTypeOK, Chained, Reaches, NothingOld,
                NothingMissed, Active, Inactive, Holds
  <2>2. Known' = Known
    BY <1>4 DEF filterVars, Known, icaoFilterTest, Finds, Reaches
  <2>3. QED BY <1>4, <2>1, <2>2 DEF filterVars, Memory!memoryVars
<1>5. QED BY <1>1, <1>2, <1>3, <1>4 DEF FilterNext

\* Nothing is known before anything is added.
LEMMA InitRefines == FilterInit => Memory!MemoryInit
<1> SUFFICES ASSUME FilterInit PROVE Memory!MemoryInit
  OBVIOUS
<1>1. Known = {}
  <2>1. \A t \in Tables : icao_filter[t] = Cleared
    BY DEF FilterInit
  <2>2. ASSUME NEW t \in Tables, NEW k \in Keys PROVE ~Finds(icao_filter[t], k)
    <3>1. \A n \in Slots : Probe(k, n) \in Slots
      BY ProbeSlots
    <3>2. \A n \in Slots : Cleared[Probe(k, n)] # k
      BY <3>1, FilterAssumption DEF Cleared
    <3>3. QED BY <2>1, <3>2 DEF Finds
  <2>3. QED BY <2>2 DEF Known, icaoFilterTest
<1>2. QED BY <1>1 DEF FilterInit, Memory!MemoryInit, Forever, Memory!Forever

\* Whatever the hash function, the collisions and the moments of the flips, an address is
\* recognised at least TTL after it was added, never for more than twice as long, and
\* refused only when as many others are known as a table has slots (icao_filter.c as a whole).
THEOREM FilterImplementsMemory == FilterSpec => ImplementsAddressMemory
<1>1. FilterSpec => [](FilterInv)
  BY InitFilterInv, StepRefines, PTL DEF FilterSpec
<1>2. QED BY InitRefines, StepRefines, <1>1, PTL
          DEF FilterSpec, ImplementsAddressMemory, Memory!MemorySpec

-------------------------------------------------------------------------------
(* The filter inside Track                                                    *)

\* What Track does to the filter is what the filter does, or nothing.
LEMMA StepIsFilterStep == [Next]_vars => [FilterNext]_filterVars
<1> SUFFICES ASSUME [Next]_vars PROVE [FilterNext]_filterVars
  OBVIOUS
<1>1. ASSUME NEW m \in Received, Receive(m) PROVE [FilterNext]_filterVars
  <2>1. KeyOf(m) \in Keys
    BY TrackAssumption DEF KeyOf, Message
  <2>2. QED BY <1>1, <2>1 DEF Receive, FilterNext
<1>2. CASE backgroundTasks
  BY <1>2 DEF backgroundTasks, FilterNext
<1>3. CASE Tick
  BY <1>3 DEF Tick, FilterNext
<1>4. CASE UNCHANGED vars
  BY <1>4 DEF vars
<1>5. QED BY <1>1, <1>2, <1>3, <1>4 DEF Next

\* Decoding and tracking use the address filter as module IcaoFilter describes, so that
\* what it implements holds in the running program (mode_s.c and backgroundTasks).
THEOREM TrackImplementsMemory == Spec => ImplementsAddressMemory
<1>1. Init => FilterInit
  BY DEF Init
<1>2. Spec => FilterSpec
  BY <1>1, StepIsFilterStep, PTL DEF Spec, FilterSpec
<1>3. QED BY <1>2, FilterImplementsMemory, PTL

-------------------------------------------------------------------------------
(* Types                                                                      *)

\* One aircraft's record, with the data of each field.
AircraftOK(a) ==
    /\ a \in Aircraft
    /\ a.messages > 0
    /\ \A f \in Fields : a.data[f] \in DataValidity(f)

\* As TrackTypeOK, aircraft by aircraft.
AircraftsOK ==
    /\ aircrafts \in [Addr -> Aircraft \cup {NoAircraft}]
    /\ aircrafts[Junk] = NoAircraft
    /\ \A x \in Addr : aircrafts[x] # NoAircraft => AircraftOK(aircrafts[x])

\* The data of all fields.
Data == [Fields -> UNION {DataValidity(f) : f \in Fields}]

DataOK(data) == data \in Data /\ \A f \in Fields : data[f] \in DataValidity(f)

\* Ages and sources: what validity tests compare.
LEMMA DataRange ==
    ASSUME NEW data, DataOK(data), NEW f \in Fields
    PROVE  /\ data[f] = [source |-> data[f].source, age |-> data[f].age]
           /\ data[f].source \in Sources /\ data[f].age \in 0 .. ExpireInterval[f]
           /\ ExpireInterval[f] \in Nat \ {0} /\ StaleInterval[f] \in Nat \ {0}
  BY TrackAssumption DEF DataOK, DataValidity

\* Replacing the data of one field by data of that field.
LEMMA DataUpdate ==
    ASSUME NEW data, DataOK(data), NEW f \in Fields, NEW d \in DataValidity(f)
    PROVE  /\ DataOK([data EXCEPT ![f] = d])
           /\ [data EXCEPT ![f] = d][f] = d
           /\ \A g \in Fields \ {f} : [data EXCEPT ![f] = d][g] = data[g]
  BY DEF DataOK, Data

\* accept_data touches its field only, and leaves it with the message's source and age 0
\* or as it was.
LEMMA AcceptData ==
    ASSUME NEW data, DataOK(data), NEW f \in Fields, NEW source \in Sources
    PROVE  /\ DataOK(accept_data(data, f, source))
           /\ \A g \in Fields \ {f} : accept_data(data, f, source)[g] = data[g]
           /\ accept_data(data, f, source)[f] =
                IF Acceptable(data, f, source) THEN [source |-> source, age |-> 0] ELSE data[f]
<1>1. [source |-> source, age |-> 0] \in DataValidity(f)
  BY TrackAssumption DEF DataValidity
<1>2. QED BY <1>1, DataUpdate DEF accept_data

\* After a bad pair the position's data are invalid and the altitude's are untouched.
LEMMA InvalidateData ==
    ASSUME NEW data, DataOK(data)
    PROVE  /\ DataOK(Invalidate(data))
           /\ Invalidate(data)["position"].source = SOURCE_INVALID
           /\ Invalidate(data)["altitude_baro"] = data["altitude_baro"]
<1>1. \A f \in Fields : data[f] \in DataValidity(f)
  BY DEF DataOK
<1>2. \A f \in Fields : [data[f] EXCEPT !.source = SOURCE_INVALID] \in DataValidity(f)
  BY <1>1 DEF DataValidity, Sources, SOURCE_INVALID, SOURCE_ADSB
<1>3. \A f \in Fields : Invalidate(data)[f] \in DataValidity(f)
  BY <1>1, <1>2 DEF Invalidate
<1>4. DataOK(Invalidate(data))
  BY <1>3 DEF DataOK, Data, Invalidate
<1>5. Invalidate(data)["position"].source = SOURCE_INVALID
  BY <1>1 DEF Invalidate, Fields, DataValidity
<1>6. Invalidate(data)["altitude_baro"] = data["altitude_baro"]
  BY DEF Invalidate, Fields
<1>7. QED BY <1>4, <1>5, <1>6

-------------------------------------------------------------------------------
(* One aircraft                                                               *)

\* An aircraft's record, whether or not a message has been counted.
RecordOK(a) == a \in Aircraft /\ DataOK(a.data)

\* A valid position goes back to a global pair.
AnchoredOK(a) == Valid(a.data["position"], "position") => a.anchored

\* What becomes of an aircraft's record while a message is worked in.
Follows(a, b) ==
    /\ RecordOK(b)
    /\ b.messages = a.messages
    /\ AnchoredOK(a) => AnchoredOK(b)

\* updatePosition leaves a position anchored and the altitude alone.
LEMMA PositionUpdate ==
    ASSUME NEW a, RecordOK(a), NEW source \in Sources, NEW outcome
    PROVE  /\ Follows(a, updatePosition(a, source, outcome))
           /\ updatePosition(a, source, outcome).data["altitude_baro"] = a.data["altitude_baro"]
<1> DEFINE new == accept_data(a.data, "position", source)
           moved == [a EXCEPT !.data = new]
           anchored == [moved EXCEPT !.anchored = @ \/ Acceptable(a.data, "position", source)]
           bad == [a EXCEPT !.data = Invalidate(@), !.anchored = FALSE]
<1>1. a \in Aircraft /\ DataOK(a.data)
  BY DEF RecordOK
<1>2. /\ DataOK(new)
      /\ new["altitude_baro"] = a.data["altitude_baro"]
      /\ ~Acceptable(a.data, "position", source) => new["position"] = a.data["position"]
  <2>1. "position" \in Fields /\ "altitude_baro" \in Fields \ {"position"}
    BY DEF Fields
  <2>2. /\ DataOK(new)
        /\ \A g \in Fields \ {"position"} : new[g] = a.data[g]
        /\ new["position"] = IF Acceptable(a.data, "position", source)
                             THEN [source |-> source, age |-> 0] ELSE a.data["position"]
    BY <1>1, <2>1, AcceptData
  <2>3. QED BY <2>1, <2>2
<1> HIDE DEF new
<1>3. new \in Data
  BY <1>2 DEF DataOK
<1>4. /\ moved \in Aircraft /\ moved.data = new /\ moved.anchored = a.anchored
      /\ moved.messages = a.messages
  BY <1>1, <1>3 DEF Aircraft, Data
<1>5. Acceptable(a.data, "position", source) \in BOOLEAN
  BY DEF Acceptable
<1>6. /\ anchored \in Aircraft /\ anchored.data = new /\ anchored.messages = a.messages
      /\ anchored.anchored = (a.anchored \/ Acceptable(a.data, "position", source))
  <2>1. \A v \in BOOLEAN :
            /\ [moved EXCEPT !.anchored = v] \in Aircraft
            /\ [moved EXCEPT !.anchored = v].data = moved.data
            /\ [moved EXCEPT !.anchored = v].messages = moved.messages
            /\ [moved EXCEPT !.anchored = v].anchored = v
    BY <1>4 DEF Aircraft
  <2>2. (moved.anchored \/ Acceptable(a.data, "position", source)) \in BOOLEAN
    OBVIOUS
  <2>3. QED BY <2>1, <2>2, <1>4
<1>7. /\ bad \in Aircraft /\ bad.data = Invalidate(a.data) /\ bad.messages = a.messages
      /\ DataOK(Invalidate(a.data))
      /\ bad.data["position"].source = SOURCE_INVALID
      /\ bad.data["altitude_baro"] = a.data["altitude_baro"]
  <2>1. DataOK(Invalidate(a.data)) /\ Invalidate(a.data) \in Data
    BY <1>1, InvalidateData DEF DataOK
  <2>2. bad \in Aircraft /\ bad.data = Invalidate(a.data) /\ bad.messages = a.messages
    BY <1>1, <2>1 DEF Aircraft, Data
  <2>3. QED BY <1>1, <2>1, <2>2, InvalidateData
<1>8. Follows(a, bad)
  BY <1>7 DEF Follows, RecordOK, AnchoredOK, Valid
<1>9. Follows(a, anchored)
  BY <1>2, <1>6 DEF Follows, RecordOK, AnchoredOK, Valid
<1>10. ASSUME Valid(a.data["position"], "position") PROVE Follows(a, moved)
  BY <1>2, <1>4, <1>10 DEF Follows, RecordOK, AnchoredOK
<1>11. Follows(a, a)
  BY DEF Follows
<1>12. updatePosition(a, source, outcome) \in {bad, anchored, a}
       \/ (Valid(a.data["position"], "position") /\ updatePosition(a, source, outcome) = moved)
  BY DEF updatePosition, new
<1> HIDE DEF moved, anchored, bad
<1>13. QED BY <1>2, <1>4, <1>6, <1>7, <1>8, <1>9, <1>10, <1>11, <1>12

\* Of the messages without proof of their address, replies have a source of their own.
LEMMA MessageFacts ==
    ASSUME NEW m \in Message
    PROVE  /\ m.source \in Sources /\ m.addr \in Addr
           /\ m.source = SOURCE_MODE_S => m.df = 4
<1>1. m.addr \in Addr
  BY DEF Message
<1>2. \/ m.df = 4 /\ m.source = SOURCE_MODE_S
      \/ m.source \in {SOURCE_MODE_S_CHECKED, SOURCE_ADSB, SOURCE_MLAT}
  BY Zenon DEF Message
<1>3. QED BY <1>1, <1>2 DEF Sources, SOURCE_INVALID, SOURCE_MLAT, SOURCE_MODE_S,
                            SOURCE_MODE_S_CHECKED, SOURCE_ADSB

\* Counting a message changes no data.
LEMMA Counts ==
    ASSUME NEW a, RecordOK(a), NEW m \in Message
    PROVE  /\ RecordOK(Counted(a, m))
           /\ Counted(a, m).messages > 0
           /\ Counted(a, m).data = a.data
           /\ AnchoredOK(a) => AnchoredOK(Counted(a, m))
<1> DEFINE messages == CountTo(MinAny, a.messages, TRUE)
           df11 == CountTo(MinDF11, a.reliableDF11, m.df = 11 /\ Reliable(m))
           df17 == CountTo(MinDF17, a.reliableDF17, m.df = 17 /\ Reliable(m))
           reliable == a.reliable \/ df11 = MinDF11 \/ df17 = MinDF17 \/ messages = MinAny
<1>1. a \in Aircraft /\ DataOK(a.data)
  BY DEF RecordOK
<1>2. messages \in 0 .. MinAny /\ messages > 0
  BY <1>1, TrackAssumption DEF Aircraft, CountTo
<1>3. df11 \in 0 .. MinDF11 /\ df17 \in 0 .. MinDF17
  BY <1>1, TrackAssumption DEF Aircraft, CountTo
<1>4. reliable \in BOOLEAN /\ 0 \in 0 .. AircraftTTL + 1
  BY TrackAssumption DEF Aircraft
<1>5. Counted(a, m) = [a EXCEPT !.seen = 0, !.messages = messages, !.reliableDF11 = df11,
                                !.reliableDF17 = df17, !.reliable = reliable]
  BY DEF Counted
<1> HIDE DEF messages, df11, df17, reliable
<1>6. /\ Counted(a, m) \in Aircraft /\ Counted(a, m).messages = messages
      /\ Counted(a, m).data = a.data /\ Counted(a, m).anchored = a.anchored
  BY <1>1, <1>2, <1>3, <1>4, <1>5 DEF Aircraft
<1>7. QED BY <1>1, <1>2, <1>6 DEF RecordOK, AnchoredOK

\* The altitude is the message's or it is the old one.
LEMMA AltitudeTaken ==
    ASSUME NEW a, RecordOK(a), NEW m \in Message
    PROVE  /\ Follows(a, WithAltitude(a, m))
           /\ WithAltitude(a, m).data["altitude_baro"] \in
                {a.data["altitude_baro"], [source |-> m.source, age |-> 0]}
<1> DEFINE new == accept_data(a.data, "altitude_baro", m.source)
<1>1. a \in Aircraft /\ DataOK(a.data) /\ m.source \in Sources
  BY MessageFacts DEF RecordOK
<1>2. "altitude_baro" \in Fields /\ "position" \in Fields \ {"altitude_baro"}
  BY DEF Fields
<1>3. /\ DataOK(new)
      /\ \A g \in Fields \ {"altitude_baro"} : new[g] = a.data[g]
      /\ new["altitude_baro"] = IF Acceptable(a.data, "altitude_baro", m.source)
                                THEN [source |-> m.source, age |-> 0]
                                ELSE a.data["altitude_baro"]
  BY <1>1, <1>2, AcceptData
<1> HIDE DEF new
<1>4. /\ [a EXCEPT !.data = new] \in Aircraft /\ [a EXCEPT !.data = new].data = new
      /\ [a EXCEPT !.data = new].messages = a.messages
      /\ [a EXCEPT !.data = new].anchored = a.anchored
  BY <1>1, <1>3 DEF Aircraft, DataOK, Data
<1>5. WithAltitude(a, m) \in {a, [a EXCEPT !.data = new]}
  BY DEF WithAltitude, new
<1>6. QED BY <1>1, <1>2, <1>3, <1>4, <1>5 DEF Follows, RecordOK, AnchoredOK

\* A CPR frame changes what is known of the position only.
LEMMA FrameTaken ==
    ASSUME NEW a, RecordOK(a), NEW m \in Message, NEW outcome
    PROVE  /\ Follows(a, WithCpr(a, m, outcome))
           /\ WithCpr(a, m, outcome).data["altitude_baro"] = a.data["altitude_baro"]
<1> DEFINE f == IF m.cpr = "odd" THEN "cpr_odd" ELSE "cpr_even"
           new == accept_data(a.data, f, m.source)
           framed == [a EXCEPT !.data = new]
<1>1. a \in Aircraft /\ DataOK(a.data) /\ m.source \in Sources
  BY MessageFacts DEF RecordOK
<1>2. f \in Fields /\ {"position", "altitude_baro"} \subseteq Fields \ {f}
  BY DEF Fields
<1> HIDE DEF f
<1>3. DataOK(new) /\ \A g \in Fields \ {f} : new[g] = a.data[g]
  BY <1>1, <1>2, AcceptData
<1> HIDE DEF new
<1>4. /\ framed \in Aircraft /\ framed.data = new /\ framed.messages = a.messages
      /\ framed.anchored = a.anchored
  BY <1>1, <1>3 DEF Aircraft, DataOK, Data
<1>5. Follows(a, framed) /\ framed.data["altitude_baro"] = a.data["altitude_baro"]
  BY <1>2, <1>3, <1>4 DEF Follows, RecordOK, AnchoredOK
<1> HIDE DEF framed
<1>6. /\ Follows(framed, updatePosition(framed, m.source, outcome))
      /\ updatePosition(framed, m.source, outcome).data["altitude_baro"]
           = framed.data["altitude_baro"]
  BY <1>1, <1>5, PositionUpdate DEF Follows
<1>7. WithCpr(a, m, outcome) \in {a, updatePosition(framed, m.source, outcome)}
  BY DEF WithCpr, f, new, framed
<1>8. QED BY <1>5, <1>6, <1>7 DEF Follows

\* A message as a whole: the record stays well formed and its position anchored, and the
\* altitude is the message's or the old one.
LEMMA MessageTaken ==
    ASSUME NEW a, RecordOK(a), NEW m \in Message, NEW outcome
    PROVE  /\ AircraftOK(Updated(a, m, outcome))
           /\ AnchoredOK(a) => AnchoredOK(Updated(a, m, outcome))
           /\ Updated(a, m, outcome).data["altitude_baro"] \in
                {a.data["altitude_baro"], [source |-> m.source, age |-> 0]}
<1> DEFINE b == Counted(a, m)
           c == WithAltitude(b, m)
           d == WithCpr(c, m, outcome)
<1>1. RecordOK(b) /\ b.messages > 0 /\ b.data = a.data /\ (AnchoredOK(a) => AnchoredOK(b))
  BY Counts
<1> HIDE DEF b
<1>2. /\ Follows(b, c)
      /\ c.data["altitude_baro"] \in {b.data["altitude_baro"], [source |-> m.source, age |-> 0]}
  BY <1>1, AltitudeTaken
<1> HIDE DEF c
<1>3. Follows(c, d) /\ d.data["altitude_baro"] = c.data["altitude_baro"]
  BY <1>2, FrameTaken DEF Follows
<1> HIDE DEF d
<1>4. Updated(a, m, outcome) \in {b, d}
  BY DEF Updated, b, c, d
<1>5. QED BY <1>1, <1>2, <1>3, <1>4 DEF Follows, RecordOK, AircraftOK, DataOK

-------------------------------------------------------------------------------
(* The invariant                                                              *)

\* An altitude taken from a reply in this tick was taken for a vouched address.
ParityRemembered ==
    \A x \in Addr :
        aircrafts[x] # NoAircraft
          /\ aircrafts[x].data["altitude_baro"] = [source |-> SOURCE_MODE_S, age |-> 0]
        => elapsed[<<x, "icao">>] <= 2 * TTL

TrackInv ==
    /\ FilterInv
    /\ AircraftsOK
    /\ PositionAnchored
    /\ ParityRemembered

\* What is known has been vouched for within two filter periods.
LEMMA KnownAge ==
    ASSUME FilterInv, NEW k \in Keys, icaoFilterTest(k)
    PROVE  elapsed[k] <= 2 * TTL
<1>1. Holds(Active, k) \/ Holds(Inactive, k)
  BY InvKnownIsHeld DEF KnownIsHeld, Known
<1>2. next_flip \in 0 .. TTL /\ elapsed[k] \in 0 .. Forever
  BY DEF FilterInv, FilterTypeOK
<1>3. TTL \in Nat
  BY FilterAssumption
<1>4. QED BY <1>1, <1>2, <1>3 DEF FilterInv, NothingOld, Forever

\* No aircraft in the beginning.
LEMMA InitTrackInv == Init => TrackInv
<1> SUFFICES ASSUME Init PROVE TrackInv
  OBVIOUS
<1>1. FilterInv
  BY InitFilterInv DEF Init
<1>2. \A x \in Addr : aircrafts[x] = NoAircraft
  BY DEF Init
<1>3. AircraftsOK
  BY <1>2, TrackAssumption DEF Init, AircraftsOK
<1>4. QED BY <1>1, <1>2, <1>3 DEF TrackInv, PositionAnchored, ParityRemembered

\* A record that is created for a message.
LEMMA Created == RecordOK(trackCreateAircraft) /\ AnchoredOK(trackCreateAircraft)
<1> DEFINE data == [f \in Fields |-> [source |-> SOURCE_INVALID, age |-> ExpireInterval[f]]]
<1>1. DataOK(data)
  <2>1. \A f \in Fields : data[f] \in DataValidity(f)
    BY TrackAssumption DEF DataValidity, Sources, SOURCE_INVALID, SOURCE_ADSB
  <2>2. QED BY <2>1 DEF DataOK, Data
<1>2. trackCreateAircraft.data = data
  BY DEF trackCreateAircraft
<1>3. trackCreateAircraft \in Aircraft
  BY <1>1, TrackAssumption DEF trackCreateAircraft, Aircraft, DataOK, Data
<1>4. ~Valid(data["position"], "position")
  BY DEF Valid, Fields
<1>5. QED BY <1>1, <1>2, <1>3, <1>4 DEF RecordOK, AnchoredOK

\* What a message changes: at most its sender's record, which takes its altitude only from
\* a message that passed the plausibility test.
LEMMA ReceiveEffect ==
    ASSUME TrackInv, NEW m \in Received, Receive(m)
    PROVE  /\ AircraftsOK'
           /\ PositionAnchored'
           /\ \A x \in Addr :
                aircrafts'[x] # NoAircraft
                  /\ aircrafts'[x].data["altitude_baro"] = [source |-> SOURCE_MODE_S, age |-> 0]
                => elapsed[<<x, "icao">>] <= 2 * TTL
<1>1. m \in Message /\ m.addr \in Addr
  BY TrackAssumption, MessageFacts
<1>2. PICK outcome : trackUpdateFromMessage(m, outcome)
  BY DEF Receive
<1>3. /\ aircrafts \in [Addr -> Aircraft \cup {NoAircraft}]
      /\ aircrafts[Junk] = NoAircraft
      /\ \A x \in Addr : aircrafts[x] # NoAircraft => AircraftOK(aircrafts[x])
  BY DEF TrackInv, AircraftsOK
<1>4. CASE m.addr = Junk
  <2>1. aircrafts' = aircrafts
    BY <1>2, <1>4 DEF trackUpdateFromMessage
  <2>2. QED BY <2>1 DEF TrackInv, AircraftsOK, PositionAnchored, ParityRemembered
<1>5. CASE m.addr # Junk
  <2> DEFINE old == IF aircrafts[m.addr] = NoAircraft THEN trackCreateAircraft
                    ELSE aircrafts[m.addr]
             new == Updated(old, m, outcome)
  <2>1. aircrafts' = [aircrafts EXCEPT ![m.addr] = new]
    BY <1>2, <1>5 DEF trackUpdateFromMessage
  <2>2. RecordOK(old) /\ AnchoredOK(old)
    BY <1>1, <1>3, Created
       DEF RecordOK, AircraftOK, AnchoredOK, TrackInv, PositionAnchored, DataOK, Aircraft, Data
  <2>3. /\ AircraftOK(new) /\ AnchoredOK(new)
        /\ new.data["altitude_baro"] \in
             {old.data["altitude_baro"], [source |-> m.source, age |-> 0]}
    BY <1>1, <2>2, MessageTaken
  <2>4. aircrafts[m.addr] = NoAircraft
          => old.data["altitude_baro"] # [source |-> SOURCE_MODE_S, age |-> 0]
    BY DEF trackCreateAircraft, Fields, SOURCE_MODE_S, SOURCE_INVALID
  <2> HIDE DEF new
  <2>5. /\ aircrafts'[m.addr] = new
        /\ \A x \in Addr : x # m.addr => aircrafts'[x] = aircrafts[x]
    BY <1>1, <1>3, <2>1
  <2>6. AircraftsOK'
    BY <1>3, <1>5, <2>1, <2>3, <2>5, TrackAssumption DEF AircraftsOK, AircraftOK
  <2>7. PositionAnchored'
    BY <2>3, <2>5 DEF TrackInv, PositionAnchored, AnchoredOK
  <2>8. ASSUME NEW x \in Addr, aircrafts'[x] # NoAircraft,
               aircrafts'[x].data["altitude_baro"] = [source |-> SOURCE_MODE_S, age |-> 0]
        PROVE  elapsed[<<x, "icao">>] <= 2 * TTL
    <3>1. CASE x # m.addr
      BY <2>5, <2>8, <3>1 DEF TrackInv, ParityRemembered
    <3>2. CASE x = m.addr /\ new.data["altitude_baro"] = old.data["altitude_baro"]
      BY <2>4, <2>5, <2>8, <3>2 DEF TrackInv, ParityRemembered
    <3>3. CASE x = m.addr /\ new.data["altitude_baro"] = [source |-> m.source, age |-> 0]
      <4>1. m.source = SOURCE_MODE_S
        BY <2>5, <2>8, <3>3
      <4>2. m.df = 4
        BY <1>1, <4>1, MessageFacts
      <4>3. KeyOf(m) = <<x, "icao">> /\ KeyOf(m) \in Keys
        BY <4>2, <3>3, TrackAssumption DEF KeyOf
      <4>4. icaoFilterTest(KeyOf(m))
        BY <4>2 DEF Receive, scoreModesMessage
      <4>5. QED BY <4>3, <4>4, KnownAge DEF TrackInv
    <3>4. QED BY <2>3, <3>1, <3>2, <3>3
  <2>9. QED BY <2>6, <2>7, <2>8
<1>6. QED BY <1>4, <1>5

\* Removing and expiring: no data become younger, none become valid.
LEMMA ExpireEffect ==
    ASSUME TrackInv, trackRemoveStaleAircraft
    PROVE  /\ AircraftsOK'
           /\ PositionAnchored'
           /\ \A x \in Addr :
                aircrafts'[x] # NoAircraft
                  /\ aircrafts'[x].data["altitude_baro"] = [source |-> SOURCE_MODE_S, age |-> 0]
                => elapsed[<<x, "icao">>] <= 2 * TTL
<1>1. \A x \in Addr : aircrafts'[x] = NoAircraft
                      \/ (aircrafts[x] # NoAircraft /\ aircrafts'[x] = Expired(aircrafts[x]))
  BY DEF trackRemoveStaleAircraft
<1>2. ASSUME NEW a, AircraftOK(a)
      PROVE  /\ AircraftOK(Expired(a))
             /\ AnchoredOK(a) => AnchoredOK(Expired(a))
             /\ Expired(a).data["altitude_baro"] = [source |-> SOURCE_MODE_S, age |-> 0]
                  => a.data["altitude_baro"] = [source |-> SOURCE_MODE_S, age |-> 0]
  <2> DEFINE data == [f \in Fields |->
                        IF a.data[f].age >= ExpireInterval[f]
                        THEN [a.data[f] EXCEPT !.source = SOURCE_INVALID] ELSE a.data[f]]
  <2>1. \A f \in Fields : a.data[f] \in DataValidity(f)
    BY <1>2 DEF AircraftOK
  <2>2. \A f \in Fields :
            /\ [a.data[f] EXCEPT !.source = SOURCE_INVALID] \in DataValidity(f)
            /\ [a.data[f] EXCEPT !.source = SOURCE_INVALID].source = SOURCE_INVALID
    BY <2>1 DEF DataValidity, Sources, SOURCE_INVALID, SOURCE_ADSB
  <2>3. \A f \in Fields :
            /\ data[f] \in DataValidity(f)
            /\ data[f] = a.data[f] \/ data[f].source = SOURCE_INVALID
    BY <2>1, <2>2
  <2>4. data \in Data
    BY <2>3 DEF Data
  <2>5. Expired(a) = [a EXCEPT !.data = data]
    BY DEF Expired
  <2> HIDE DEF data
  <2>6. /\ Expired(a) \in Aircraft /\ Expired(a).data = data
        /\ Expired(a).messages = a.messages /\ Expired(a).anchored = a.anchored
    BY <1>2, <2>4, <2>5 DEF AircraftOK, Aircraft, Data
  <2>7. AircraftOK(Expired(a))
    BY <1>2, <2>3, <2>6 DEF AircraftOK
  <2>8. data["position"] = a.data["position"] \/ data["position"].source = SOURCE_INVALID
    BY <2>3 DEF Fields
  <2>9. data["altitude_baro"] = a.data["altitude_baro"]
        \/ data["altitude_baro"].source = SOURCE_INVALID
    BY <2>3 DEF Fields
  <2>10. QED BY <2>6, <2>7, <2>8, <2>9 DEF AnchoredOK, Valid, SOURCE_INVALID, SOURCE_MODE_S
<1>3. \A x \in Addr : aircrafts[x] # NoAircraft
        => AircraftOK(aircrafts[x]) /\ AnchoredOK(aircrafts[x])
  BY DEF TrackInv, AircraftsOK, PositionAnchored, AnchoredOK
<1>4. AircraftsOK'
  <2>1. \A x \in Addr : aircrafts'[x] # NoAircraft => AircraftOK(aircrafts'[x])
    BY <1>1, <1>2, <1>3
  <2>2. aircrafts' \in [Addr -> Aircraft \cup {NoAircraft}]
    BY <2>1 DEF trackRemoveStaleAircraft, AircraftOK
  <2>3. aircrafts'[Junk] = NoAircraft
    BY <1>1, TrackAssumption DEF TrackInv, AircraftsOK
  <2>4. QED BY <2>1, <2>2, <2>3 DEF AircraftsOK, AircraftOK
<1>5. PositionAnchored'
  BY <1>1, <1>2, <1>3 DEF PositionAnchored, AnchoredOK
<1>6. QED BY <1>1, <1>2, <1>3, <1>4, <1>5 DEF TrackInv, ParityRemembered

\* Time: every age grows or has reached its end.
LEMMA TickEffect ==
    ASSUME TrackInv, Tick
    PROVE  /\ AircraftsOK'
           /\ PositionAnchored'
           /\ \A x \in Addr : aircrafts'[x] # NoAircraft =>
                aircrafts'[x].data["altitude_baro"] # [source |-> SOURCE_MODE_S, age |-> 0]
<1>1. \A x \in Addr : aircrafts'[x] = NoAircraft
                      \/ (aircrafts[x] # NoAircraft /\ aircrafts'[x] = Older(aircrafts[x]))
  BY DEF Tick
<1>2. ASSUME NEW a, AircraftOK(a)
      PROVE  /\ AircraftOK(Older(a))
             /\ AnchoredOK(a) => AnchoredOK(Older(a))
             /\ Older(a).data["altitude_baro"] # [source |-> SOURCE_MODE_S, age |-> 0]
  <2> DEFINE data == [f \in Fields |-> [a.data[f] EXCEPT
                        !.age = IF @ < ExpireInterval[f] THEN @ + 1 ELSE @]]
             seen == IF a.seen <= AircraftTTL THEN a.seen + 1 ELSE a.seen
             anchored == a.anchored /\ data["position"].age < ExpireInterval["position"]
  <2>1. \A f \in Fields : a.data[f] \in DataValidity(f) /\ ExpireInterval[f] \in Nat \ {0}
    BY <1>2, TrackAssumption DEF AircraftOK
  <2>2. \A f \in Fields :
            /\ data[f] \in DataValidity(f)
            /\ data[f].source = a.data[f].source
            /\ data[f].age > 0
            /\ data[f].age < ExpireInterval[f] => a.data[f].age < ExpireInterval[f]
    BY <2>1 DEF DataValidity
  <2>3. data \in Data
    BY <2>2 DEF Data
  <2>4. seen \in 0 .. AircraftTTL + 1
    BY <1>2, TrackAssumption DEF AircraftOK, Aircraft
  <2>5. Older(a) = [a EXCEPT !.seen = seen, !.data = data, !.anchored = anchored]
    BY DEF Older
  <2>6. anchored \in BOOLEAN
    OBVIOUS
  <2>7. anchored = (a.anchored /\ data["position"].age < ExpireInterval["position"])
    OBVIOUS
  <2> HIDE DEF data, seen, anchored
  <2>8. /\ Older(a) \in Aircraft /\ Older(a).data = data
        /\ Older(a).messages = a.messages /\ Older(a).anchored = anchored
    BY <1>2, <2>3, <2>4, <2>5, <2>6 DEF AircraftOK, Aircraft, Data
  <2>9. AircraftOK(Older(a))
    BY <1>2, <2>2, <2>8 DEF AircraftOK
  <2>10. "position" \in Fields /\ "altitude_baro" \in Fields
    BY DEF Fields
  <2>11. AnchoredOK(a) => AnchoredOK(Older(a))
    BY <2>2, <2>7, <2>8, <2>10 DEF AnchoredOK, Valid
  <2>12. Older(a).data["altitude_baro"] # [source |-> SOURCE_MODE_S, age |-> 0]
    BY <2>2, <2>8, <2>10
  <2>13. QED BY <2>9, <2>11, <2>12
<1>3. \A x \in Addr : aircrafts[x] # NoAircraft
        => AircraftOK(aircrafts[x]) /\ AnchoredOK(aircrafts[x])
  BY DEF TrackInv, AircraftsOK, PositionAnchored, AnchoredOK
<1>4. AircraftsOK'
  <2>1. \A x \in Addr : aircrafts'[x] # NoAircraft => AircraftOK(aircrafts'[x])
    BY <1>1, <1>2, <1>3
  <2>2. aircrafts' \in [Addr -> Aircraft \cup {NoAircraft}]
    BY <2>1 DEF Tick, AircraftOK
  <2>3. aircrafts'[Junk] = NoAircraft
    BY <1>1, TrackAssumption DEF TrackInv, AircraftsOK
  <2>4. QED BY <2>1, <2>2, <2>3 DEF AircraftsOK, AircraftOK
<1>5. PositionAnchored'
  BY <1>1, <1>2, <1>3 DEF PositionAnchored, AnchoredOK
<1>6. QED BY <1>1, <1>2, <1>3, <1>4, <1>5

\* The filter's elapsed times only fall, except when time passes.
LEMMA ElapsedFalls ==
    ASSUME FilterInv, [FilterNext]_filterVars, ~FilterTick, NEW k \in Keys, elapsed[k] <= 2 * TTL
    PROVE  elapsed'[k] <= 2 * TTL
<1>1. elapsed \in [Keys -> 0 .. Forever] /\ TTL \in Nat
  BY FilterAssumption DEF FilterInv, FilterTypeOK
<1>2. ASSUME NEW j \in Keys, icaoFilterAdd(j) PROVE elapsed'[k] <= 2 * TTL
  BY <1>1, <1>2 DEF icaoFilterAdd
<1>3. QED BY <1>2 DEF FilterNext, filterVars, icaoFilterExpire

\* What a step does to the aircraft's records, whichever it is.
LEMMA StepEffect ==
    ASSUME TrackInv, [Next]_vars
    PROVE  /\ AircraftsOK'
           /\ PositionAnchored'
           /\ \A x \in Addr :
                aircrafts'[x] # NoAircraft
                  /\ aircrafts'[x].data["altitude_baro"] = [source |-> SOURCE_MODE_S, age |-> 0]
                => elapsed[<<x, "icao">>] <= 2 * TTL /\ ~FilterTick
<1> DEFINE Fine ==
        \A x \in Addr :
            aircrafts'[x] # NoAircraft
              /\ aircrafts'[x].data["altitude_baro"] = [source |-> SOURCE_MODE_S, age |-> 0]
            => elapsed[<<x, "icao">>] <= 2 * TTL
<1>1. ASSUME NEW m \in Received, Receive(m) PROVE AircraftsOK' /\ PositionAnchored' /\ Fine
  BY <1>1, ReceiveEffect
<1>2. ASSUME backgroundTasks PROVE AircraftsOK' /\ PositionAnchored' /\ Fine
  BY <1>2, ExpireEffect DEF backgroundTasks
<1>3. ASSUME Tick PROVE AircraftsOK' /\ PositionAnchored' /\ Fine
  BY <1>3, TickEffect
<1>4. ASSUME UNCHANGED vars PROVE AircraftsOK' /\ PositionAnchored' /\ Fine
  BY <1>4 DEF vars, TrackInv, AircraftsOK, PositionAnchored, ParityRemembered
<1>5. AircraftsOK' /\ PositionAnchored' /\ Fine
  BY <1>1, <1>2, <1>3, <1>4 DEF Next
<1>6. ~Tick => ~FilterTick
  <2>1. next_flip \in Nat
    BY FilterAssumption DEF TrackInv, FilterInv, FilterTypeOK
  <2>2. ASSUME NEW m \in Received, Receive(m) PROVE next_flip' = next_flip
    BY <2>2 DEF Receive, icaoFilterAdd, filterVars
  <2>3. ASSUME backgroundTasks PROVE next_flip' = next_flip \/ next_flip = 0
    BY <2>3 DEF backgroundTasks, filterVars
  <2>4. ASSUME UNCHANGED vars PROVE next_flip' = next_flip
    BY <2>4 DEF vars, filterVars
  <2>5. FilterTick => next_flip > 0 /\ next_flip' # next_flip
    BY <2>1 DEF FilterTick
  <2>6. QED BY <2>1, <2>2, <2>3, <2>4, <2>5 DEF Next
<1>7. QED BY <1>3, <1>5, <1>6, TickEffect

\* Every step keeps the invariant.
LEMMA StepKeepsTrackInv == TrackInv /\ [Next]_vars => TrackInv'
<1> SUFFICES ASSUME TrackInv, [Next]_vars PROVE TrackInv'
  OBVIOUS
<1>1. [FilterNext]_filterVars
  BY StepIsFilterStep
<1>2. FilterInv /\ FilterInv'
  BY <1>1, StepRefines DEF TrackInv
<1>3. ParityRemembered'
  <2>1. SUFFICES ASSUME NEW x \in Addr, aircrafts'[x] # NoAircraft,
                        aircrafts'[x].data["altitude_baro"]
                            = [source |-> SOURCE_MODE_S, age |-> 0]
                 PROVE  elapsed'[<<x, "icao">>] <= 2 * TTL
    BY DEF ParityRemembered
  <2>2. elapsed[<<x, "icao">>] <= 2 * TTL /\ ~FilterTick
    BY <2>1, StepEffect
  <2>3. <<x, "icao">> \in Keys
    BY TrackAssumption
  <2>4. QED BY <1>1, <1>2, <2>2, <2>3, ElapsedFalls
<1>4. QED BY <1>2, <1>3, StepEffect DEF TrackInv

-------------------------------------------------------------------------------
(* The theorems                                                               *)

\* The invariant holds throughout.
THEOREM TrackInvariant == Spec => []TrackInv
  BY InitTrackInv, StepKeepsTrackInv, PTL DEF Spec

\* Filter and aircraft keep their types; in particular address 0 is never tracked
\* ("junk address", trackUpdateFromMessage).
THEOREM TrackTypesCorrect == Spec => []TrackTypeOK
<1>1. TrackInv => TrackTypeOK
  <2> SUFFICES ASSUME TrackInv, NEW x \in Addr, aircrafts[x] # NoAircraft
               PROVE  /\ aircrafts[x].messages > 0
                      /\ \A f \in Fields : aircrafts[x].data[f].age <= ExpireInterval[f]
    BY DEF TrackInv, FilterInv, AircraftsOK, TrackTypeOK
  <2>1. AircraftOK(aircrafts[x])
    BY DEF TrackInv, AircraftsOK
  <2>2. ASSUME NEW f \in Fields PROVE aircrafts[x].data[f].age <= ExpireInterval[f]
    <3>1. aircrafts[x].data[f].age \in 0 .. ExpireInterval[f] /\ ExpireInterval[f] \in Nat
      BY <2>1, TrackAssumption DEF AircraftOK, DataValidity
    <3>2. QED BY <3>1
  <2>3. QED BY <2>1, <2>2 DEF AircraftOK
<1>2. QED BY <1>1, TrackInvariant, PTL

\* A position that counts as valid goes back, without a gap in which it expired or was put
\* in doubt, to a global CPR pair or the receiver's own location (updatePosition).
THEOREM PositionsAnchored == Spec => []PositionAnchored
<1>1. TrackInv => PositionAnchored
  BY DEF TrackInv
<1>2. QED BY <1>1, TrackInvariant, PTL

\* An altitude from a reply whose address is only implied is taken for an address announced
\* under a correct checksum at most two filter periods before (scoreModesMessage).
THEOREM RepliesVouched == Spec => AddressParityVouched
<1>1. TrackInv /\ [Next]_vars =>
        [\A a \in Addr :
            aircrafts'[a] # NoAircraft /\ aircrafts'[a] # aircrafts[a]
              /\ aircrafts'[a].data["altitude_baro"] = [source |-> SOURCE_MODE_S, age |-> 0]
            => elapsed[<<a, "icao">>] <= 2 * TTL]_vars
  BY StepEffect
<1>2. QED BY <1>1, TrackInvariant, PTL DEF Spec, AddressParityVouched

===============================================================================
