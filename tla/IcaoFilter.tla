------------------------------ MODULE IcaoFilter ------------------------------
(***************************************************************************)
(* icao_filter.c: which addresses were heard recently.  Two hash tables    *)
(* with linear probing; addresses are added to the active one and looked   *)
(* up in both; once per TTL the other one is cleared and made active.      *)
(*                                                                         *)
(* Time is counted in ticks and next_flip holds the ticks left until it.   *)
(***************************************************************************)
EXTENDS Naturals

CONSTANTS
    Keys,    \* addresses, and addresses | ICAO_FILTER_ADSB_NT
    EMPTY,
    Size,    \* ICAO_FILTER_SIZE
    hash,    \* icaoHash, any function to the slots
    TTL      \* MODES_ICAO_FILTER_TTL, in ticks

ASSUME FilterAssumption ==
    /\ EMPTY \notin Keys
    /\ Size \in Nat \ {0}
    /\ hash \in [Keys -> 0 .. Size - 1]
    /\ TTL \in Nat \ {0}

VARIABLES
    icao_filter,          \* "a" and "b": icao_filter_a and icao_filter_b
    icao_filter_active,
    next_flip,
    elapsed,              \* history: ticks since an address was added last, up to Forever
    refused               \* history: the addresses the last addition of which found no room

filterVars == <<icao_filter, icao_filter_active, next_flip, elapsed, refused>>

Slots == 0 .. Size - 1
Tables == {"a", "b"}
Other(t) == IF t = "a" THEN "b" ELSE "a"
Cleared == [s \in Slots |-> EMPTY]
Forever == 2 * TTL + 1

FilterTypeOK ==
    /\ icao_filter \in [Tables -> [Slots -> Keys \cup {EMPTY}]]
    /\ icao_filter_active \in Tables
    /\ next_flip \in 0 .. TTL
    /\ elapsed \in [Keys -> 0 .. Forever]
    /\ refused \subseteq Keys

FilterInit ==
    /\ icao_filter = [t \in Tables |-> Cleared]
    /\ icao_filter_active = "a"
    /\ next_flip = 0
    /\ elapsed = [k \in Keys |-> Forever]
    /\ refused = {}

\* The slot looked at after n others when looking for k: (icaoHash(k) + n) & (SIZE-1).
Probe(k, n) == IF hash[k] + n < Size THEN hash[k] + n ELSE hash[k] + n - Size

\* The search for k in the table comes to its n-th slot without having stopped.
Reaches(table, k, n) == \A m \in 0 .. n - 1 : table[Probe(k, m)] \notin {EMPTY, k}

\* The search for k stops at a slot that holds it.
Finds(table, k) ==
    \E n \in Slots : Reaches(table, k, n) /\ table[Probe(k, n)] = k

icaoFilterTest(k) == \E t \in Tables : Finds(icao_filter[t], k)

icaoFilterAdd(k) ==
    LET table == icao_filter[icao_filter_active] IN
    /\ \/ \E n \in Slots :
             /\ Reaches(table, k, n)
             /\ table[Probe(k, n)] \in {EMPTY, k}
             /\ icao_filter' = [icao_filter EXCEPT ![icao_filter_active] =
                                   [table EXCEPT ![Probe(k, n)] = k]]
             /\ refused' = refused \ {k}
       \/ \* "ICAO hash table full"
          /\ Reaches(table, k, Size)
          /\ refused' = refused \cup {k}
          /\ UNCHANGED icao_filter
    /\ elapsed' = [elapsed EXCEPT ![k] = 0]
    /\ UNCHANGED <<icao_filter_active, next_flip>>

\* Clearing the table that was active until now.
FlipToFull ==
    LET t == Other(icao_filter_active) IN
    /\ next_flip = 0
    /\ icao_filter' = [icao_filter EXCEPT ![icao_filter_active] = Cleared]
    /\ icao_filter_active' = t
    /\ next_flip' = TTL
    /\ UNCHANGED <<elapsed, refused>>

\* The other table is cleared and becomes the active one.
icaoFilterExpire ==
    LET t == Other(icao_filter_active) IN
    /\ next_flip = 0
    /\ icao_filter' = [icao_filter EXCEPT ![t] = Cleared]
    /\ icao_filter_active' = t
    /\ next_flip' = TTL
    /\ UNCHANGED <<elapsed, refused>>

\* mstime() moves on.  backgroundTasks, which calls icaoFilterExpire, runs many times
\* in a tick, so a flip that is due is not missed.
FilterTick ==
    /\ next_flip > 0
    /\ next_flip' = next_flip - 1
    /\ elapsed' = [k \in Keys |-> IF elapsed[k] < Forever THEN elapsed[k] + 1 ELSE Forever]
    /\ UNCHANGED <<icao_filter, icao_filter_active, refused>>

FilterNext ==
    \/ \E k \in Keys : icaoFilterAdd(k)
    \/ icaoFilterExpire
    \/ FilterTick

FilterSpec == FilterInit /\ [][FilterNext]_filterVars

-------------------------------------------------------------------------------
(* Properties                                                                 *)

\* Hashing and generations are invisible: an address added less than TTL ago is
\* recognised whatever flips and collisions happened since, one not added for twice
\* that time is not, and an address is turned away only when there are as many known
\* ones as a table has slots.
Known == {k \in Keys : icaoFilterTest(k)}

Memory == INSTANCE AddressMemory WITH known <- Known, Capacity <- Size

ImplementsAddressMemory == Memory!MemorySpec
===============================================================================
