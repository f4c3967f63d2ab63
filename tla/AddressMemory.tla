----------------------------- MODULE AddressMemory -----------------------------
(***************************************************************************)
(* What the decoder needs of the ICAO address filter, without hash tables: *)
(* an address that was vouched for less than TTL ago is recognised (unless *)
(* there was no room for it), one nobody vouched for in twice that time is *)
(* not, and no other address ever is.  Module IcaoFilter implements it.    *)
(***************************************************************************)
EXTENDS Naturals, FiniteSets

CONSTANTS
    Keys,      \* addresses, and addresses marked as non-transponder devices
    TTL,       \* how long an address must be remembered, in ticks
    Capacity   \* how many addresses there is room for

VARIABLES
    known,     \* the recognised addresses
    elapsed,   \* address -> ticks since it was vouched for, up to Forever
    refused    \* addresses for which there was no room when they were vouched for last

memoryVars == <<known, elapsed, refused>>

Forever == 2 * TTL + 1

MemoryInit ==
    /\ known = {}
    /\ elapsed = [k \in Keys |-> Forever]
    /\ refused = {}

\* An address is vouched for and remembered.
Remember(k) ==
    /\ elapsed' = [elapsed EXCEPT ![k] = 0]
    /\ refused' = refused \ {k}
    /\ known' = known \cup {k}

\* An address is vouched for, but as many as there is room for are known already.
Refuse(k) ==
    /\ elapsed' = [elapsed EXCEPT ![k] = 0]
    /\ refused' = refused \cup {k}
    /\ Cardinality(known) >= Capacity
    /\ UNCHANGED known

\* Only addresses nobody vouched for lately are forgotten.
Forget ==
    /\ UNCHANGED <<elapsed, refused>>
    /\ known' \in SUBSET known
    /\ \A k \in known \ known' : elapsed[k] >= TTL \/ k \in refused

\* Time passes; what is too old has been forgotten before.
Pass ==
    /\ elapsed' = [k \in Keys |-> IF elapsed[k] < Forever THEN elapsed[k] + 1 ELSE Forever]
    /\ \A k \in known : elapsed[k] < 2 * TTL
    /\ UNCHANGED <<known, refused>>

MemoryNext ==
    \/ \E k \in Keys : Remember(k) \/ Refuse(k)
    \/ Forget
    \/ Pass

MemorySpec == MemoryInit /\ [][MemoryNext]_memoryVars

===============================================================================
