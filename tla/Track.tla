-------------------------------- MODULE Track --------------------------------
(***************************************************************************)
(* From received Mode S messages to tracked aircraft: the plausibility     *)
(* test of mode_s.c, which asks the address filter (module IcaoFilter) and *)
(* feeds it, and track.c, which keeps for every aircraft how much it is    *)
(* trusted and for every field which source it came from and how old it is.*)
(* One thread runs all of it: messages, from the receiver or the network,  *)
(* and between them the background tasks.                                  *)
(*                                                                         *)
(* Of the forty fields, which all go through accept_data, there are four:  *)
(* altitude_baro, which every kind of source delivers, and the two CPR     *)
(* frames and the position computed from them.  A field's content is left  *)
(* out; whether a CPR computation succeeds is left open.                   *)
(***************************************************************************)
EXTENDS IcaoFilter

CONSTANTS
    Addr,           \* 24 bit addresses
    Junk,           \* address 0
    NoAircraft,
    StaleInterval,  \* field -> stale_interval, in ticks
    ExpireInterval, \* field -> expire_interval
    MaxElapsed,     \* airborne max_elapsed
    AircraftTTL,    \* TRACK_AIRCRAFT_TTL
    UnreliableTTL,  \* TRACK_AIRCRAFT_UNRELIABLE_TTL
    MinDF11, MinDF17, MinAny,  \* TRACK_RELIABLE_..._MESSAGES
    Located,        \* MODES_USER_LATLON_VALID
    Received        \* the messages that are received, a subset of Message

\* datasource_t, in its order.
SOURCE_INVALID == 0
SOURCE_MLAT == 1
SOURCE_MODE_S == 2
SOURCE_MODE_S_CHECKED == 3
SOURCE_ADSB == 4

Sources == SOURCE_INVALID .. SOURCE_ADSB

\* A message after the attempt to correct bit errors.  Address/parity replies (DF 4)
\* have no checksum of their own, so their address may be noise; "announced" addresses
\* (DF 11, 17, 18) are covered by one.  mlat results come back as DF 17.
Message ==
    [df : {4}, addr : Addr, corrected : {0}, iid : {0}, source : {SOURCE_MODE_S},
        altitude : BOOLEAN, cpr : {"none"}]
    \cup
    [df : {11}, addr : Addr, corrected : {0, 1}, iid : {0, 1},
        source : {SOURCE_MODE_S_CHECKED}, altitude : {FALSE}, cpr : {"none"}]
    \cup
    [df : {17, 18}, addr : Addr, corrected : {0, 1, 2}, iid : {0},
        source : {SOURCE_ADSB, SOURCE_MLAT}, altitude : {TRUE}, cpr : {"odd", "even"}]
    \cup
    [df : {17, 18}, addr : Addr, corrected : {0, 1, 2}, iid : {0},
        source : {SOURCE_ADSB}, altitude : {FALSE}, cpr : {"none"}]

Fields == {"altitude_baro", "cpr_odd", "cpr_even", "position"}

ASSUME TrackAssumption ==
    /\ Keys = Addr \X {"icao", "nt"}
    /\ Junk \in Addr
    /\ StaleInterval \in [Fields -> Nat \ {0}]
    /\ ExpireInterval \in [Fields -> Nat \ {0}]
    /\ \A f \in Fields : StaleInterval[f] <= ExpireInterval[f]
    /\ MaxElapsed \in Nat
    /\ {AircraftTTL, UnreliableTTL} \subseteq Nat
    /\ UnreliableTTL <= AircraftTTL
    /\ {MinDF11, MinDF17, MinAny} \subseteq Nat \ {0}
    /\ Located \in BOOLEAN
    /\ Received \subseteq Message

VARIABLES aircrafts   \* address -> its struct aircraft, or NoAircraft

vars == <<filterVars, aircrafts>>

\* A data_validity: ages are counted up to the age at which the data expire.  Counters
\* of messages are only compared with a threshold, up to which they are counted.
\* "anchored" is history: the position goes back, without a gap, to a global CPR pair
\* (or the receiver's location) that no bad pair has put in doubt since.
DataValidity(f) == [source : Sources, age : 0 .. ExpireInterval[f]]

Aircraft ==
    [seen : 0 .. AircraftTTL + 1, messages : 0 .. MinAny, reliableDF11 : 0 .. MinDF11,
     reliableDF17 : 0 .. MinDF17, reliable : BOOLEAN,
     data : [Fields -> UNION {DataValidity(f) : f \in Fields}], anchored : BOOLEAN]

TrackTypeOK ==
    /\ FilterTypeOK
    /\ aircrafts \in [Addr -> Aircraft \cup {NoAircraft}]
    /\ aircrafts[Junk] = NoAircraft
    /\ \A a \in Addr : aircrafts[a] # NoAircraft =>
           /\ aircrafts[a].messages > 0
           /\ \A f \in Fields : aircrafts[a].data[f].age <= ExpireInterval[f]

Init ==
    /\ FilterInit
    /\ aircrafts = [a \in Addr |-> NoAircraft]

-------------------------------------------------------------------------------
(* Messages                                                                   *)

\* DF 18 comes from devices that are not transponders and are remembered apart.
KeyOf(m) == <<m.addr, IF m.df = 18 THEN "nt" ELSE "icao">>

\* Accepting every well-formed address/parity reply.
ScoreParity(m) == m.df # 11 /\ m.corrected <= 1

\* scoreModesMessage reaches SR_ACCEPT_THRESHOLD.
scoreModesMessage(m) ==
    \/ m.df = 11 /\ m.corrected = 0 /\ m.iid = 0
    \/ m.df \in {17, 18} /\ m.corrected <= 1
    \/ icaoFilterTest(KeyOf(m))

\* mm->reliable
Reliable(m) == m.df # 4 /\ m.corrected = 0 /\ m.iid = 0

\* decodeModesMessage makes the address known when the checksum proves it.
Vouches(m) == Reliable(m)

-------------------------------------------------------------------------------
(* Fields                                                                     *)

Fresh(d, f) == d.source # SOURCE_INVALID /\ d.age < StaleInterval[f]
Valid(d, f) == d.source # SOURCE_INVALID /\ d.age < ExpireInterval[f]

\* Data from a less reliable source are not accepted while the data are fresh.
Acceptable(data, f, source) == ~(source < data[f].source /\ Fresh(data[f], f))

accept_data(data, f, source) ==
    IF Acceptable(data, f, source)
    THEN [data EXCEPT ![f] = [source |-> source, age |-> 0]] ELSE data

Distance(m, n) == IF m < n THEN n - m ELSE m - n

\* An odd and an even frame that can be decoded together.
Paired(data) ==
    /\ Valid(data["cpr_odd"], "cpr_odd")
    /\ Valid(data["cpr_even"], "cpr_even")
    /\ data["cpr_odd"].source = data["cpr_even"].source
    /\ Distance(data["cpr_odd"].age, data["cpr_even"].age) <= MaxElapsed

\* All that is known of the position is discarded.
Invalidate(data) ==
    [f \in Fields |-> IF f = "altitude_baro" THEN data[f]
                      ELSE [data[f] EXCEPT !.source = SOURCE_INVALID]]

\* What the CPR computations yield for a frame: doGlobalCPR succeeds or finds the pair
\* implausible (only if there is a pair); else doLocalCPR succeeds; or nothing does.
Outcomes == {"global", "bad", "local", "nothing"}

\* A local position whatever the age of the one it is relative to.
UpdateFromOld(a, source, outcome) ==
    CASE outcome = "bad" /\ Paired(a.data) ->
             [a EXCEPT !.data = Invalidate(@), !.anchored = FALSE]
      [] outcome = "global" /\ Paired(a.data) ->
             [a EXCEPT !.data = accept_data(@, "position", source), !.anchored = TRUE]
      [] outcome = "local" /\ a.data["position"].source # SOURCE_INVALID ->
             [a EXCEPT !.data = accept_data(@, "position", source)]
      [] OTHER -> a

\* updatePosition, for an aircraft that has just got a frame.  A local position is
\* relative to the last one, if that is valid, or else to the receiver.
updatePosition(a, source, outcome) ==
    LET moved == [a EXCEPT !.data = accept_data(@, "position", source)]
        anchored == [moved EXCEPT !.anchored = @ \/ Acceptable(a.data, "position", source)]
    IN  CASE outcome = "bad" /\ Paired(a.data) ->
                 [a EXCEPT !.data = Invalidate(@), !.anchored = FALSE]
          [] outcome = "global" /\ Paired(a.data) -> anchored
          [] outcome = "local" /\ Valid(a.data["position"], "position") -> moved
          [] outcome = "local" /\ Located -> anchored
          [] OTHER -> a

-------------------------------------------------------------------------------
(* trackUpdateFromMessage                                                     *)

trackCreateAircraft ==
    [seen |-> 0, messages |-> 0, reliableDF11 |-> 0, reliableDF17 |-> 0, reliable |-> FALSE,
     data |-> [f \in Fields |-> [source |-> SOURCE_INVALID, age |-> ExpireInterval[f]]],
     anchored |-> FALSE]

CountTo(limit, n, condition) == IF condition /\ n < limit THEN n + 1 ELSE n

\* The message is counted, and enough of them make the aircraft reliable.
Counted(a, m) ==
    LET messages == CountTo(MinAny, a.messages, TRUE)
        df11 == CountTo(MinDF11, a.reliableDF11, m.df = 11 /\ Reliable(m))
        df17 == CountTo(MinDF17, a.reliableDF17, m.df = 17 /\ Reliable(m))
    IN  [a EXCEPT !.seen = 0, !.messages = messages, !.reliableDF11 = df11,
                  !.reliableDF17 = df17,
                  !.reliable = @ \/ df11 = MinDF11 \/ df17 = MinDF17 \/ messages = MinAny]

WithAltitude(a, m) ==
    IF m.altitude THEN [a EXCEPT !.data = accept_data(@, "altitude_baro", m.source)] ELSE a

WithCpr(a, m, outcome) ==
    LET f == IF m.cpr = "odd" THEN "cpr_odd" ELSE "cpr_even"
        framed == [a EXCEPT !.data = accept_data(@, f, m.source)]
    IN  IF m.cpr # "none" /\ Acceptable(a.data, f, m.source)
        THEN updatePosition(framed, m.source, outcome) ELSE a

Updated(a, m, outcome) ==
    LET counted == Counted(a, m)
    IN  IF ~Reliable(m) /\ ~counted.reliable THEN counted
        ELSE WithCpr(WithAltitude(counted, m), m, outcome)

\* Address 0 tracked like any other.
TrackJunk(m, outcome) ==
    LET a == aircrafts[m.addr]
    IN  aircrafts' = [aircrafts EXCEPT ![m.addr] =
            Updated(IF a = NoAircraft THEN trackCreateAircraft ELSE a, m, outcome)]

trackUpdateFromMessage(m, outcome) ==
    LET a == aircrafts[m.addr]
    IN  IF m.addr = Junk THEN UNCHANGED aircrafts
        ELSE aircrafts' = [aircrafts EXCEPT ![m.addr] =
                 Updated(IF a = NoAircraft THEN trackCreateAircraft ELSE a, m, outcome)]

\* A message is scored, decoded and tracked; an implausible one is dropped.
Receive(m) ==
    /\ scoreModesMessage(m)
    /\ IF Vouches(m) THEN icaoFilterAdd(KeyOf(m)) ELSE UNCHANGED filterVars
    /\ \E outcome \in IF m.cpr = "none" THEN {"nothing"} ELSE Outcomes :
           trackUpdateFromMessage(m, outcome)

-------------------------------------------------------------------------------
(* Background tasks and time                                                  *)

\* Only aircraft that were believed in are removed.
GoneReliable(a) == a.reliable /\ a.seen > AircraftTTL

\* "Do we think this is a real aircraft" and still there.
Gone(a) == a.seen > AircraftTTL \/ (~a.reliable /\ a.seen > UnreliableTTL)

Expired(a) ==
    [a EXCEPT !.data = [f \in Fields |->
        IF a.data[f].age >= ExpireInterval[f]
        THEN [a.data[f] EXCEPT !.source = SOURCE_INVALID] ELSE a.data[f]]]

trackRemoveStaleAircraft ==
    aircrafts' = [a \in Addr |->
        IF aircrafts[a] = NoAircraft \/ Gone(aircrafts[a]) THEN NoAircraft
        ELSE Expired(aircrafts[a])]

backgroundTasks ==
    /\ IF next_flip = 0 THEN icaoFilterExpire ELSE UNCHANGED filterVars
    /\ trackRemoveStaleAircraft

\* A position that nobody confirmed for so long is not valid any more.
Older(a) ==
    LET data == [f \in Fields |-> [a.data[f] EXCEPT
                    !.age = IF @ < ExpireInterval[f] THEN @ + 1 ELSE @]]
    IN  [a EXCEPT !.seen = IF @ <= AircraftTTL THEN @ + 1 ELSE @,
                  !.data = data,
                  !.anchored = @ /\ data["position"].age < ExpireInterval["position"]]

Tick ==
    /\ FilterTick
    /\ aircrafts' = [a \in Addr |-> IF aircrafts[a] = NoAircraft THEN NoAircraft
                                     ELSE Older(aircrafts[a])]

Next ==
    \/ \E m \in Received : Receive(m)
    \/ backgroundTasks
    \/ Tick

\* The clock does not stop, and the main loop calls backgroundTasks over and over.
Spec == Init /\ [][Next]_vars /\ WF_vars(Tick) /\ WF_vars(backgroundTasks)
-------------------------------------------------------------------------------
(* Properties                                                                 *)

\* CPR positions are relative: with no known receiver location, a position that counts
\* as valid was computed from an odd and even pair, and since then neither did it
\* expire in between nor did a pair turn out implausible ("disable aircraft-relative
\* positions until we have a new good position").
PositionAnchored ==
    \A a \in Addr :
        aircrafts[a] # NoAircraft /\ Valid(aircrafts[a].data["position"], "position")
            => aircrafts[a].anchored

\* The address of an address/parity reply is whatever the checksum leaves over: it gives
\* an aircraft its altitude only if the same address was announced under a correct
\* checksum at most two filter periods ago.
AddressParityVouched ==
    [][\A a \in Addr :
         aircrafts'[a] # NoAircraft /\ aircrafts'[a] # aircrafts[a]
           /\ aircrafts'[a].data["altitude_baro"] = [source |-> SOURCE_MODE_S, age |-> 0]
         => elapsed[<<a, "icao">>] <= 2 * TTL]_vars

\* An aircraft that is not heard any more does not stay on the list.
SilentAircraftGo ==
    \A a \in Addr :
        []<>(aircrafts[a] # NoAircraft) => []<>(aircrafts[a] # NoAircraft /\ aircrafts[a].seen = 0)
===============================================================================
