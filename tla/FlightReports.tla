----------------------------- MODULE FlightReports -----------------------------
(***************************************************************************)
(* From tracked aircraft to the server: the threads prepareData and        *)
(* threadSendData of airnav_main.c, sendMultipleFlights, the UAT receiver  *)
(* of airnav_uat.c and the ANRB sender of airnav_anrb.c, which pass        *)
(* packets over two linked lists, flist under m_copy and flist2 under      *)
(* m_copy2.  List nodes are memory: allocated, linked, taken, freed.       *)
(*                                                                         *)
(* prepareData reports a field of an aircraft when it has changed, when it *)
(* was last reported an interval ago, or when the aircraft is low or slow  *)
(* (force).  Of some thirty fields there are three here, one of each kind: *)
(* the altitude, whose report makes a packet be sent; the callsign, which  *)
(* only goes along; and everything else, which may make a packet be sent.  *)
(*                                                                         *)
(* The tracker, in the main thread, writes what prepareData reads without  *)
(* any lock.  prepareData reads a field once to decide, once to remember   *)
(* it as emitted and once to put it in the packet; the tracker may change  *)
(* it in between.  In a build that reads it only once it is as if the      *)
(* tracker had not.                                                        *)
(***************************************************************************)
EXTENDS Naturals, Sequences, FiniteSets, Functions, FiniteSetsExt

CONSTANTS
    Aircraft,    \* the aircraft in Modes.aircrafts
    Fields,      \* the fields that have an an.rpisrv_emitted_... of their own here
    Values, Zero, \* what a field may hold, and what it holds in a new aircraft
    NoData,      \* a field of a packet that is not set
    Interval,    \* MAX_TIME_FIELD_..., in ticks
    Nodes        \* list nodes (with their packets) the heap may hold; a bound

ASSUME ReportsAssumption ==
    /\ IsFiniteSet(Aircraft)
    /\ {"freed", "nobody"} \cap Aircraft = {}
    /\ "altitude" \in Fields /\ Fields \subseteq {"callsign", "altitude"}
    /\ Zero \in Values /\ NoData \notin Values
    /\ Interval \in Nat \ {0}
    /\ Nodes \subseteq Nat \ {0} /\ IsFiniteSet(Nodes)

VARIABLES
    track,           \* aircraft -> what the tracker knows of it
    emitted,         \* aircraft -> an.rpisrv_emitted_...
    elapsed,         \* aircraft -> ticks since an.rpisrv_emitted_..._time, up to Interval
    m_copy, m_copy2, \* the thread that holds the mutex, or "none"
    flist, flist2,   \* the lists, first node first
    packet,          \* node -> its packet
    pc,              \* thread -> where it is
    todo,            \* prepareData: aircraft still to visit, the one being visited included
    visit,           \* prepareData: the visit of an aircraft
    uat,             \* UAT receiver: its new node and the list it puts it before
    local, local2,   \* threadSendData's and the ANRB sender's local_list
    inited,          \* airnav_com_inited
    reported,        \* history: the last value of each field put on flist
    quiet,           \* history: ticks since the altitude was put on flist, up to Interval
    changed,         \* history: aircraft -> its altitude changed since it was last emitted
    server           \* history: the altitude the server heard last

lists == <<m_copy, m_copy2, flist, flist2, packet, local, local2, uat>>
throttle == <<emitted, elapsed, reported, quiet, changed>>
round == <<todo, visit>>
vars == <<track, throttle, lists, pc, round, inited, server>>

Threads == {"prepare", "uat", "send", "anrb"}

Packet == [addr : Aircraft \cup {"uat", "freed"}, altitude : Values \cup {NoData}]

Freed == [addr |-> "freed", altitude |-> NoData]

NoUat == [node |-> 0, next |-> <<>>]

\* What the tracker knows: the last value of each field, and which are valid and recent.
Tracks == [value : [Fields -> Values], recent : SUBSET Fields]

FirstField == IF "callsign" \in Fields THEN "callsign" ELSE "altitude"

\* A visit: the aircraft, force_send, the field that is looked at and how far this
\* is, and what was put in the packet; history: changed, when the altitude was emitted.
Visits == [of : Aircraft \cup {"nobody"}, force_send : BOOLEAN, field : Fields,
           at : {"test", "emit", "copy"}, copied : [Fields -> Values \cup {NoData}],
           changed : BOOLEAN]

NewVisit(a, force) == [of |-> a, force_send |-> force, field |-> FirstField, at |-> "test",
                       copied |-> [f \in Fields |-> NoData], changed |-> FALSE]

NoVisit == NewVisit("nobody", FALSE)

ReportsTypeOK ==
    /\ track \in [Aircraft -> Tracks]
    /\ emitted \in [Aircraft -> [Fields -> Values]]
    /\ elapsed \in [Aircraft -> [Fields -> 0 .. Interval]]
    /\ {m_copy, m_copy2} \subseteq Threads \cup {"none"}
    /\ m_copy = "prepare" <=> pc["prepare"] # "sleep"
    /\ m_copy2 = "prepare" <=> pc["prepare"] = "walk"
    /\ m_copy = "uat" <=> pc["uat"] = "push"
    /\ m_copy = "send" <=> pc["send"] = "clear"
    /\ m_copy2 = "anrb" <=> pc["anrb"] = "clear"
    /\ {flist, flist2, local, local2, uat.next} \subseteq Seq(Nodes)
    /\ packet \in [Nodes -> Packet]
    /\ pc \in [Threads -> {"sleep", "lock", "walk", "push", "clear", "send"}]
    /\ todo \subseteq Aircraft
    /\ visit \in Visits
    /\ visit # NoVisit => visit.of \in todo /\ pc["prepare"] = "walk"
    /\ uat.node \in Nodes \cup {0}
    /\ inited \in BOOLEAN
    /\ reported \in [Aircraft -> [Fields -> Values]]
    /\ quiet \in [Aircraft -> 0 .. Interval]
    /\ changed \in [Aircraft -> BOOLEAN]
    /\ server \in [Aircraft -> Values \cup {NoData}]

Init ==
    /\ track = [a \in Aircraft |-> [value |-> [f \in Fields |-> Zero], recent |-> {}]]
    /\ emitted = [a \in Aircraft |-> [f \in Fields |-> Zero]]
    /\ elapsed = [a \in Aircraft |-> [f \in Fields |-> Interval]]
    /\ m_copy = "none" /\ m_copy2 = "none"
    /\ flist = <<>> /\ flist2 = <<>>
    /\ packet = [n \in Nodes |-> Freed]
    /\ pc = [t \in Threads |-> "sleep"]
    /\ todo = {} /\ visit = NoVisit
    /\ uat = NoUat
    /\ local = <<>> /\ local2 = <<>>
    /\ inited = FALSE
    /\ reported = emitted
    /\ quiet = [a \in Aircraft |-> Interval]
    /\ changed = [a \in Aircraft |-> FALSE]
    /\ server = [a \in Aircraft |-> NoData]

Goto(t, where) == pc' = [pc EXCEPT ![t] = where]

\* malloc returns some free node; which one makes no difference.
FreeNodes == {n \in Nodes : packet[n] = Freed}
FirstNode == Min(FreeNodes)
SecondNode == Min(FreeNodes \ {FirstNode})

\* Enough memory for a round of prepareData.
RoundFits == Cardinality(FreeNodes) >= 2 * Cardinality(Aircraft)

\* Every packet of a list is freed.
FreeList(list) == packet' = [n \in Nodes |-> IF n \in Range(list) THEN Freed ELSE packet[n]]

-------------------------------------------------------------------------------
(* airnav_prepareData                                                         *)

PrepareLock ==
    /\ pc["prepare"] = "sleep"
    /\ m_copy = "none"
    /\ RoundFits
    /\ m_copy' = "prepare"
    /\ Goto("prepare", "lock")
    /\ UNCHANGED <<track, throttle, m_copy2, flist, flist2, packet, local, local2, uat,
                   round, inited, server>>

PrepareLock2 ==
    /\ pc["prepare"] = "lock"
    /\ m_copy2 = "none"
    /\ m_copy2' = "prepare"
    /\ todo' = Aircraft
    /\ Goto("prepare", "walk")
    /\ UNCHANGED <<track, throttle, m_copy, flist, flist2, packet, local, local2, uat,
                   visit, inited, server>>

\* A visit begins with gettimeofday and the conditions that force reports: a low or
\* slow aircraft, by fields that are left open here.
Visit(a) ==
    /\ pc["prepare"] = "walk"
    /\ visit = NoVisit
    /\ a \in todo
    /\ \E force_send \in BOOLEAN : visit' = NewVisit(a, force_send)
    /\ UNCHANGED <<track, throttle, lists, pc, todo, inited, server>>


\* Field f of aircraft a has recent data that is due to be reported.
Due(a, f) ==
    /\ f \in track[a].recent
    /\ \/ elapsed[a][f] >= Interval
       \/ emitted[a][f] # track[a].value[f]
       \/ visit.force_send

\* One packet goes on each list.
Report(a, copied) ==
    LET has(f) == copied[f] # NoData
    IN  /\ packet' = [packet EXCEPT
                        ![FirstNode] = [addr |-> a, altitude |-> copied["altitude"]],
                        ![SecondNode] = [addr |-> a, altitude |-> NoData]]
        /\ flist' = <<FirstNode>> \o flist
        /\ flist2' = <<SecondNode>> \o flist2
        /\ reported' = [reported EXCEPT ![a] =
                          [f \in Fields |-> IF has(f) THEN copied[f] ELSE reported[a][f]]]
        /\ quiet' = [quiet EXCEPT ![a] = IF has("altitude") THEN 0 ELSE @]

\* Variant: something else must be due as well.
SendSparingly(a, copied) ==
    \E others \in BOOLEAN :
        IF others
        THEN Report(a, copied)
        ELSE UNCHANGED <<packet, flist, flist2, reported, quiet>>

\* send: the altitude, or (others) some other field, makes the packet be sent; otherwise
\* it is freed.
Send(a, copied) ==
    \E others \in BOOLEAN :
        IF copied["altitude"] # NoData \/ others
        THEN Report(a, copied)
        ELSE UNCHANGED <<packet, flist, flist2, reported, quiet>>

\* The altitude comes after the callsign; after it the visit ends.
GoOn(a, copied) ==
    IF visit.field = "callsign"
    THEN /\ visit' = [visit EXCEPT !.copied = copied, !.field = "altitude", !.at = "test"]
         /\ UNCHANGED <<packet, flist, flist2, reported, quiet, todo>>
    ELSE /\ Send(a, copied)
         /\ visit' = NoVisit
         /\ todo' = todo \ {a}

\* What a visit does not change.
Visiting(a, at) ==
    /\ visit.of = a
    /\ visit.at = at
    /\ UNCHANGED <<track, m_copy, m_copy2, local, local2, uat, pc, inited, server>>

TestField(a) ==
    /\ Visiting(a, "test")
    /\ IF Due(a, visit.field)
       THEN /\ visit' = [visit EXCEPT !.at = "emit"]
            /\ UNCHANGED <<packet, flist, flist2, reported, quiet, todo>>
       ELSE GoOn(a, visit.copied)
    /\ UNCHANGED <<emitted, elapsed, changed>>

\* Variant: the time of the report is not kept.
EmitUntimed(a) ==
    LET f == visit.field
    IN  /\ Visiting(a, "emit")
        /\ emitted' = [emitted EXCEPT ![a][f] = track[a].value[f]]
        /\ changed' = [changed EXCEPT ![a] = @ /\ f # "altitude"]
        /\ visit' = [visit EXCEPT !.at = "copy", !.changed = f = "altitude" /\ changed[a]]
        /\ UNCHANGED <<elapsed, reported, quiet, flist, flist2, packet, todo>>

\* an.rpisrv_emitted_... is updated before it is known whether anything will be sent.
EmitField(a) ==
    LET f == visit.field
    IN  /\ Visiting(a, "emit")
        /\ emitted' = [emitted EXCEPT ![a][f] = track[a].value[f]]
        /\ elapsed' = [elapsed EXCEPT ![a][f] = 0]
        /\ changed' = [changed EXCEPT ![a] = @ /\ f # "altitude"]
        /\ visit' = [visit EXCEPT !.at = "copy", !.changed = f = "altitude" /\ changed[a]]
        /\ UNCHANGED <<reported, quiet, flist, flist2, packet, todo>>

\* The field is read once more, for the packet.
CopyField(a) ==
    /\ Visiting(a, "copy")
    /\ GoOn(a, [visit.copied EXCEPT ![visit.field] = track[a].value[visit.field]])
    /\ UNCHANGED <<emitted, elapsed, changed>>

PrepareUnlock ==
    /\ pc["prepare"] = "walk"
    /\ todo = {}
    /\ m_copy' = "none"
    /\ m_copy2' = "none"
    /\ Goto("prepare", "sleep")
    /\ UNCHANGED <<track, throttle, flist, flist2, packet, local, local2, uat, round,
                   inited, server>>

-------------------------------------------------------------------------------
(* The UAT receiver: tmp->next = flist; flist = tmp.                          *)

UatPushUnlocked ==    \* variant: does not take m_copy
    /\ pc["uat"] = "sleep"
    /\ Cardinality(FreeNodes) > 2 * Cardinality(Aircraft)
    /\ uat' = [node |-> FirstNode, next |-> flist]
    /\ packet' = [packet EXCEPT ![FirstNode] = [addr |-> "uat", altitude |-> NoData]]
    /\ Goto("uat", "push")
    /\ UNCHANGED <<track, throttle, m_copy, m_copy2, flist, flist2, local, local2, round,
                   inited, server>>

\* It leaves memory for a round of prepareData.
UatPush ==
    /\ pc["uat"] = "sleep"
    /\ m_copy = "none"
    /\ Cardinality(FreeNodes) > 2 * Cardinality(Aircraft)
    /\ m_copy' = "uat"
    /\ uat' = [node |-> FirstNode, next |-> flist]
    /\ packet' = [packet EXCEPT ![FirstNode] = [addr |-> "uat", altitude |-> NoData]]
    /\ Goto("uat", "push")
    /\ UNCHANGED <<track, throttle, m_copy2, flist, flist2, local, local2, round,
                   inited, server>>

\* Variant: m_copy is not unlocked.
UatPushedLocked ==
    /\ pc["uat"] = "push"
    /\ flist' = <<uat.node>> \o uat.next
    /\ uat' = NoUat
    /\ Goto("uat", "sleep")
    /\ UNCHANGED <<track, throttle, m_copy, m_copy2, flist2, packet, local, local2, round,
                   inited, server>>

UatPushed ==
    /\ pc["uat"] = "push"
    /\ flist' = <<uat.node>> \o uat.next
    /\ uat' = NoUat
    /\ m_copy' = IF m_copy = "uat" THEN "none" ELSE m_copy
    /\ Goto("uat", "sleep")
    /\ UNCHANGED <<track, throttle, m_copy2, flist2, packet, local, local2, round,
                   inited, server>>

-------------------------------------------------------------------------------
(* airnav_threadSendData and sendMultipleFlights                              *)

SendLock ==
    /\ pc["send"] = "sleep"
    /\ m_copy = "none"
    /\ m_copy' = "send"
    /\ local' = flist
    /\ Goto("send", "clear")
    /\ UNCHANGED <<track, throttle, m_copy2, flist, flist2, packet, local2, uat, round,
                   inited, server>>

\* Variant: the list is left in place.
SendClearNothing ==
    /\ pc["send"] = "clear"
    /\ m_copy' = "none"
    /\ Goto("send", "send")
    /\ UNCHANGED <<track, throttle, m_copy2, flist, flist2, packet, local, local2, uat, round,
                   inited, server>>

\* There is nothing to send when the list was empty.
SendClear ==
    /\ pc["send"] = "clear"
    /\ flist' = <<>>
    /\ m_copy' = "none"
    /\ Goto("send", IF local = <<>> THEN "sleep" ELSE "send")
    /\ UNCHANGED <<track, throttle, m_copy2, flist2, packet, local, local2, uat, round,
                   inited, server>>

\* The last packet of a list that has an altitude for a.
AltitudeIn(list, a) ==
    LET with == {i \in DOMAIN list : packet[list[i]].addr = a
                                     /\ packet[list[i]].altitude # NoData}
    IN  IF with = {} THEN server[a] ELSE packet[list[Max(with)]].altitude

\* The whole list is packed and freed; it is sent if airnav_com_inited is set,
\* and otherwise that was that.
SendFlights ==
    /\ pc["send"] = "send"
    /\ server' = IF inited THEN [a \in Aircraft |-> AltitudeIn(local, a)] ELSE server
    /\ FreeList(local)
    /\ local' = <<>>
    /\ Goto("send", "sleep")
    /\ UNCHANGED <<track, throttle, m_copy, m_copy2, flist, flist2, local2, uat, round, inited>>

-------------------------------------------------------------------------------
(* anrb_threadSendDataANRB                                                    *)

AnrbLock ==
    /\ pc["anrb"] = "sleep"
    /\ m_copy2 = "none"
    /\ m_copy2' = "anrb"
    /\ local2' = flist2
    /\ Goto("anrb", "clear")
    /\ UNCHANGED <<track, throttle, m_copy, flist, flist2, packet, local, uat, round,
                   inited, server>>

AnrbClear ==
    /\ pc["anrb"] = "clear"
    /\ flist2' = <<>>
    /\ m_copy2' = "none"
    /\ Goto("anrb", IF local2 = <<>> THEN "sleep" ELSE "send")
    /\ UNCHANGED <<track, throttle, m_copy, flist, packet, local, local2, uat, round,
                   inited, server>>

AnrbSend ==
    /\ pc["anrb"] = "send"
    /\ FreeList(local2)
    /\ local2' = <<>>
    /\ Goto("anrb", "sleep")
    /\ UNCHANGED <<track, throttle, m_copy, m_copy2, flist, flist2, local, uat, round,
                   inited, server>>

-------------------------------------------------------------------------------
(* The tracker, the link and the clock                                        *)

\* The tracker takes no lock.  A field gets a value, the old one maybe, and is recent;
\* a field becomes too old, and its value stays.
TrackChanges ==
    /\ \E a \in Aircraft, f \in Fields, v \in Values :
         /\ track' = [track EXCEPT ![a].value[f] = v, ![a].recent = @ \cup {f}]
         /\ changed' = [changed EXCEPT ![a] = @ \/ (f = "altitude" /\ v # track[a].value[f])]
    /\ UNCHANGED <<emitted, elapsed, reported, quiet, lists, pc, round, inited, server>>

TrackExpires ==
    /\ \E a \in Aircraft, f \in Fields : track' = [track EXCEPT ![a].recent = @ \ {f}]
    /\ UNCHANGED <<throttle, lists, pc, round, inited, server>>

LinkChanges ==
    /\ inited' = ~inited
    /\ UNCHANGED <<track, throttle, lists, pc, round, server>>

Later(n) == IF n < Interval THEN n + 1 ELSE n

\* prepareData looks at the clock once in a visit, when it begins; a tick during one
\* is as good as a tick after it.
Tick ==
    /\ visit = NoVisit
    /\ elapsed' = [a \in Aircraft |-> [f \in Fields |-> Later(elapsed[a][f])]]
    /\ quiet' = [a \in Aircraft |-> Later(quiet[a])]
    /\ UNCHANGED <<track, emitted, reported, changed, lists, pc, round, inited, server>>

PrepareNext ==
    \/ PrepareLock2
    \/ \E a \in Aircraft : \/ Visit(a) \/ TestField(a) \/ EmitField(a) \/ CopyField(a)
    \/ PrepareUnlock

Next ==
    \/ PrepareLock \/ PrepareNext
    \/ UatPush \/ UatPushed
    \/ SendLock \/ SendClear \/ SendFlights
    \/ AnrbLock \/ AnrbClear \/ AnrbSend
    \/ TrackChanges \/ TrackExpires \/ LinkChanges \/ Tick

\* The threads keep running and the clock goes on.  A thread that waits for a mutex
\* gets it in the end: whoever holds one sleeps for a second or more after unlocking
\* it, or (UAT) waits for the next message.
Fairness ==
    /\ SF_vars(PrepareLock) /\ SF_vars(PrepareNext)
    /\ WF_vars(UatPushed)
    /\ SF_vars(SendLock) /\ WF_vars(SendClear) /\ WF_vars(SendFlights)
    /\ SF_vars(AnrbLock) /\ WF_vars(AnrbClear) /\ WF_vars(AnrbSend)
    /\ SF_vars(Tick)

Spec == Init /\ [][Next]_vars /\ Fairness

-------------------------------------------------------------------------------
(* Properties                                                                 *)

\* While a thread has only copied a list's head, the list itself is not counted.
OnFlist == IF pc["send"] = "clear" THEN <<>> ELSE flist
OnFlist2 == IF pc["anrb"] = "clear" THEN <<>> ELSE flist2
UatNode == IF uat = NoUat THEN <<>> ELSE <<uat.node>>

\* Every allocated packet is in exactly one place, on a list, with the thread that
\* took the list, or in the UAT receiver's hands: none leaks, none is freed twice or
\* sent twice, none on a list has been freed.
NodeConservation ==
    LET all == OnFlist \o OnFlist2 \o local \o local2 \o UatNode
    IN  /\ \A i, j \in DOMAIN all : all[i] = all[j] => i = j
        /\ Range(all) = Nodes \ FreeNodes

\* An altitude is remembered as emitted, for an interval, only if one was put on flist
\* at that time: remembering without sending would hide it.  It is the same altitude,
\* unless the tracker changed it between the two.
AltitudeReported ==
    \A a \in Aircraft : visit.of # a =>
        /\ elapsed[a]["altitude"] = quiet[a]
        /\ emitted[a]["altitude"] # reported[a]["altitude"] => changed[a]

\* "Send only once every 60 seconds (or when data changed)", or when forced: a packet
\* with an altitude answers to a change of its own.  None since the altitude was last
\* emitted, and there is no packet: a change in the middle of a visit may cause one
\* more, with the same altitude, but never a third.
AltitudeThrottled ==
    [][\A n \in Nodes, a \in Aircraft :
         packet'[n] # packet[n] /\ packet'[n].addr = a /\ packet'[n].altitude # NoData
           => \/ quiet[a] = Interval
              \/ visit.changed
              \/ visit.force_send]_vars

\* A packet on flist goes out (or is dropped) in the end.
FlistServed == \A n \in Nodes : n \in Range(flist) ~> n \notin Range(flist)


\* The same comment stands at the callsign (airnav_main.c): a callsign remembered as
\* emitted has been put on flist.
CallsignReported ==
    \A a \in Aircraft : visit.of # a => emitted[a]["callsign"] = reported[a]["callsign"]
===============================================================================
