-------------------------- MODULE FlightReportsProofs --------------------------
(***************************************************************************)
(* Proofs about FlightReports, for any number of aircraft, field values    *)
(* and list nodes and any interval: an altitude that prepareData remembers *)
(* as emitted has been put on flist, no altitude is reported without a     *)
(* reason, and no packet leaks or is freed twice, although the tracker     *)
(* writes what prepareData reads at any moment.                            *)
(*                                                                         *)
(* ThrottleInv is inductive by itself; beside AltitudeReported it says     *)
(* what holds in the middle of a visit: that the altitude's timer and      *)
(* quiet differ only between the altitude's mark and its packet, that the  *)
(* tracker's altitude is the emitted one unless it changed, and that an    *)
(* altitude that passed its test had a reason to.  CirculationInv says     *)
(* where the packets are, and why the thread that moves them is the only   *)
(* one: it holds the mutex.                                                *)
(***************************************************************************)
EXTENDS FlightReports, FiniteSetTheorems, WellFoundedInduction, TLAPS

\* The types of what the throttle uses.
ThrottleType ==
    /\ emitted \in [Aircraft -> [Fields -> Values]]
    /\ reported \in [Aircraft -> [Fields -> Values]]
    /\ elapsed \in [Aircraft -> [Fields -> 0 .. Interval]]
    /\ quiet \in [Aircraft -> 0 .. Interval]
    /\ changed \in [Aircraft -> BOOLEAN]
    /\ track \in [Aircraft -> Tracks]
    /\ packet \in [Nodes -> Packet]
    /\ visit \in Visits

\* The altitude of a has been marked as emitted and is not in the packet yet.
Marked(a) == visit.of = a /\ visit.field = "altitude" /\ visit.at = "copy"

\* The history variable quiet counts what the altitude's timer counts.
QuietIsElapsed ==
    \A a \in Aircraft : IF Marked(a) THEN elapsed[a]["altitude"] = 0
                                     ELSE elapsed[a]["altitude"] = quiet[a]

\* Without a change, the tracker's altitude is the one that was emitted.
ChangesSeen ==
    \A a \in Aircraft : changed[a] \/ track[a].value["altitude"] = emitted[a]["altitude"]

\* And it is the one that was put on flist.
EmittedIsReported ==
    \A a \in Aircraft : \/ Marked(a)
                        \/ changed[a]
                        \/ emitted[a]["altitude"] = reported[a]["altitude"]

\* An altitude that passed its test had a reason to.
Reasoned ==
    \A a \in Aircraft : visit.of = a /\ visit.field = "altitude" /\ visit.at # "test" =>
        \/ quiet[a] = Interval
        \/ visit.force_send
        \/ IF visit.at = "emit" THEN changed[a] ELSE visit.changed

\* The altitude is the last field that is put in a packet.
AltitudeLast == visit.copied["altitude"] = NoData

\* The inductive invariant.
ThrottleInv ==
    ThrottleType /\ QuietIsElapsed /\ ChangesSeen /\ EmittedIsReported /\ Reasoned /\ AltitudeLast

\* The first field that is looked at is a field.
LEMMA FirstIsField == FirstField \in Fields /\ "altitude" \in Fields
BY ReportsAssumption DEF FirstField

\* A visit that begins has put nothing in its packet.
LEMMA VisitBegins ==
    ASSUME NEW a \in Aircraft \cup {"nobody"}, NEW force \in BOOLEAN
    PROVE  /\ NewVisit(a, force) \in Visits
           /\ NewVisit(a, force).of = a
           /\ NewVisit(a, force).at = "test"
           /\ NewVisit(a, force).copied["altitude"] = NoData
BY FirstIsField DEF NewVisit, Visits

\* While there is no visit, no aircraft is visited.
LEMMA Nobody ==
    /\ NoVisit \in Visits /\ NoVisit.of \notin Aircraft
    /\ NoVisit.at = "test" /\ NoVisit.copied["altitude"] = NoData
<1>1. "nobody" \notin Aircraft
  BY ReportsAssumption
<1>2. QED BY <1>1, VisitBegins DEF NoVisit

\* prepareData's loop has not begun; nothing is emitted.
LEMMA ThrottleInit == Init => ThrottleInv
<1> SUFFICES ASSUME Init PROVE ThrottleInv
  OBVIOUS
<1>1. ThrottleType
  BY ReportsAssumption, Nobody DEF Init, ThrottleType, Tracks, Packet, Freed
<1>2. QuietIsElapsed /\ ChangesSeen /\ EmittedIsReported
  BY FirstIsField, Nobody DEF Init, QuietIsElapsed, ChangesSeen, EmittedIsReported, Marked
<1>3. Reasoned /\ AltitudeLast
  BY Nobody DEF Init, Reasoned, AltitudeLast
<1>4. QED BY <1>1, <1>2, <1>3 DEF ThrottleInv

\* What a visit may have put in its packet.
Copied == [Fields -> Values \cup {NoData}]

\* The packets of one aircraft are packets.
LEMMA ReportPackets ==
    ASSUME ThrottleType, NEW a \in Aircraft, NEW copied \in Copied, Report(a, copied)
    PROVE  packet' \in [Nodes -> Packet]
<1>1. copied["altitude"] \in Values \cup {NoData}
  BY FirstIsField DEF Copied
<1>2. \A alt \in Values \cup {NoData} : [addr |-> a, altitude |-> alt] \in Packet
  BY DEF Packet
<1>3. QED BY <1>1, <1>2 DEF Report, ThrottleType

\* After a field the visit goes on with the next one, or ends.
LEMMA GoOnTypes ==
    ASSUME ThrottleType, NEW a \in Aircraft, NEW copied \in Copied, GoOn(a, copied)
    PROVE  /\ packet' \in [Nodes -> Packet]
           /\ reported' \in [Aircraft -> [Fields -> Values]]
           /\ quiet' \in [Aircraft -> 0 .. Interval]
           /\ visit' \in Visits /\ visit'.at = "test"
<1>1. CASE visit.field = "callsign"
  <2>1. visit' = [visit EXCEPT !.copied = copied, !.field = "altitude", !.at = "test"]
    BY <1>1 DEF GoOn
  <2>2. visit' \in Visits /\ visit'.at = "test"
    BY <2>1, FirstIsField DEF ThrottleType, Visits, Copied
  <2>3. QED BY <1>1, <2>2 DEF GoOn, ThrottleType
<1>2. CASE visit.field # "callsign"
  <2>1. visit' = NoVisit /\ Send(a, copied)
    BY <1>2 DEF GoOn
  <2>2. CASE Report(a, copied)
    <3>1. reported' \in [Aircraft -> [Fields -> Values]]
      BY <2>2 DEF Report, ThrottleType, Copied
    <3>2. quiet' \in [Aircraft -> 0 .. Interval]
      BY <2>2, ReportsAssumption DEF Report, ThrottleType
    <3>3. QED BY <2>1, <2>2, <3>1, <3>2, ReportPackets, Nobody
  <2>3. CASE UNCHANGED <<packet, flist, flist2, reported, quiet>>
    BY <2>1, <2>3, Nobody DEF ThrottleType
  <2>4. QED BY <2>1, <2>2, <2>3 DEF Send
<1>3. QED BY <1>1, <1>2

\* A packet without the altitude makes no difference to the altitude.
LEMMA OtherFields ==
    ASSUME ThrottleType, AltitudeLast, NEW a \in Aircraft, NEW copied \in Copied,
           GoOn(a, copied), copied["altitude"] = NoData
    PROVE  /\ quiet' = quiet
           /\ \A b \in Aircraft : reported'[b]["altitude"] = reported[b]["altitude"]
           /\ AltitudeLast'
<1>1. CASE visit.field = "callsign"
  <2>1. visit' = [visit EXCEPT !.copied = copied, !.field = "altitude", !.at = "test"]
        /\ UNCHANGED <<reported, quiet>>
    BY <1>1 DEF GoOn
  <2>2. visit'.copied = copied
    BY <2>1 DEF ThrottleType, Visits
  <2>3. QED BY <2>1, <2>2 DEF AltitudeLast
<1>2. CASE visit.field # "callsign"
  <2>1. visit' = NoVisit /\ Send(a, copied)
    BY <1>2 DEF GoOn
  <2>2. AltitudeLast'
    BY <2>1, Nobody DEF AltitudeLast
  <2>3. CASE Report(a, copied)
    BY <2>2, <2>3, FirstIsField DEF Report, ThrottleType
  <2>4. QED BY <2>1, <2>2, <2>3 DEF Send
<1>3. QED BY <1>1, <1>2

-------------------------------------------------------------------------------
(* A visit, field by field                                                    *)

\* An aircraft's visit begins: nothing is tested yet.
LEMMA VisitKeeps ==
    ASSUME ThrottleInv, NEW a \in Aircraft, Visit(a)
    PROVE  ThrottleInv'
<1>1. PICK force \in BOOLEAN : visit' = NewVisit(a, force)
  BY DEF Visit
<1>2. UNCHANGED <<track, emitted, elapsed, reported, quiet, changed, packet>>
  BY DEF Visit, throttle, lists
<1>3. visit' \in Visits /\ visit'.at = "test" /\ AltitudeLast'
  BY <1>1, VisitBegins DEF AltitudeLast
<1>4. \A b \in Aircraft : ~Marked(b) /\ ~Marked(b)'
  BY <1>3, Nobody DEF Visit, Marked
<1>5. ThrottleType' /\ ChangesSeen'
  BY <1>2, <1>3 DEF ThrottleInv, ThrottleType, ChangesSeen
<1>6. QuietIsElapsed' /\ EmittedIsReported'
  BY <1>2, <1>4 DEF ThrottleInv, QuietIsElapsed, EmittedIsReported
<1>7. Reasoned'
  BY <1>3 DEF Reasoned
<1>8. QED BY <1>3, <1>5, <1>6, <1>7 DEF ThrottleInv

\* A visit goes on after a field that put no altitude in the packet.
LEMMA GoOnKeeps ==
    ASSUME ThrottleInv, NEW a \in Aircraft, NEW copied \in Copied, GoOn(a, copied),
           copied["altitude"] = NoData, \A b \in Aircraft : ~Marked(b),
           UNCHANGED <<track, emitted, elapsed, changed>>
    PROVE  ThrottleInv'
<1>1. /\ packet' \in [Nodes -> Packet] /\ reported' \in [Aircraft -> [Fields -> Values]]
      /\ quiet' \in [Aircraft -> 0 .. Interval] /\ visit' \in Visits /\ visit'.at = "test"
  BY GoOnTypes DEF ThrottleInv
<1>2. /\ quiet' = quiet /\ AltitudeLast'
      /\ \A b \in Aircraft : reported'[b]["altitude"] = reported[b]["altitude"]
  BY OtherFields DEF ThrottleInv
<1>3. \A b \in Aircraft : ~Marked(b)'
  BY <1>1 DEF Marked
<1>4. ThrottleType' /\ ChangesSeen'
  BY <1>1 DEF ThrottleInv, ThrottleType, ChangesSeen
<1>5. QuietIsElapsed' /\ EmittedIsReported'
  BY <1>2, <1>3 DEF ThrottleInv, QuietIsElapsed, EmittedIsReported
<1>6. Reasoned'
  BY <1>1 DEF Reasoned
<1>7. QED BY <1>2, <1>4, <1>5, <1>6 DEF ThrottleInv

\* A field that is due had a reason.
LEMMA TestKeeps ==
    ASSUME ThrottleInv, NEW a \in Aircraft, TestField(a)
    PROVE  ThrottleInv'
<1>1. visit.of = a /\ visit.at = "test" /\ UNCHANGED <<track, emitted, elapsed, changed>>
  BY DEF TestField, Visiting
<1>2. \A b \in Aircraft : ~Marked(b)
  BY <1>1 DEF Marked
<1>3. CASE ~Due(a, visit.field)
  <2>1. GoOn(a, visit.copied)
    BY <1>3 DEF TestField
  <2>2. visit.copied \in Copied /\ visit.copied["altitude"] = NoData
    BY DEF ThrottleInv, ThrottleType, Visits, Copied, AltitudeLast
  <2>3. QED BY <1>1, <1>2, <2>1, <2>2, GoOnKeeps
<1>4. CASE Due(a, visit.field)
  <2>1. visit' = [visit EXCEPT !.at = "emit"] /\ UNCHANGED <<packet, reported, quiet>>
    BY <1>4 DEF TestField
  <2>2. /\ visit' \in Visits /\ visit'.at = "emit" /\ visit'.of = a
        /\ visit'.field = visit.field /\ visit'.force_send = visit.force_send
        /\ visit'.copied = visit.copied
    BY <1>1, <2>1 DEF ThrottleInv, ThrottleType, Visits
  <2>3. \A b \in Aircraft : ~Marked(b)'
    BY <2>2 DEF Marked
  <2>4. ThrottleType' /\ ChangesSeen' /\ AltitudeLast'
    BY <1>1, <2>1, <2>2 DEF ThrottleInv, ThrottleType, ChangesSeen, AltitudeLast
  <2>5. QuietIsElapsed' /\ EmittedIsReported'
    BY <1>1, <1>2, <2>1, <2>3 DEF ThrottleInv, QuietIsElapsed, EmittedIsReported
  <2>6. ASSUME visit.field = "altitude"
        PROVE  quiet[a] = Interval \/ visit.force_send \/ changed[a]
    <3>1. CASE elapsed[a]["altitude"] >= Interval
      <4>1. quiet[a] = elapsed[a]["altitude"]
        BY <1>2 DEF ThrottleInv, QuietIsElapsed
      <4>2. quiet[a] \in 0 .. Interval /\ Interval \in Nat
        BY ReportsAssumption DEF ThrottleInv, ThrottleType
      <4>3. QED BY <3>1, <4>1, <4>2
    <3>2. CASE emitted[a]["altitude"] # track[a].value["altitude"]
      BY <3>2 DEF ThrottleInv, ChangesSeen
    <3>3. QED BY <1>4, <2>6, <3>1, <3>2 DEF Due
  <2>7. Reasoned'
    BY <1>1, <2>1, <2>2, <2>6 DEF Reasoned
  <2>8. QED BY <2>4, <2>5, <2>7 DEF ThrottleInv
<1>5. QED BY <1>3, <1>4

\* A field is marked: its time and the value that the tracker has now.
LEMMA EmitKeeps ==
    ASSUME ThrottleInv, NEW a \in Aircraft, EmitField(a)
    PROVE  ThrottleInv'
<1> DEFINE f == visit.field
<1>1. /\ visit.of = a /\ visit.at = "emit" /\ UNCHANGED <<track, reported, quiet, packet>>
      /\ emitted' = [emitted EXCEPT ![a][f] = track[a].value[f]]
      /\ elapsed' = [elapsed EXCEPT ![a][f] = 0]
      /\ changed' = [changed EXCEPT ![a] = @ /\ f # "altitude"]
      /\ visit' = [visit EXCEPT !.at = "copy", !.changed = f = "altitude" /\ changed[a]]
  BY DEF EmitField, Visiting
<1>2. f \in Fields /\ track[a].value[f] \in Values
  BY DEF ThrottleInv, ThrottleType, Visits, Tracks
<1>3. /\ visit' \in Visits /\ visit'.at = "copy" /\ visit'.of = a /\ visit'.field = f
      /\ visit'.force_send = visit.force_send /\ visit'.copied = visit.copied
      /\ visit'.changed = (f = "altitude" /\ changed[a])
  BY <1>1 DEF ThrottleInv, ThrottleType, Visits
<1>4. ThrottleType'
  <2>1. emitted' \in [Aircraft -> [Fields -> Values]]
    BY <1>1, <1>2 DEF ThrottleInv, ThrottleType
  <2>2. elapsed' \in [Aircraft -> [Fields -> 0 .. Interval]]
    BY <1>1, <1>2, ReportsAssumption DEF ThrottleInv, ThrottleType
  <2>3. changed' \in [Aircraft -> BOOLEAN]
    BY <1>1 DEF ThrottleInv, ThrottleType
  <2>4. QED BY <1>1, <1>3, <2>1, <2>2, <2>3 DEF ThrottleInv, ThrottleType
<1>5. \A b \in Aircraft : b # a =>
        /\ elapsed'[b] = elapsed[b] /\ emitted'[b] = emitted[b] /\ changed'[b] = changed[b]
        /\ ~Marked(b) /\ ~Marked(b)'
  BY <1>1, <1>3 DEF ThrottleInv, ThrottleType, Marked
<1>6. ~Marked(a) /\ (Marked(a)' <=> f = "altitude")
  BY <1>1, <1>3 DEF Marked
<1>7. ASSUME f = "altitude" PROVE QuietIsElapsed' /\ ChangesSeen' /\ EmittedIsReported'
  <2>1. elapsed'[a]["altitude"] = 0 /\ emitted'[a]["altitude"] = track[a].value["altitude"]
    BY <1>1, <1>2, <1>7 DEF ThrottleInv, ThrottleType
  <2>2. QuietIsElapsed'
    BY <1>1, <1>5, <1>6, <1>7, <2>1 DEF ThrottleInv, QuietIsElapsed
  <2>3. ChangesSeen'
    BY <1>1, <1>5, <2>1 DEF ThrottleInv, ChangesSeen
  <2>4. EmittedIsReported'
    BY <1>1, <1>5, <1>6, <1>7 DEF ThrottleInv, EmittedIsReported
  <2>5. QED BY <2>2, <2>3, <2>4
<1>8. ASSUME f # "altitude" PROVE QuietIsElapsed' /\ ChangesSeen' /\ EmittedIsReported'
  <2>1. /\ elapsed'[a]["altitude"] = elapsed[a]["altitude"]
        /\ emitted'[a]["altitude"] = emitted[a]["altitude"]
        /\ changed'[a] = changed[a]
    BY <1>1, <1>2, <1>8, FirstIsField DEF ThrottleInv, ThrottleType
  <2>2. QuietIsElapsed'
    BY <1>1, <1>5, <1>6, <1>8, <2>1 DEF ThrottleInv, QuietIsElapsed
  <2>3. ChangesSeen'
    BY <1>1, <1>5, <2>1 DEF ThrottleInv, ChangesSeen
  <2>4. EmittedIsReported'
    BY <1>1, <1>5, <1>6, <1>8, <2>1 DEF ThrottleInv, EmittedIsReported
  <2>5. QED BY <2>2, <2>3, <2>4
<1>9. Reasoned' /\ AltitudeLast'
  BY <1>1, <1>3 DEF ThrottleInv, Reasoned, AltitudeLast
<1>10. QED BY <1>4, <1>7, <1>8, <1>9 DEF ThrottleInv

\* The altitude is put in the packet: what is emitted is sent, if it is still the same.
LEMMA AltitudeCopied ==
    ASSUME ThrottleInv, NEW a \in Aircraft, CopyField(a), visit.field = "altitude"
    PROVE  ThrottleInv'
<1> DEFINE copied == [visit.copied EXCEPT !["altitude"] = track[a].value["altitude"]]
<1>1. /\ visit.of = a /\ visit.at = "copy" /\ GoOn(a, copied)
      /\ UNCHANGED <<track, emitted, elapsed, changed>>
  BY DEF CopyField, Visiting
<1>2. track[a].value["altitude"] \in Values
  BY FirstIsField DEF ThrottleInv, ThrottleType, Tracks
<1>3. copied \in Copied /\ copied["altitude"] = track[a].value["altitude"]
  BY <1>2, FirstIsField DEF ThrottleInv, ThrottleType, Visits, Copied
<1> HIDE DEF copied
<1>4. copied["altitude"] # NoData
  BY <1>2, <1>3, ReportsAssumption
<1>5. Report(a, copied) /\ visit' = NoVisit
  BY <1>1, <1>4 DEF GoOn, Send
<1>6. /\ packet' \in [Nodes -> Packet] /\ reported' \in [Aircraft -> [Fields -> Values]]
      /\ quiet' \in [Aircraft -> 0 .. Interval] /\ visit' \in Visits
  BY <1>1, <1>3, GoOnTypes DEF ThrottleInv
<1>7. ThrottleType' /\ ChangesSeen'
  BY <1>1, <1>6 DEF ThrottleInv, ThrottleType, ChangesSeen
<1>8. /\ quiet'[a] = 0 /\ reported'[a]["altitude"] = track[a].value["altitude"]
      /\ \A b \in Aircraft : b # a => quiet'[b] = quiet[b] /\ reported'[b] = reported[b]
  BY <1>3, <1>4, <1>5, FirstIsField DEF Report, ThrottleInv, ThrottleType
<1>9. Marked(a) /\ \A b \in Aircraft : ~Marked(b)' /\ (b # a => ~Marked(b))
  BY <1>1, <1>5, Nobody DEF Marked
<1>10. QuietIsElapsed'
  BY <1>1, <1>8, <1>9 DEF ThrottleInv, QuietIsElapsed
<1>11. EmittedIsReported'
  BY <1>1, <1>8, <1>9 DEF ThrottleInv, EmittedIsReported, ChangesSeen
<1>12. Reasoned' /\ AltitudeLast'
  BY <1>5, Nobody DEF Reasoned, AltitudeLast
<1>13. QED BY <1>7, <1>10, <1>11, <1>12 DEF ThrottleInv

\* Another field is put in the packet.
LEMMA CopyKeeps ==
    ASSUME ThrottleInv, NEW a \in Aircraft, CopyField(a)
    PROVE  ThrottleInv'
<1> DEFINE f == visit.field
           copied == [visit.copied EXCEPT ![f] = track[a].value[f]]
<1>1. CASE f = "altitude"
  BY <1>1, AltitudeCopied
<1>2. CASE f # "altitude"
  <2>1. GoOn(a, copied) /\ UNCHANGED <<track, emitted, elapsed, changed>>
    BY DEF CopyField, Visiting
  <2>2. copied \in Copied /\ copied["altitude"] = NoData
    BY <1>2, FirstIsField
    DEF ThrottleInv, ThrottleType, Tracks, Visits, Copied, AltitudeLast
  <2>3. \A b \in Aircraft : ~Marked(b)
    BY <1>2 DEF Marked
  <2> HIDE DEF copied
  <2>4. QED BY <2>1, <2>2, <2>3, GoOnKeeps
<1>3. QED BY <1>1, <1>2

-------------------------------------------------------------------------------
(* The other steps                                                            *)

\* The tracker changes an altitude, in the middle of a visit or not.
LEMMA TrackKeeps ==
    ASSUME ThrottleInv, TrackChanges \/ TrackExpires
    PROVE  ThrottleInv'
<1>1. UNCHANGED <<emitted, elapsed, reported, quiet, packet, visit>>
  BY DEF TrackChanges, TrackExpires, throttle, lists, round
<1>2. CASE TrackChanges
  <2>1. PICK a \in Aircraft, f \in Fields, v \in Values :
          /\ track' = [track EXCEPT ![a].value[f] = v, ![a].recent = @ \cup {f}]
          /\ changed' = [changed EXCEPT ![a] = @ \/ (f = "altitude" /\ v # track[a].value[f])]
    BY <1>2 DEF TrackChanges
  <2>2. track' \in [Aircraft -> Tracks] /\ changed' \in [Aircraft -> BOOLEAN]
    BY <2>1 DEF ThrottleInv, ThrottleType, Tracks
  <2>3. \A b \in Aircraft : \/ changed'[b]
                            \/ /\ changed'[b] = changed[b]
                               /\ track'[b].value["altitude"] = track[b].value["altitude"]
    BY <2>1, FirstIsField DEF ThrottleInv, ThrottleType, Tracks
  <2>4. \A b \in Aircraft : changed[b] => changed'[b]
    BY <2>1 DEF ThrottleInv, ThrottleType
  <2>5. ThrottleType' /\ ChangesSeen'
    BY <1>1, <2>2, <2>3 DEF ThrottleInv, ThrottleType, ChangesSeen
  <2>6. QuietIsElapsed' /\ EmittedIsReported' /\ Reasoned' /\ AltitudeLast'
    BY <1>1, <2>4
    DEF ThrottleInv, QuietIsElapsed, EmittedIsReported, Reasoned, AltitudeLast, Marked
  <2>7. QED BY <2>5, <2>6 DEF ThrottleInv
<1>3. CASE TrackExpires
  <2>1. changed' = changed
    BY <1>3 DEF TrackExpires, throttle
  <2>2. PICK a \in Aircraft, f \in Fields : track' = [track EXCEPT ![a].recent = @ \ {f}]
    BY <1>3 DEF TrackExpires
  <2>3. /\ track' \in [Aircraft -> Tracks]
        /\ \A b \in Aircraft : track'[b].value = track[b].value
    BY <2>2 DEF ThrottleInv, ThrottleType, Tracks
  <2>4. ThrottleType' /\ ChangesSeen'
    BY <1>1, <2>1, <2>3 DEF ThrottleInv, ThrottleType, ChangesSeen
  <2>5. QuietIsElapsed' /\ EmittedIsReported' /\ Reasoned' /\ AltitudeLast'
    BY <1>1, <2>1
    DEF ThrottleInv, QuietIsElapsed, EmittedIsReported, Reasoned, AltitudeLast, Marked
  <2>6. QED BY <2>4, <2>5 DEF ThrottleInv
<1>4. QED BY <1>2, <1>3

\* Time goes by between two visits.
LEMMA TickKeeps ==
    ASSUME ThrottleInv, Tick
    PROVE  ThrottleInv'
<1>1. \A n \in 0 .. Interval : Later(n) \in 0 .. Interval
  BY ReportsAssumption DEF Later
<1>2. UNCHANGED <<track, emitted, reported, changed, packet, visit>> /\ visit = NoVisit
  BY DEF Tick, lists, round
<1>3. ThrottleType'
  BY <1>1, <1>2 DEF Tick, ThrottleInv, ThrottleType
<1>4. \A a \in Aircraft : ~Marked(a) /\ ~Marked(a)'
  BY <1>2, Nobody DEF Marked
<1>5. QuietIsElapsed'
  BY <1>4, FirstIsField DEF Tick, ThrottleInv, ThrottleType, QuietIsElapsed
<1>6. ChangesSeen' /\ EmittedIsReported' /\ AltitudeLast'
  BY <1>2, <1>4 DEF ThrottleInv, ChangesSeen, EmittedIsReported, AltitudeLast
<1>7. Reasoned'
  BY <1>2, Nobody DEF Reasoned
<1>8. QED BY <1>3, <1>5, <1>6, <1>7 DEF ThrottleInv

\* Every step, stuttering included, keeps the invariant.
LEMMA ThrottleStep ==
    ASSUME ThrottleInv, [Next]_vars
    PROVE  ThrottleInv'
<1>1. ASSUME UNCHANGED <<track, throttle, visit>>, packet' \in [Nodes -> Packet]
      PROVE  ThrottleInv'
  BY <1>1 DEF ThrottleInv, ThrottleType, QuietIsElapsed, ChangesSeen, EmittedIsReported,
              Reasoned, AltitudeLast, Marked, throttle
<1>2. CASE \E a \in Aircraft : Visit(a) \/ TestField(a) \/ EmitField(a) \/ CopyField(a)
  BY <1>2, VisitKeeps, TestKeeps, EmitKeeps, CopyKeeps
<1>3. CASE TrackChanges \/ TrackExpires
  BY <1>3, TrackKeeps
<1>4. CASE Tick
  BY <1>4, TickKeeps
<1>5. CASE UatPush
  <2>1. packet' \in [Nodes -> Packet]
    BY <1>5 DEF UatPush, ThrottleInv, ThrottleType, Packet
  <2>2. QED BY <1>1, <1>5, <2>1 DEF UatPush, round
<1>6. CASE SendFlights \/ AnrbSend
  <2>1. packet' \in [Nodes -> Packet]
    BY <1>6 DEF SendFlights, AnrbSend, FreeList, Freed, ThrottleInv, ThrottleType, Packet
  <2>2. QED BY <1>1, <1>6, <2>1 DEF SendFlights, AnrbSend, round
<1>7. CASE UNCHANGED <<track, throttle, visit, packet>>
  BY <1>1, <1>7 DEF ThrottleInv, ThrottleType
<1>8. QED
  BY <1>2, <1>3, <1>4, <1>5, <1>6, <1>7
  DEF Next, PrepareNext, PrepareLock, PrepareLock2, PrepareUnlock, UatPushed,
      SendLock, SendClear, AnrbLock, AnrbClear, LinkChanges, vars, lists, round

\* The inductive invariant holds in every run.
LEMMA ThrottleInductive == Spec => []ThrottleInv
BY ThrottleInit, ThrottleStep, PTL DEF Spec

\* An altitude that prepareData remembers as emitted has been put on flist, whatever
\* else happens and however the threads interleave; the two are the same, unless the
\* tracker changed the altitude while prepareData was between its mark and its packet.
THEOREM EmittedAltitudesAreSent == Spec => []AltitudeReported
<1>1. ASSUME ThrottleInv PROVE AltitudeReported
  <2>1. \A a \in Aircraft : visit.of # a => ~Marked(a)
    BY DEF Marked
  <2>2. QED
    BY <1>1, <2>1 DEF ThrottleInv, QuietIsElapsed, EmittedIsReported, AltitudeReported
<1>2. QED BY <1>1, ThrottleInductive, PTL

-------------------------------------------------------------------------------
(* Reports have a reason                                                      *)

\* Only the end of a visit makes a packet with an altitude, the one that it copied.
LEMMA OnlyCopiedAltitudes ==
    ASSUME ThrottleInv, NEW a \in Aircraft, NEW b \in Aircraft, NEW copied, GoOn(b, copied),
           NEW n \in Nodes,
           packet'[n] # packet[n], packet'[n].addr = a, packet'[n].altitude # NoData
    PROVE  a = b /\ copied["altitude"] # NoData
<1>1. packet \in [Nodes -> Packet]
  BY DEF ThrottleInv, ThrottleType
<1>2. Report(b, copied)
  BY DEF GoOn, Send
<1>3. n # SecondNode
  BY <1>1, <1>2 DEF Report
<1>4. n = FirstNode
  BY <1>1, <1>2, <1>3 DEF Report
<1>5. packet'[n] = [addr |-> b, altitude |-> copied["altitude"]]
  BY <1>1, <1>2, <1>3, <1>4 DEF Report
<1>6. QED BY <1>5

\* So it is made by the step that puts the altitude in the packet.
LEMMA OnlyDueAltitudes ==
    ASSUME ThrottleInv, [Next]_vars, NEW n \in Nodes, NEW a \in Aircraft,
           packet'[n] # packet[n], packet'[n].addr = a, packet'[n].altitude # NoData
    PROVE  visit.of = a /\ visit.field = "altitude" /\ visit.at = "copy"
<1>a. packet \in [Nodes -> Packet] /\ visit.copied["altitude"] = NoData
  BY DEF ThrottleInv, ThrottleType, AltitudeLast
<1>1. ASSUME NEW b \in Aircraft, TestField(b) PROVE FALSE
  <2>1. GoOn(b, visit.copied)
    BY <1>1 DEF TestField
  <2>2. QED BY <1>a, <2>1, OnlyCopiedAltitudes
<1>2. ASSUME NEW b \in Aircraft, CopyField(b)
      PROVE  visit.of = a /\ visit.field = "altitude" /\ visit.at = "copy"
  <2> DEFINE f == visit.field
             copied == [visit.copied EXCEPT ![f] = track[b].value[f]]
  <2>1. GoOn(b, copied) /\ visit.of = b /\ visit.at = "copy"
    BY <1>2 DEF CopyField, Visiting
  <2>2. f # "altitude" => copied["altitude"] = visit.copied["altitude"]
    BY FirstIsField DEF ThrottleInv, ThrottleType, Visits
  <2> HIDE DEF copied
  <2>3. a = b /\ copied["altitude"] # NoData
    BY <2>1, OnlyCopiedAltitudes
  <2>4. QED BY <1>a, <2>1, <2>2, <2>3
<1>3. CASE UatPush
  BY <1>a, <1>3 DEF UatPush
<1>4. ASSUME NEW list, FreeList(list) PROVE FALSE
  BY <1>4 DEF FreeList, Freed
<1>5. CASE UNCHANGED packet
  BY <1>5
<1>6. QED
  BY <1>1, <1>2, <1>3, <1>4, <1>5
  DEF Next, PrepareNext, PrepareLock, PrepareLock2, Visit, EmitField, PrepareUnlock, UatPushed,
      SendLock, SendClear, SendFlights, AnrbLock, AnrbClear, AnrbSend, LinkChanges,
      TrackChanges, TrackExpires, Tick, vars, lists

\* An altitude goes out only when an interval has passed since the last time, when it
\* has changed since it was last emitted, or when the aircraft's state forces it.
THEOREM ReportsHaveAReason == Spec => AltitudeThrottled
<1>1. ThrottleInv /\ [Next]_vars
        => [\A n \in Nodes, a \in Aircraft :
              packet'[n] # packet[n] /\ packet'[n].addr = a /\ packet'[n].altitude # NoData
                => \/ quiet[a] = Interval
                   \/ visit.changed
                   \/ visit.force_send]_vars
  <2>1. SUFFICES ASSUME ThrottleInv, [Next]_vars, NEW n \in Nodes, NEW a \in Aircraft,
                        packet'[n] # packet[n], packet'[n].addr = a,
                        packet'[n].altitude # NoData
                 PROVE  quiet[a] = Interval \/ visit.changed \/ visit.force_send
    OBVIOUS
  <2>2. visit.of = a /\ visit.field = "altitude" /\ visit.at = "copy"
    BY <2>1, OnlyDueAltitudes
  <2>3. QED BY <2>1, <2>2 DEF ThrottleInv, Reasoned
<1>2. QED BY <1>1, ThrottleInductive, PTL DEF Spec, AltitudeThrottled

-------------------------------------------------------------------------------
(* Where the packets are                                                      *)

\* Who holds which mutex, and where each thread can be.
Mutexes ==
    /\ pc \in [Threads -> {"sleep", "lock", "walk", "push", "clear", "send"}]
    /\ pc["prepare"] \in {"sleep", "lock", "walk"}
    /\ pc["uat"] \in {"sleep", "push"}
    /\ pc["send"] \in {"sleep", "clear", "send"}
    /\ pc["anrb"] \in {"sleep", "clear", "send"}
    /\ m_copy \in Threads \cup {"none"} /\ m_copy2 \in Threads \cup {"none"}
    /\ m_copy = "prepare" <=> pc["prepare"] # "sleep"
    /\ m_copy2 = "prepare" <=> pc["prepare"] = "walk"
    /\ m_copy = "uat" <=> pc["uat"] = "push"
    /\ m_copy = "send" <=> pc["send"] = "clear"
    /\ m_copy2 = "anrb" <=> pc["anrb"] = "clear"

\* The lists are lists of nodes; a thread has one in its hands only while it works on
\* it, and the UAT receiver's new node is still to be put before flist.
ListsHeld ==
    /\ flist \in Seq(Nodes) /\ flist2 \in Seq(Nodes)
    /\ local \in Seq(Nodes) /\ local2 \in Seq(Nodes)
    /\ uat.next \in Seq(Nodes) /\ uat.node \in Nodes \cup {0}
    /\ pc["send"] = "sleep" => local = <<>>
    /\ pc["anrb"] = "sleep" => local2 = <<>>
    /\ pc["uat"] = "push" => uat.node \in Nodes /\ uat.next = flist
    /\ pc["uat"] = "sleep" => uat = NoUat

Lists == <<OnFlist, OnFlist2, local, local2, UatNode>>

Once(s) == \A i, j \in DOMAIN s : s[i] = s[j] => i = j

\* Of five lists none has a node twice, no two share one, and what is on none is free.
ConservedIn(L, free) ==
    /\ \A k \in 1 .. 5 : L[k] \in Seq(Nodes) /\ Once(L[k])
    /\ \A k, l \in 1 .. 5 : k # l => Range(L[k]) \cap Range(L[l]) = {}
    /\ \A n \in Nodes : n \in free <=> \A k \in 1 .. 5 : n \notin Range(L[k])

\* NodeConservation list by list.
Conserved == ConservedIn(Lists, FreeNodes)

\* prepareData has the memory for the aircraft it has still to visit; the one it is
\* visiting is among them.
Enough ==
    /\ todo \subseteq Aircraft
    /\ visit # NoVisit => visit.of \in todo /\ pc["prepare"] = "walk"
    /\ pc["prepare"] = "lock" => RoundFits
    /\ pc["prepare"] = "walk" => Cardinality(FreeNodes) >= 2 * Cardinality(todo)

CirculationInv == ThrottleType /\ Mutexes /\ ListsHeld /\ Conserved /\ Enough

\* A step of an aircraft's visit.
VisitStep(a) == Visit(a) \/ TestField(a) \/ EmitField(a) \/ CopyField(a)

\* It moves nothing, or it ends the visit and reports the aircraft; the visit goes on,
\* or the aircraft has been visited.
LEMMA VisitSteps ==
    ASSUME CirculationInv, NEW a \in Aircraft, VisitStep(a)
    PROVE  /\ pc["prepare"] = "walk" /\ a \in todo
           /\ UNCHANGED <<m_copy, m_copy2, local, local2, uat, pc, inited, server>>
           /\ \/ \E copied : Report(a, copied) /\ visit' = NoVisit
              \/ UNCHANGED <<packet, flist, flist2>>
           /\ \/ todo' = todo \ {a} /\ visit' = NoVisit
              \/ todo' = todo /\ visit'.of = a
<1>1. ASSUME visit.of = a PROVE pc["prepare"] = "walk" /\ a \in todo
  BY <1>1, Nobody DEF CirculationInv, Enough
<1>2. visit \in Visits
  BY DEF CirculationInv, ThrottleType
<1>3. CASE Visit(a)
  <2>1. visit'.of = a
    BY <1>3, VisitBegins DEF Visit
  <2>2. QED BY <1>3, <2>1 DEF Visit, lists
<1>4. ASSUME NEW copied, GoOn(a, copied), visit.of = a
      PROVE  /\ \/ Report(a, copied) /\ visit' = NoVisit
                \/ UNCHANGED <<packet, flist, flist2>>
             /\ \/ todo' = todo \ {a} /\ visit' = NoVisit
                \/ todo' = todo /\ visit'.of = a
  BY <1>2, <1>4 DEF GoOn, Send, Visits
<1>5. CASE TestField(a)
  <2>1. /\ visit.of = a
        /\ UNCHANGED <<m_copy, m_copy2, local, local2, uat, pc, inited, server>>
    BY <1>5 DEF TestField, Visiting
  <2>2. CASE GoOn(a, visit.copied)
    BY <1>1, <1>4, <2>1, <2>2
  <2>3. CASE /\ visit' = [visit EXCEPT !.at = "emit"]
             /\ UNCHANGED <<packet, flist, flist2, reported, quiet, todo>>
    BY <1>1, <1>2, <2>1, <2>3 DEF Visits
  <2>4. QED BY <1>5, <2>2, <2>3 DEF TestField
<1>6. CASE EmitField(a)
  <2>1. /\ visit.of = a
        /\ UNCHANGED <<m_copy, m_copy2, local, local2, uat, pc, inited, server>>
        /\ UNCHANGED <<packet, flist, flist2, todo>>
    BY <1>6 DEF EmitField, Visiting
  <2>2. visit'.of = a
    BY <1>2, <1>6, <2>1 DEF EmitField, Visits
  <2>3. QED BY <1>1, <2>1, <2>2
<1>7. CASE CopyField(a)
  <2>1. /\ visit.of = a
        /\ UNCHANGED <<m_copy, m_copy2, local, local2, uat, pc, inited, server>>
        /\ GoOn(a, [visit.copied EXCEPT ![visit.field] = track[a].value[visit.field]])
    BY <1>7 DEF CopyField, Visiting
  <2>2. QED BY <1>1, <1>4, <2>1
<1>8. QED BY <1>3, <1>5, <1>6, <1>7 DEF VisitStep

\* The four threads are different.
LEMMA TheThreads ==
    /\ "prepare" \in Threads /\ "uat" \in Threads /\ "send" \in Threads /\ "anrb" \in Threads
BY DEF Threads

\* A thread that goes on leaves the others where they are.
LEMMA GoingOn ==
    ASSUME Mutexes, NEW t \in Threads,
           NEW where \in {"sleep", "lock", "walk", "push", "clear", "send"}, Goto(t, where)
    PROVE  /\ pc' \in [Threads -> {"sleep", "lock", "walk", "push", "clear", "send"}]
           /\ pc'[t] = where
           /\ \A u \in Threads : u # t => pc'[u] = pc[u]
BY DEF Mutexes, Goto

\* A mutex is taken by a thread that goes on to where it holds it, and given back when
\* the thread goes on from there.
LEMMA MutexesStep ==
    ASSUME CirculationInv, [Next]_vars
    PROVE  Mutexes'
<1>0. Mutexes
  BY DEF CirculationInv
<1> USE <1>0, TheThreads, GoingOn
<1>1. CASE PrepareLock
  BY <1>1 DEF PrepareLock, Mutexes
<1>2. CASE PrepareLock2
  BY <1>2 DEF PrepareLock2, Mutexes
<1>3. CASE PrepareUnlock
  BY <1>3 DEF PrepareUnlock, Mutexes
<1>4. CASE UatPush
  BY <1>4 DEF UatPush, Mutexes
<1>5. CASE UatPushed
  BY <1>5 DEF UatPushed, Mutexes
<1>6. CASE SendLock
  BY <1>6 DEF SendLock, Mutexes
<1>7. CASE SendClear
  <2>1. PICK where \in {"sleep", "send"} : Goto("send", where)
    BY <1>7 DEF SendClear
  <2>2. QED BY <1>7, <2>1 DEF SendClear, Mutexes
<1>8. CASE SendFlights
  BY <1>8 DEF SendFlights, Mutexes
<1>9. CASE AnrbLock
  BY <1>9 DEF AnrbLock, Mutexes
<1>10. CASE AnrbClear
  <2>1. PICK where \in {"sleep", "send"} : Goto("anrb", where)
    BY <1>10 DEF AnrbClear
  <2>2. QED BY <1>10, <2>1 DEF AnrbClear, Mutexes
<1>11. CASE AnrbSend
  BY <1>11 DEF AnrbSend, Mutexes
<1>12. CASE UNCHANGED <<m_copy, m_copy2, pc>>
  BY <1>12 DEF Mutexes
<1>13. CASE \E a \in Aircraft : VisitStep(a)
  BY <1>12, <1>13, VisitSteps
<1>14. QED
  BY <1>1, <1>2, <1>3, <1>4, <1>5, <1>6, <1>7, <1>8, <1>9, <1>10, <1>11, <1>12, <1>13
  DEF Next, PrepareNext, VisitStep, TrackChanges, TrackExpires, LinkChanges, Tick, vars, lists

-------------------------------------------------------------------------------
(* Memory                                                                     *)

\* A set of numbers that is not empty has a least one.
LEMMA LeastOf ==
    ASSUME NEW S \in SUBSET Nat, S # {}
    PROVE  \E m \in S : \A n \in S : m <= n
<1> DEFINE less == OpToRel(<, Nat)
<1>1. \A x, y \in Nat : x < y => <<x, y>> \in less
  BY DEF OpToRel
<1>2. IsWellFoundedOn(less, Nat)
  BY NatLessThanWellFounded
<1> HIDE DEF less
<1>3. PICK m \in S : \A n \in S : ~(<<n, m>> \in less)
  BY <1>2, WFMin
<1>4. ASSUME NEW n \in S PROVE m <= n
  <2>1. m \in Nat /\ n \in Nat
    OBVIOUS
  <2>2. ~(n < m)
    BY <1>1, <1>3, <2>1, Zenon
  <2>3. QED BY <2>1, <2>2
<1>5. QED BY <1>3, <1>4

\* So a set of nodes that is not empty has a first one.
LEMMA MinIsMember ==
    ASSUME NEW S \in SUBSET Nat, S # {}
    PROVE  Min(S) \in S
BY LeastOf DEF Min

\* A finite set of numbers that is not empty has a last one.
LEMMA MaxIsMember ==
    ASSUME NEW bound \in Nat, NEW S \in SUBSET (0 .. bound), S # {}
    PROVE  Max(S) \in S
<1> DEFINE T == {bound - x : x \in S}
<1>1. T \in SUBSET Nat /\ T # {}
  <2>1. \A x \in S : x \in 0 .. bound /\ bound - x \in Nat
    OBVIOUS
  <2>2. QED BY <2>1
<1>2. PICK m \in S : \A x \in S : bound - m <= bound - x
  <2>1. PICK t \in T : \A u \in T : t <= u
    BY <1>1, LeastOf
  <2>2. QED BY <2>1
<1>3. \A x \in S : m >= x
  BY <1>2
<1>4. QED BY <1>3 DEF Max

\* Memory for one packet, memory for two.
LEMMA FreeMemory ==
    /\ IsFiniteSet(FreeNodes) /\ Cardinality(FreeNodes) \in Nat
    /\ Cardinality(FreeNodes) >= 1 => FirstNode \in FreeNodes
    /\ Cardinality(FreeNodes) >= 2 => SecondNode \in FreeNodes \ {FirstNode}
<1>1. FreeNodes \subseteq Nodes /\ Nodes \subseteq Nat
  BY ReportsAssumption DEF FreeNodes
<1>2. IsFiniteSet(FreeNodes) /\ Cardinality(FreeNodes) \in Nat
  BY <1>1, ReportsAssumption, FS_Subset, FS_CardinalityType
<1>3. ASSUME Cardinality(FreeNodes) >= 1 PROVE FirstNode \in FreeNodes
  <2>1. FreeNodes # {}
    BY <1>3, FS_EmptySet
  <2>2. QED BY <1>1, <2>1, MinIsMember DEF FirstNode
<1>4. ASSUME Cardinality(FreeNodes) >= 2 PROVE SecondNode \in FreeNodes \ {FirstNode}
  <2>1. IsFiniteSet(FreeNodes \ {FirstNode}) /\ Cardinality(FreeNodes \ {FirstNode}) >= 1
    BY <1>2, <1>4, FS_RemoveElement
  <2>2. FreeNodes \ {FirstNode} # {}
    BY <2>1, FS_EmptySet
  <2>3. QED BY <1>1, <2>2, MinIsMember DEF SecondNode
<1>5. QED BY <1>2, <1>3, <1>4

\* A round of prepareData has memory for the aircraft it comes to.
LEMMA RoomForReport ==
    ASSUME CirculationInv, NEW a \in todo, pc["prepare"] = "walk"
    PROVE  /\ FirstNode \in FreeNodes /\ SecondNode \in FreeNodes \ {FirstNode}
           /\ IsFiniteSet(todo) /\ Cardinality(todo) \in Nat \ {0}
<1>1. IsFiniteSet(todo) /\ Cardinality(todo) \in Nat
  BY ReportsAssumption, FS_Subset, FS_CardinalityType DEF CirculationInv, Enough
<1>2. Cardinality(todo) # 0
  BY <1>1, FS_EmptySet
<1>3. Cardinality(FreeNodes) >= 2 * Cardinality(todo)
  BY DEF CirculationInv, Enough
<1>4. Cardinality(FreeNodes) >= 2
  BY <1>1, <1>2, <1>3, FreeMemory
<1>5. QED BY <1>1, <1>2, <1>4, FreeMemory

\* And so has the UAT receiver.
LEMMA RoomForUat ==
    ASSUME UatPush
    PROVE  FirstNode \in FreeNodes
<1>1. Cardinality(FreeNodes) > 2 * Cardinality(Aircraft)
  BY DEF UatPush
<1>2. Cardinality(Aircraft) \in Nat
  BY ReportsAssumption, FS_CardinalityType
<1>3. QED BY <1>1, <1>2, FreeMemory

\* Two packets are allocated for a report, and none is the free one.
LEMMA ReportAllocates ==
    ASSUME ThrottleType, NEW a \in Aircraft, NEW copied, Report(a, copied),
           FirstNode \in FreeNodes, SecondNode \in FreeNodes \ {FirstNode}
    PROVE  FreeNodes' = (FreeNodes \ {FirstNode}) \ {SecondNode}
<1>1. packet \in [Nodes -> Packet] /\ a # "freed"
  BY ReportsAssumption DEF ThrottleType
<1>2. PICK alt : packet' = [packet EXCEPT ![FirstNode] = [addr |-> a, altitude |-> alt],
                                          ![SecondNode] = [addr |-> a, altitude |-> NoData]]
  BY DEF Report
<1>3. \A x : [addr |-> a, altitude |-> x] # Freed
  BY <1>1 DEF Freed
<1>4. ASSUME NEW n \in Nodes
      PROVE  packet'[n] = Freed <=> packet[n] = Freed /\ n # FirstNode /\ n # SecondNode
  BY <1>1, <1>2, <1>3
<1>5. QED BY <1>4 DEF FreeNodes

\* One is allocated for a message of the UAT receiver.
LEMMA UatAllocates ==
    ASSUME ThrottleType, UatPush
    PROVE  FreeNodes' = FreeNodes \ {FirstNode}
<1>1. packet \in [Nodes -> Packet]
  BY DEF ThrottleType
<1>2. [addr |-> "uat", altitude |-> NoData] # Freed
  BY DEF Freed
<1>3. ASSUME NEW n \in Nodes
      PROVE  packet'[n] = Freed <=> packet[n] = Freed /\ n # FirstNode
  BY <1>1, <1>2, <1>3 DEF UatPush
<1>4. QED BY <1>3 DEF FreeNodes

\* A sender frees what is on its list.
LEMMA FreeListFrees ==
    ASSUME NEW list \in Seq(Nodes), FreeList(list)
    PROVE  FreeNodes' = FreeNodes \cup Range(list)
<1>1. Range(list) \subseteq Nodes
  BY DEF Range
<1>2. ASSUME NEW n \in Nodes
      PROVE  packet'[n] = Freed <=> packet[n] = Freed \/ n \in Range(list)
  BY DEF FreeList
<1>3. QED BY <1>1, <1>2 DEF FreeNodes

-------------------------------------------------------------------------------
(* Moving nodes between five lists                                            *)

\* A node put before a list.
LEMMA Pushed ==
    ASSUME NEW n \in Nodes, NEW s \in Seq(Nodes)
    PROVE  /\ <<n>> \o s \in Seq(Nodes)
           /\ Range(<<n>> \o s) = {n} \cup Range(s)
           /\ Once(s) /\ n \notin Range(s) => Once(<<n>> \o s)
<1> DEFINE t == <<n>> \o s
<1>1. t \in Seq(Nodes) /\ Len(t) = Len(s) + 1 /\ t[1] = n
  OBVIOUS
<1>2. \A i \in 1 .. Len(s) : t[i + 1] = s[i]
  OBVIOUS
<1>3. \A i \in 1 .. Len(t) : i = 1 \/ (i - 1 \in 1 .. Len(s) /\ t[i] = s[i - 1])
  BY <1>1
<1>4. DOMAIN t = 1 .. Len(t) /\ DOMAIN s = 1 .. Len(s) /\ Len(s) \in Nat
  BY <1>1
<1> HIDE DEF t
<1>5. Range(t) = {n} \cup Range(s)
  <2>1. Range(t) \subseteq {n} \cup Range(s)
    <3>1. \A i \in DOMAIN t : t[i] = n \/ \E j \in DOMAIN s : t[i] = s[j]
      BY <1>1, <1>3, <1>4
    <3>2. QED BY <3>1, Zenon DEF Range
  <2>2. n \in Range(t)
    <3>1. 1 \in DOMAIN t
      BY <1>1, <1>4
    <3>2. QED BY <1>1, <3>1 DEF Range
  <2>3. Range(s) \subseteq Range(t)
    <3>1. \A i \in DOMAIN s : i + 1 \in DOMAIN t /\ t[i + 1] = s[i]
      BY <1>1, <1>2, <1>4
    <3>2. QED BY <3>1 DEF Range
  <2>4. QED BY <2>1, <2>2, <2>3
<1>6. ASSUME Once(s), n \notin Range(s) PROVE Once(t)
  <2>1. \A i \in DOMAIN s : s[i] # n
    BY <1>6 DEF Range
  <2>2. ASSUME NEW i \in DOMAIN t, NEW j \in DOMAIN t, t[i] = t[j] PROVE i = j
    <3>1. CASE i = 1 /\ j = 1
      BY <3>1
    <3>2. CASE i = 1 /\ j # 1
      BY <1>1, <1>3, <1>4, <2>1, <2>2, <3>2
    <3>3. CASE i # 1 /\ j = 1
      BY <1>1, <1>3, <1>4, <2>1, <2>2, <3>3
    <3>4. CASE i # 1 /\ j # 1
      <4>1. i - 1 = j - 1
        BY <1>3, <1>4, <1>6, <2>2, <3>4 DEF Once
      <4>2. QED BY <1>4, <4>1
    <3>5. QED BY <3>1, <3>2, <3>3, <3>4
  <2>3. QED BY <2>2 DEF Once
<1>7. QED BY <1>1, <1>5, <1>6 DEF t

\* An empty list holds nothing, nothing twice.
LEMMA EmptyList == <<>> \in Seq(Nodes) /\ Once(<<>>) /\ Range(<<>>) = {}
BY DEF Once, Range

\* A free node is put on a list.
LEMMA ConservedPush ==
    ASSUME NEW L, NEW M, NEW free, ConservedIn(L, free), NEW i \in 1 .. 5, NEW n \in Nodes,
           n \in free, M[i] = <<n>> \o L[i], \A k \in 1 .. 5 : k # i => M[k] = L[k]
    PROVE  ConservedIn(M, free \ {n})
<1>1. n \notin Range(L[i]) /\ \A k \in 1 .. 5 : n \notin Range(L[k])
  BY DEF ConservedIn
<1>2. M[i] \in Seq(Nodes) /\ Once(M[i]) /\ Range(M[i]) = {n} \cup Range(L[i])
  BY <1>1, Pushed DEF ConservedIn
<1>3. \A k \in 1 .. 5 : M[k] \in Seq(Nodes) /\ Once(M[k])
  BY <1>2 DEF ConservedIn
<1>4. \A k \in 1 .. 5 : Range(M[k]) = IF k = i THEN {n} \cup Range(L[k]) ELSE Range(L[k])
  BY <1>2
<1>5. \A k, l \in 1 .. 5 : k # l => Range(M[k]) \cap Range(M[l]) = {}
  BY <1>1, <1>4 DEF ConservedIn
<1>6. \A x \in Nodes : x \in free \ {n} <=> \A k \in 1 .. 5 : x \notin Range(M[k])
  BY <1>4 DEF ConservedIn
<1>7. QED BY <1>3, <1>5, <1>6 DEF ConservedIn

\* A list is taken by a thread whose hands are empty.
LEMMA ConservedMove ==
    ASSUME NEW L, NEW M, NEW free, ConservedIn(L, free), NEW i \in 1 .. 5, NEW j \in 1 .. 5, i # j,
           L[j] = <<>>, M[j] = L[i], M[i] = <<>>,
           \A k \in 1 .. 5 : k # i /\ k # j => M[k] = L[k]
    PROVE  ConservedIn(M, free)
<1>1. Range(L[j]) = {} /\ Range(M[i]) = {} /\ Range(M[j]) = Range(L[i])
  BY EmptyList
<1>2. \A k \in 1 .. 5 : M[k] \in Seq(Nodes) /\ Once(M[k])
  BY EmptyList DEF ConservedIn
<1>3. \A k \in 1 .. 5 : k # i /\ k # j => Range(M[k]) = Range(L[k])
  OBVIOUS
<1>4. QED BY <1>1, <1>2, <1>3 DEF ConservedIn

\* A node in hand is put before another list.
LEMMA ConservedPut ==
    ASSUME NEW L, NEW M, NEW free, ConservedIn(L, free), NEW i \in 1 .. 5, NEW j \in 1 .. 5, i # j,
           NEW n \in Nodes, L[j] = <<n>>, M[j] = <<>>, M[i] = <<n>> \o L[i],
           \A k \in 1 .. 5 : k # i /\ k # j => M[k] = L[k]
    PROVE  ConservedIn(M, free)
<1>1. Range(L[j]) = {n} /\ Range(M[j]) = {}
  BY EmptyList DEF Range
<1>2. n \notin Range(L[i])
  BY <1>1 DEF ConservedIn
<1>3. M[i] \in Seq(Nodes) /\ Once(M[i]) /\ Range(M[i]) = {n} \cup Range(L[i])
  BY <1>2, Pushed DEF ConservedIn
<1>4. \A k \in 1 .. 5 : M[k] \in Seq(Nodes) /\ Once(M[k])
  BY <1>3, EmptyList DEF ConservedIn
<1>5. \A k \in 1 .. 5 : k # i /\ k # j => Range(M[k]) = Range(L[k])
  OBVIOUS
<1>a. /\ Range(M[i]) = {n} \cup Range(L[i])
      /\ \A k \in 1 .. 5 : k # j => n \notin Range(L[k])
      /\ \A k, l \in 1 .. 5 : k # l => Range(L[k]) \cap Range(L[l]) = {}
  BY <1>1, <1>3 DEF ConservedIn
<1>6. \A k, l \in 1 .. 5 : k # l => Range(M[k]) \cap Range(M[l]) = {}
  <2>1. SUFFICES ASSUME NEW k \in 1 .. 5, NEW l \in 1 .. 5, k # l, NEW x, x \in Range(M[k]), x \in Range(M[l])
                 PROVE  FALSE
    OBVIOUS
  <2>2. k # j /\ l # j
    BY <1>1, <2>1
  <2>3. (x = n \/ x \in Range(L[k])) /\ (x = n \/ x \in Range(L[l])) /\ (k # i => x \in Range(L[k])) /\ (l # i => x \in Range(L[l]))
    BY <1>5, <1>a, <2>1, <2>2
  <2>4. QED BY <1>a, <2>1, <2>2, <2>3
<1>7. \A x \in Nodes : x \in free <=> \A k \in 1 .. 5 : x \notin Range(M[k])
  BY <1>1, <1>3, <1>5 DEF ConservedIn
<1>8. QED BY <1>4, <1>6, <1>7 DEF ConservedIn

\* The packets of a list are freed.
LEMMA ConservedFree ==
    ASSUME NEW L, NEW M, NEW free, ConservedIn(L, free), NEW i \in 1 .. 5,
           M[i] = <<>>, \A k \in 1 .. 5 : k # i => M[k] = L[k]
    PROVE  ConservedIn(M, free \cup Range(L[i]))
<1>1. \A k \in 1 .. 5 : M[k] \in Seq(Nodes) /\ Once(M[k])
  BY EmptyList DEF ConservedIn
<1>2. Range(M[i]) = {} /\ \A k \in 1 .. 5 : k # i => Range(M[k]) = Range(L[k])
  BY EmptyList
<1>3. QED BY <1>1, <1>2 DEF ConservedIn

\* Nothing is moved.
LEMMA ConservedStays ==
    ASSUME NEW L, NEW M, NEW free, ConservedIn(L, free), \A k \in 1 .. 5 : M[k] = L[k]
    PROVE  ConservedIn(M, free)
BY DEF ConservedIn

-------------------------------------------------------------------------------
(* Every step moves nodes in one of these ways                                *)

\* The five lists.
LEMMA TheLists ==
    /\ Lists[1] = OnFlist /\ Lists[2] = OnFlist2 /\ Lists[3] = local /\ Lists[4] = local2
    /\ Lists[5] = UatNode
    /\ Lists'[1] = OnFlist' /\ Lists'[2] = OnFlist2' /\ Lists'[3] = local' /\ Lists'[4] = local2'
    /\ Lists'[5] = UatNode'
BY DEF Lists

\* A list is as it was if it is not touched while a sender has copied its head.
LEMMA ListStays ==
    /\ flist' = flist /\ (pc'["send"] = "clear" <=> pc["send"] = "clear") => OnFlist' = OnFlist
    /\ flist2' = flist2 /\ (pc'["anrb"] = "clear" <=> pc["anrb"] = "clear") => OnFlist2' = OnFlist2
    /\ uat' = uat => UatNode' = UatNode
BY DEF OnFlist, OnFlist2, UatNode

\* prepareData puts a packet on each list, which no sender works on.
LEMMA ConservedPrepare ==
    ASSUME CirculationInv, NEW a \in Aircraft, VisitStep(a)
    PROVE  Conserved'
<1> USE TheLists
<1>1. pc["prepare"] = "walk" /\ a \in todo /\ pc' = pc /\ UNCHANGED <<local, local2, uat>>
  BY VisitSteps
<1>2. pc["send"] # "clear" /\ pc["anrb"] # "clear"
  BY <1>1 DEF CirculationInv, Mutexes
<1>3. OnFlist = flist /\ OnFlist' = flist' /\ OnFlist2 = flist2 /\ OnFlist2' = flist2' /\ UatNode' = UatNode
  BY <1>1, <1>2, ListStays DEF OnFlist, OnFlist2
<1>4. ASSUME NEW copied, Report(a, copied) PROVE Conserved'
  <2>1. FirstNode \in FreeNodes /\ SecondNode \in FreeNodes \ {FirstNode} /\ FreeNodes \subseteq Nodes
    BY <1>1, RoomForReport DEF FreeNodes
  <2>2. FreeNodes' = (FreeNodes \ {FirstNode}) \ {SecondNode}
    BY <1>4, <2>1, ReportAllocates DEF CirculationInv
  <2>3. flist' = <<FirstNode>> \o flist /\ flist2' = <<SecondNode>> \o flist2
    BY <1>4 DEF Report
  <2> DEFINE Half == [k \in 1 .. 5 |-> IF k = 1 THEN <<FirstNode>> \o flist ELSE Lists[k]]
  <2>4. Half[1] = <<FirstNode>> \o Lists[1] /\ \A k \in 1 .. 5 : k # 1 => Half[k] = Lists[k]
    BY <1>3
  <2>5. Half[1] = Lists'[1] /\ Half[2] = Lists[2]
    BY <1>3, <2>3
  <2> HIDE DEF Half
  <2>a. 1 \in 1 .. 5 /\ 2 \in 1 .. 5 /\ FirstNode \in Nodes /\ SecondNode \in Nodes
    BY <2>1
  <2>6. ConservedIn(Half, FreeNodes \ {FirstNode})
    <3>1. ConservedIn(Lists, FreeNodes)
      BY DEF CirculationInv, Conserved
    <3>2. QED BY <2>1, <2>a, <2>4, <3>1, ConservedPush
  <2>7. Lists'[2] = <<SecondNode>> \o Half[2]
    BY <1>3, <2>3, <2>5
  <2>b. \A k \in 1 .. 5 : k # 2 => Lists'[k] = Half[k]
    <3>1. Lists'[3] = Lists[3] /\ Lists'[4] = Lists[4] /\ Lists'[5] = Lists[5]
      BY <1>1, <1>3
    <3>2. QED BY <2>4, <2>5, <3>1
  <2>8. ConservedIn(Lists', (FreeNodes \ {FirstNode}) \ {SecondNode})
    BY <2>1, <2>a, <2>6, <2>7, <2>b, ConservedPush
  <2>9. QED BY <2>2, <2>8 DEF Conserved
<1>5. CASE UNCHANGED <<packet, flist, flist2>>
  <2>1. FreeNodes' = FreeNodes /\ \A k \in 1 .. 5 : Lists'[k] = Lists[k]
    BY <1>1, <1>3, <1>5 DEF FreeNodes
  <2>2. QED BY <2>1, ConservedStays DEF CirculationInv, Conserved
<1>6. QED BY <1>4, <1>5, VisitSteps

\* The UAT receiver allocates a node, and puts it before flist while nobody else can.
LEMMA ConservedUat ==
    ASSUME CirculationInv, UatPush \/ UatPushed
    PROVE  Conserved'
<1> USE TheLists
<1>1. CASE UatPush
  <2>1. pc' = [pc EXCEPT !["uat"] = "push"] /\ UNCHANGED <<flist, flist2, local, local2>>
    BY <1>1 DEF UatPush, Goto
  <2>2. pc'["send"] = pc["send"] /\ pc'["anrb"] = pc["anrb"]
    BY <2>1, TheThreads DEF CirculationInv, Mutexes
  <2>3. FirstNode \in FreeNodes /\ FirstNode \in Nodes /\ FirstNode # 0
    BY <1>1, RoomForUat, ReportsAssumption DEF FreeNodes
  <2>4. UatNode = <<>> /\ UatNode' = <<FirstNode>>
    <3>1. uat = NoUat
      BY <1>1 DEF UatPush, CirculationInv, ListsHeld
    <3>2. uat'.node = FirstNode
      BY <1>1 DEF UatPush
    <3>3. uat' # NoUat
      BY <2>3, <3>2 DEF NoUat
    <3>4. QED BY <3>1, <3>2, <3>3 DEF UatNode
  <2>5. <<FirstNode>> = <<FirstNode>> \o <<>>
    BY <2>3
  <2>6. /\ Lists'[5] = <<FirstNode>> \o Lists[5]
        /\ \A k \in 1 .. 5 : k # 5 => Lists'[k] = Lists[k]
    BY <2>1, <2>2, <2>4, <2>5, ListStays
  <2>7. ConservedIn(Lists', FreeNodes \ {FirstNode})
    <3>1. ConservedIn(Lists, FreeNodes) /\ 5 \in 1 .. 5
      BY DEF CirculationInv, Conserved
    <3>2. QED BY <2>3, <2>6, <3>1, ConservedPush
  <2>8. QED BY <1>1, <2>7, UatAllocates DEF CirculationInv, Conserved
<1>2. CASE UatPushed
  <2>1. pc["uat"] = "push" /\ pc' = [pc EXCEPT !["uat"] = "sleep"] /\ UNCHANGED <<flist2, local, local2, packet>>
    BY <1>2 DEF UatPushed, Goto
  <2>2. pc["send"] # "clear" /\ pc'["send"] # "clear" /\ pc'["anrb"] = pc["anrb"]
    BY <2>1, TheThreads DEF CirculationInv, Mutexes
  <2>3. uat.node \in Nodes /\ uat.next = flist /\ uat.node # 0
    BY <2>1, ReportsAssumption DEF CirculationInv, ListsHeld
  <2>4. UatNode = <<uat.node>> /\ UatNode' = <<>>
    BY <1>2, <2>3 DEF UatPushed, UatNode, NoUat
  <2>5. OnFlist' = <<uat.node>> \o OnFlist
    BY <1>2, <2>2, <2>3 DEF UatPushed, OnFlist
  <2>6. OnFlist2' = OnFlist2
    BY <2>1, <2>2, ListStays
  <2>7. FreeNodes' = FreeNodes
    BY <2>1 DEF FreeNodes
  <2>8. ConservedIn(Lists', FreeNodes)
    <3>1. \A k \in 1 .. 5 : k # 1 /\ k # 5 => Lists'[k] = Lists[k]
      BY <2>1, <2>6
    <3>2. 1 \in 1 .. 5 /\ 5 \in 1 .. 5 /\ 1 # 5
      OBVIOUS
    <3>3. ConservedIn(Lists, FreeNodes)
      BY DEF CirculationInv, Conserved
    <3>4. Lists[5] = <<uat.node>> /\ Lists'[5] = <<>> /\ Lists'[1] = <<uat.node>> \o Lists[1]
      BY <2>4, <2>5
    <3>5. QED BY <2>3, <3>1, <3>2, <3>3, <3>4, ConservedPut
  <2>9. QED BY <2>7, <2>8 DEF Conserved
<1>3. QED BY <1>1, <1>2

\* threadSendData takes flist, clears it and frees the packets.
LEMMA ConservedSend ==
    ASSUME CirculationInv, SendLock \/ SendClear \/ SendFlights
    PROVE  Conserved'
<1> USE TheLists, TheThreads
<1>0. UNCHANGED <<flist2, local2, uat>> /\ pc'["anrb"] = pc["anrb"]
  BY DEF SendLock, SendClear, SendFlights, Goto, CirculationInv, Mutexes
<1>a. OnFlist2' = OnFlist2 /\ UatNode' = UatNode
  BY <1>0, ListStays
<1>b. 1 \in 1 .. 5 /\ 3 \in 1 .. 5
  OBVIOUS
<1>1. CASE SendLock
  <2>1. pc["send"] = "sleep" /\ pc'["send"] = "clear" /\ local' = flist /\ packet' = packet
    BY <1>1 DEF SendLock, Goto, CirculationInv, Mutexes
  <2>2. local = <<>> /\ OnFlist = flist /\ OnFlist' = <<>>
    BY <2>1 DEF CirculationInv, ListsHeld, OnFlist
  <2>3. \A k \in 1 .. 5 : k # 1 /\ k # 3 => Lists'[k] = Lists[k]
    BY <1>0, <1>a
  <2>4. ConservedIn(Lists', FreeNodes)
    BY <1>b, <2>1, <2>2, <2>3, ConservedMove DEF CirculationInv, Conserved
  <2>5. FreeNodes' = FreeNodes
    BY <2>1 DEF FreeNodes
  <2>6. QED BY <2>4, <2>5 DEF Conserved
<1>2. CASE SendClear
  <2>1. pc["send"] = "clear" /\ pc'["send"] # "clear" /\ flist' = <<>> /\ UNCHANGED <<local, packet>>
    BY <1>2 DEF SendClear, Goto, CirculationInv, Mutexes
  <2>2. OnFlist = <<>> /\ OnFlist' = <<>>
    BY <2>1 DEF OnFlist
  <2>3. FreeNodes' = FreeNodes /\ \A k \in 1 .. 5 : Lists'[k] = Lists[k]
    BY <1>0, <1>a, <2>1, <2>2 DEF FreeNodes
  <2>4. QED BY <2>3, ConservedStays DEF CirculationInv, Conserved
<1>3. CASE SendFlights
  <2>1. pc["send"] = "send" /\ pc'["send"] = "sleep" /\ local' = <<>> /\ flist' = flist /\ FreeList(local)
    BY <1>3 DEF SendFlights, Goto, CirculationInv, Mutexes
  <2>2. OnFlist' = OnFlist
    BY <2>1, ListStays
  <2>3. FreeNodes' = FreeNodes \cup Range(Lists[3])
    BY <2>1, FreeListFrees DEF CirculationInv, ListsHeld
  <2>4. \A k \in 1 .. 5 : k # 3 => Lists'[k] = Lists[k]
    BY <1>0, <1>a, <2>2
  <2>5. ConservedIn(Lists', FreeNodes \cup Range(Lists[3]))
    BY <1>b, <2>1, <2>4, ConservedFree DEF CirculationInv, Conserved
  <2>6. QED BY <2>3, <2>5 DEF Conserved
<1>4. QED BY <1>1, <1>2, <1>3

\* The ANRB sender does the same with flist2.
LEMMA ConservedAnrb ==
    ASSUME CirculationInv, AnrbLock \/ AnrbClear \/ AnrbSend
    PROVE  Conserved'
<1> USE TheLists, TheThreads
<1>0. UNCHANGED <<flist, local, uat>> /\ pc'["send"] = pc["send"]
  BY DEF AnrbLock, AnrbClear, AnrbSend, Goto, CirculationInv, Mutexes
<1>a. OnFlist' = OnFlist /\ UatNode' = UatNode
  BY <1>0, ListStays
<1>b. 2 \in 1 .. 5 /\ 4 \in 1 .. 5
  OBVIOUS
<1>1. CASE AnrbLock
  <2>1. pc["anrb"] = "sleep" /\ pc'["anrb"] = "clear" /\ local2' = flist2 /\ packet' = packet
    BY <1>1 DEF AnrbLock, Goto, CirculationInv, Mutexes
  <2>2. local2 = <<>> /\ OnFlist2 = flist2 /\ OnFlist2' = <<>>
    BY <2>1 DEF CirculationInv, ListsHeld, OnFlist2
  <2>3. \A k \in 1 .. 5 : k # 2 /\ k # 4 => Lists'[k] = Lists[k]
    BY <1>0, <1>a
  <2>4. ConservedIn(Lists', FreeNodes)
    BY <1>b, <2>1, <2>2, <2>3, ConservedMove DEF CirculationInv, Conserved
  <2>5. FreeNodes' = FreeNodes
    BY <2>1 DEF FreeNodes
  <2>6. QED BY <2>4, <2>5 DEF Conserved
<1>2. CASE AnrbClear
  <2>1. pc["anrb"] = "clear" /\ pc'["anrb"] # "clear" /\ flist2' = <<>> /\ UNCHANGED <<local2, packet>>
    BY <1>2 DEF AnrbClear, Goto, CirculationInv, Mutexes
  <2>2. OnFlist2 = <<>> /\ OnFlist2' = <<>>
    BY <2>1 DEF OnFlist2
  <2>3. FreeNodes' = FreeNodes /\ \A k \in 1 .. 5 : Lists'[k] = Lists[k]
    BY <1>0, <1>a, <2>1, <2>2 DEF FreeNodes
  <2>4. QED BY <2>3, ConservedStays DEF CirculationInv, Conserved
<1>3. CASE AnrbSend
  <2>1. pc["anrb"] = "send" /\ pc'["anrb"] = "sleep" /\ local2' = <<>> /\ flist2' = flist2 /\ FreeList(local2)
    BY <1>3 DEF AnrbSend, Goto, CirculationInv, Mutexes
  <2>2. OnFlist2' = OnFlist2
    BY <2>1, ListStays
  <2>3. FreeNodes' = FreeNodes \cup Range(Lists[4])
    BY <2>1, FreeListFrees DEF CirculationInv, ListsHeld
  <2>4. \A k \in 1 .. 5 : k # 4 => Lists'[k] = Lists[k]
    BY <1>0, <1>a, <2>2
  <2>5. ConservedIn(Lists', FreeNodes \cup Range(Lists[4]))
    BY <1>b, <2>1, <2>4, ConservedFree DEF CirculationInv, Conserved
  <2>6. QED BY <2>3, <2>5 DEF Conserved
<1>4. QED BY <1>1, <1>2, <1>3

\* Every step, stuttering included.
LEMMA ConservedStep ==
    ASSUME CirculationInv, [Next]_vars
    PROVE  Conserved'
<1>1. CASE PrepareLock \/ PrepareLock2 \/ PrepareUnlock
  <2>1. UNCHANGED <<flist, flist2, packet, local, local2, uat>>
    BY <1>1 DEF PrepareLock, PrepareLock2, PrepareUnlock
  <2>2. pc'["send"] = pc["send"] /\ pc'["anrb"] = pc["anrb"]
    BY <1>1, TheThreads DEF PrepareLock, PrepareLock2, PrepareUnlock, Goto, CirculationInv, Mutexes
  <2>3. FreeNodes' = FreeNodes /\ \A k \in 1 .. 5 : Lists'[k] = Lists[k]
    BY <2>1, <2>2, ListStays, TheLists DEF FreeNodes
  <2>4. QED BY <2>3, ConservedStays DEF CirculationInv, Conserved
<1>2. CASE TrackChanges \/ TrackExpires \/ LinkChanges \/ Tick \/ UNCHANGED vars
  <2>1. UNCHANGED <<flist, flist2, packet, local, local2, uat, pc>>
    BY <1>2 DEF TrackChanges, TrackExpires, LinkChanges, Tick, lists, vars
  <2>2. FreeNodes' = FreeNodes /\ \A k \in 1 .. 5 : Lists'[k] = Lists[k]
    BY <2>1, ListStays, TheLists DEF FreeNodes
  <2>3. QED BY <2>2, ConservedStays DEF CirculationInv, Conserved
<1>3. QED
  BY <1>1, <1>2, ConservedPrepare, ConservedUat, ConservedSend, ConservedAnrb
  DEF Next, PrepareNext, VisitStep

\* What a thread has in its hands it puts down before it sleeps; flist does not change
\* while the UAT receiver holds it.
LEMMA ListsHeldStep ==
    ASSUME CirculationInv, [Next]_vars
    PROVE  ListsHeld'
<1> USE TheThreads DEF CirculationInv
<1>1. CASE PrepareLock \/ PrepareLock2 \/ PrepareUnlock
  <2>1. UNCHANGED <<flist, flist2, local, local2, uat>>
    BY <1>1 DEF PrepareLock, PrepareLock2, PrepareUnlock
  <2>2. pc'["send"] = pc["send"] /\ pc'["anrb"] = pc["anrb"] /\ pc'["uat"] = pc["uat"]
    BY <1>1 DEF PrepareLock, PrepareLock2, PrepareUnlock, Goto, Mutexes
  <2>3. QED BY <2>1, <2>2 DEF ListsHeld
<1>2. ASSUME NEW a \in Aircraft, VisitStep(a) PROVE ListsHeld'
  <2>1. pc["prepare"] = "walk" /\ pc["uat"] # "push" /\ a \in todo
    BY <1>2, VisitSteps DEF Mutexes
  <2>2. flist' \in Seq(Nodes) /\ flist2' \in Seq(Nodes)
    <3>1. ASSUME NEW copied, Report(a, copied)
          PROVE  flist' \in Seq(Nodes) /\ flist2' \in Seq(Nodes)
      <4>1. FirstNode \in Nodes /\ SecondNode \in Nodes
        BY <2>1, RoomForReport DEF FreeNodes
      <4>2. QED BY <3>1, <4>1, Pushed DEF Report, ListsHeld
    <3>2. CASE UNCHANGED <<flist, flist2>>
      BY <3>2 DEF ListsHeld
    <3>3. QED BY <1>2, <3>1, <3>2, VisitSteps
  <2>3. UNCHANGED <<local, local2, uat, pc>>
    BY <1>2, VisitSteps
  <2>4. QED BY <2>1, <2>2, <2>3 DEF ListsHeld
<1>3. CASE UatPush
  <2>1. FirstNode \in Nodes
    BY <1>3, RoomForUat DEF FreeNodes
  <2>2. pc'["uat"] = "push" /\ pc'["send"] = pc["send"] /\ pc'["anrb"] = pc["anrb"]
    BY <1>3 DEF UatPush, Goto, Mutexes
  <2>3. uat'.node = FirstNode /\ uat'.next = flist /\ UNCHANGED <<flist, flist2, local, local2>>
    BY <1>3 DEF UatPush
  <2>4. QED BY <2>1, <2>2, <2>3 DEF ListsHeld
<1>4. CASE UatPushed
  <2>1. pc'["uat"] = "sleep" /\ pc'["send"] = pc["send"] /\ pc'["anrb"] = pc["anrb"]
    BY <1>4 DEF UatPushed, Goto, Mutexes
  <2>2. flist' = <<uat.node>> \o flist /\ uat.node \in Nodes
    BY <1>4 DEF UatPushed, ListsHeld
  <2>3. flist' \in Seq(Nodes)
    BY <2>2, Pushed DEF ListsHeld
  <2>4. uat' = NoUat /\ UNCHANGED <<flist2, local, local2>>
    BY <1>4 DEF UatPushed
  <2>5. NoUat.node = 0 /\ NoUat.next = <<>>
    BY DEF NoUat
  <2>6. QED BY <2>1, <2>3, <2>4, <2>5, EmptyList DEF ListsHeld
<1>5. CASE SendLock \/ SendClear \/ SendFlights
  <2>1. pc["uat"] = "push" => flist' = flist
    BY <1>5 DEF SendLock, SendClear, SendFlights, Mutexes
  <2>2. flist' \in Seq(Nodes) /\ local' \in Seq(Nodes)
    BY <1>5, EmptyList DEF SendLock, SendClear, SendFlights, ListsHeld
  <2>3. pc'["send"] = "sleep" => local' = <<>>
    BY <1>5 DEF SendLock, SendClear, SendFlights, Goto, Mutexes
  <2>4. UNCHANGED <<flist2, local2, uat>> /\ pc'["anrb"] = pc["anrb"] /\ pc'["uat"] = pc["uat"]
    BY <1>5 DEF SendLock, SendClear, SendFlights, Goto, Mutexes
  <2>5. QED BY <2>1, <2>2, <2>3, <2>4 DEF ListsHeld
<1>6. CASE AnrbLock \/ AnrbClear \/ AnrbSend
  <2>1. flist2' \in Seq(Nodes) /\ local2' \in Seq(Nodes)
    BY <1>6, EmptyList DEF AnrbLock, AnrbClear, AnrbSend, ListsHeld
  <2>2. pc'["anrb"] = "sleep" => local2' = <<>>
    BY <1>6 DEF AnrbLock, AnrbClear, AnrbSend, Goto, Mutexes
  <2>3. UNCHANGED <<flist, local, uat>> /\ pc'["send"] = pc["send"] /\ pc'["uat"] = pc["uat"]
    BY <1>6 DEF AnrbLock, AnrbClear, AnrbSend, Goto, Mutexes
  <2>4. QED BY <2>1, <2>2, <2>3 DEF ListsHeld
<1>7. CASE TrackChanges \/ TrackExpires \/ LinkChanges \/ Tick \/ UNCHANGED vars
  <2>1. UNCHANGED <<flist, flist2, local, local2, uat, pc>>
    BY <1>7 DEF TrackChanges, TrackExpires, LinkChanges, Tick, lists, vars
  <2>2. QED BY <2>1 DEF ListsHeld
<1>8. QED BY <1>1, <1>2, <1>3, <1>4, <1>5, <1>6, <1>7
  DEF Next, PrepareNext, VisitStep

\* While prepareData has its round before it nobody else allocates; each aircraft it
\* visits takes at most two packets.
LEMMA EnoughStep ==
    ASSUME CirculationInv, [Next]_vars
    PROVE  Enough'
<1> USE TheThreads DEF CirculationInv
<1>0. Cardinality(FreeNodes) \in Nat /\ IsFiniteSet(FreeNodes)
  BY FreeMemory
<1>1. CASE PrepareLock
  <2>1. /\ RoundFits /\ FreeNodes' = FreeNodes /\ UNCHANGED round
        /\ pc["prepare"] = "sleep" /\ pc'["prepare"] = "lock"
    BY <1>1 DEF PrepareLock, FreeNodes, Goto, Mutexes
  <2>2. QED BY <2>1 DEF Enough, RoundFits, round
<1>2. CASE PrepareLock2
  <2>1. /\ FreeNodes' = FreeNodes /\ todo' = Aircraft /\ visit' = visit
        /\ pc["prepare"] = "lock" /\ pc'["prepare"] = "walk"
    BY <1>2 DEF PrepareLock2, FreeNodes, Goto, Mutexes
  <2>2. QED BY <2>1 DEF Enough, RoundFits
<1>3. ASSUME NEW a \in Aircraft, VisitStep(a) PROVE Enough'
  <2>1. a \in todo /\ pc["prepare"] = "walk" /\ pc' = pc
    BY <1>3, VisitSteps
  <2>2. /\ FirstNode \in FreeNodes /\ SecondNode \in FreeNodes \ {FirstNode}
        /\ IsFiniteSet(todo) /\ Cardinality(todo) \in Nat \ {0}
    BY <2>1, RoomForReport
  <2>3. Cardinality(todo \ {a}) = Cardinality(todo) - 1
    BY <2>1, <2>2, FS_RemoveElement
  <2>4. ASSUME NEW copied, Report(a, copied)
        PROVE  Cardinality(FreeNodes') = Cardinality(FreeNodes) - 2
    <3>1. FreeNodes' = (FreeNodes \ {FirstNode}) \ {SecondNode}
      BY <2>2, <2>4, ReportAllocates
    <3>2. /\ IsFiniteSet(FreeNodes \ {FirstNode})
          /\ Cardinality(FreeNodes \ {FirstNode}) = Cardinality(FreeNodes) - 1
      BY <1>0, <2>2, FS_RemoveElement
    <3>3. Cardinality((FreeNodes \ {FirstNode}) \ {SecondNode})
            = Cardinality(FreeNodes \ {FirstNode}) - 1
      BY <2>2, <3>2, FS_RemoveElement
    <3>4. QED BY <1>0, <3>1, <3>2, <3>3
  <2>5. Cardinality(FreeNodes) >= 2 * Cardinality(todo)
    BY <2>1 DEF Enough
  <2>6. Cardinality(FreeNodes') >= 2 * Cardinality(todo')
    <3>1. CASE \E copied : Report(a, copied) /\ visit' = NoVisit
      <4>1. todo' = todo \ {a}
        BY <1>3, <3>1, VisitSteps, Nobody
      <4>2. Cardinality(FreeNodes') = Cardinality(FreeNodes) - 2
        BY <2>4, <3>1
      <4>3. QED BY <1>0, <2>2, <2>3, <2>5, <4>1, <4>2
    <3>2. CASE packet' = packet
      <4>1. FreeNodes' = FreeNodes
        BY <3>2 DEF FreeNodes
      <4>2. todo' = todo \/ todo' = todo \ {a}
        BY <1>3, VisitSteps
      <4>3. CASE todo' = todo
        BY <2>5, <4>1, <4>3
      <4>4. CASE todo' = todo \ {a}
        BY <1>0, <2>2, <2>3, <2>5, <4>1, <4>4
      <4>5. QED BY <4>2, <4>3, <4>4
    <3>3. QED BY <1>3, <3>1, <3>2, VisitSteps
  <2>7. visit' # NoVisit => visit'.of \in todo'
    BY <1>3, <2>1, VisitSteps
  <2>8. todo' \subseteq Aircraft
    BY <1>3, VisitSteps DEF Enough
  <2>9. QED BY <2>1, <2>6, <2>7, <2>8 DEF Enough
<1>4. CASE PrepareUnlock
  <2>1. pc["prepare"] = "walk" /\ pc'["prepare"] = "sleep" /\ todo = {} /\ UNCHANGED round
    BY <1>4 DEF PrepareUnlock, Goto, Mutexes
  <2>2. QED BY <2>1 DEF Enough, round
<1>a. CASE UatPush
  <2>1. pc'["prepare"] = "sleep" /\ pc["prepare"] = "sleep" /\ UNCHANGED round
    BY <1>a DEF UatPush, Goto, Mutexes
  <2>2. QED BY <2>1 DEF Enough, round
<1>5. CASE SendFlights \/ AnrbSend
  <2>1. pc'["prepare"] = pc["prepare"] /\ UNCHANGED round
    BY <1>5 DEF SendFlights, AnrbSend, Goto, Mutexes
  <2>2. PICK list \in Seq(Nodes) : FreeList(list)
    BY <1>5 DEF SendFlights, AnrbSend, ListsHeld
  <2>3. FreeNodes \in SUBSET FreeNodes' /\ FreeNodes' \in SUBSET Nodes
    BY <2>2, FreeListFrees DEF FreeNodes
  <2>4. IsFiniteSet(FreeNodes')
    BY <2>3, ReportsAssumption, FS_Subset
  <2>5. Cardinality(FreeNodes) <= Cardinality(FreeNodes') /\ Cardinality(FreeNodes') \in Nat
    BY <2>3, <2>4, FS_Subset, FS_CardinalityType
  <2>6. Cardinality(Aircraft) \in Nat /\ Cardinality(todo) \in Nat
    BY ReportsAssumption, FS_Subset, FS_CardinalityType DEF Enough
  <2>7. QED BY <1>0, <2>1, <2>5, <2>6 DEF Enough, RoundFits, round
<1>6. CASE UatPushed \/ SendLock \/ SendClear \/ AnrbLock \/ AnrbClear
  <2>1. packet' = packet /\ pc'["prepare"] = pc["prepare"] /\ UNCHANGED round
    BY <1>6 DEF UatPushed, SendLock, SendClear, AnrbLock, AnrbClear, Goto, Mutexes
  <2>2. FreeNodes' = FreeNodes
    BY <2>1 DEF FreeNodes
  <2>3. QED BY <2>1, <2>2 DEF Enough, RoundFits, round
<1>7. CASE TrackChanges \/ TrackExpires \/ LinkChanges \/ Tick \/ UNCHANGED vars
  <2>1. UNCHANGED <<packet, pc, round>>
    BY <1>7 DEF TrackChanges, TrackExpires, LinkChanges, Tick, lists, vars
  <2>2. FreeNodes' = FreeNodes
    BY <2>1 DEF FreeNodes
  <2>3. QED BY <2>1, <2>2 DEF Enough, RoundFits, round
<1>8. QED BY <1>1, <1>2, <1>3, <1>4, <1>5, <1>6, <1>7, <1>a
  DEF Next, PrepareNext, VisitStep

-------------------------------------------------------------------------------
(* The server                                                                 *)

\* A batch leaves the server with an altitude it was told, or with its last one.
LEMMA AltitudesHeard ==
    ASSUME ThrottleType, NEW list \in Seq(Nodes), NEW a \in Aircraft,
           server \in [Aircraft -> Values \cup {NoData}]
    PROVE  AltitudeIn(list, a) \in Values \cup {NoData}
<1> DEFINE with == {i \in DOMAIN list : packet[list[i]].addr = a /\ packet[list[i]].altitude # NoData}
<1>1. CASE with = {}
  BY <1>1 DEF AltitudeIn
<1>2. CASE with # {}
  <2>1. with \in SUBSET (0 .. Len(list)) /\ Len(list) \in Nat
    OBVIOUS
  <2>2. Max(with) \in with
    BY <1>2, <2>1, MaxIsMember
  <2>3. list[Max(with)] \in Nodes
    BY <2>2
  <2>4. packet[list[Max(with)]] \in Packet
    BY <2>3 DEF ThrottleType
  <2>5. packet[list[Max(with)]].altitude \in Values \cup {NoData}
    BY <2>4 DEF Packet
  <2>6. QED BY <1>2, <2>5 DEF AltitudeIn
<1>3. QED BY <1>1, <1>2

ServerType == inited \in BOOLEAN /\ server \in [Aircraft -> Values \cup {NoData}]

\* So what it heard last is always an altitude, if anything.
LEMMA ServerStep ==
    ASSUME CirculationInv, ServerType, [Next]_vars
    PROVE  ServerType'
<1>1. CASE SendFlights
  <2>1. \A a \in Aircraft : AltitudeIn(local, a) \in Values \cup {NoData}
    BY AltitudesHeard DEF CirculationInv, ListsHeld, ServerType
  <2>2. server' \in [Aircraft -> Values \cup {NoData}]
    BY <1>1, <2>1 DEF SendFlights, ServerType
  <2>3. QED BY <1>1, <2>2 DEF SendFlights, ServerType
<1>2. CASE LinkChanges
  BY <1>2 DEF LinkChanges, ServerType
<1>3. CASE UNCHANGED <<inited, server>>
  BY <1>3 DEF ServerType
<1>4. CASE \E a \in Aircraft : VisitStep(a)
  BY <1>3, <1>4, VisitSteps
<1>5. QED
  BY <1>1, <1>2, <1>3, <1>4
  DEF Next, PrepareNext, VisitStep, PrepareLock, PrepareLock2, PrepareUnlock, UatPush, UatPushed,
      SendLock, SendClear, AnrbLock, AnrbClear, AnrbSend, TrackChanges, TrackExpires, Tick, vars

-------------------------------------------------------------------------------
(* The invariants of the two lists                                            *)

ReportsInv == ThrottleInv /\ CirculationInv /\ ServerType

\* At the start all memory is free and every thread sleeps.
LEMMA ReportsInvInit == Init => ReportsInv
<1>1. SUFFICES ASSUME Init PROVE CirculationInv /\ ServerType
  BY ThrottleInit DEF ReportsInv
<1>2. ThrottleType
  BY <1>1, ThrottleInit DEF ThrottleInv
<1>3. \A t \in Threads : pc[t] = "sleep"
  BY <1>1 DEF Init
<1>4. Mutexes
  BY <1>1, <1>3, TheThreads DEF Init, Mutexes, Threads
<1>5. ListsHeld
  BY <1>1, <1>3, TheThreads, EmptyList DEF Init, ListsHeld, NoUat
<1>6. OnFlist = <<>> /\ OnFlist2 = <<>> /\ UatNode = <<>> /\ local = <<>> /\ local2 = <<>>
  BY <1>1 DEF Init, OnFlist, OnFlist2, UatNode
<1>7. \A k \in 1 .. 5 : Lists[k] = <<>>
  BY <1>6 DEF Lists
<1>8. FreeNodes = Nodes
  BY <1>1 DEF Init, FreeNodes
<1>9. Conserved
  BY <1>7, <1>8, EmptyList DEF Conserved, ConservedIn
<1>10. Enough
  BY <1>1, <1>3, TheThreads DEF Init, Enough
<1>11. ServerType
  BY <1>1 DEF Init, ServerType
<1>12. QED BY <1>2, <1>4, <1>5, <1>9, <1>10, <1>11 DEF CirculationInv

\* Every step keeps all of it.
LEMMA ReportsInvStep == ReportsInv /\ [Next]_vars => ReportsInv'
<1>1. SUFFICES ASSUME ThrottleInv, CirculationInv, ServerType, [Next]_vars PROVE ReportsInv'
  BY DEF ReportsInv
<1>2. ThrottleInv' /\ ThrottleType'
  BY <1>1, ThrottleStep DEF ThrottleInv
<1>3. Mutexes'
  BY <1>1, MutexesStep DEF CirculationInv
<1>4. ListsHeld' /\ Conserved' /\ Enough' /\ ServerType'
  BY <1>1, ListsHeldStep, ConservedStep, EnoughStep, ServerStep
<1>5. QED BY <1>2, <1>3, <1>4 DEF ReportsInv, CirculationInv

\* So it holds however the four threads interleave.
LEMMA ReportsInductive == Spec => []ReportsInv
BY ReportsInvInit, ReportsInvStep, PTL DEF Spec

\* The lists, their packets, the mutexes and what is remembered of every field keep
\* their types, and a mutex is held exactly where the code is between its lock and unlock.
THEOREM ReportsTypeCorrect == Spec => []ReportsTypeOK
<1>1. ReportsInv => ReportsTypeOK
  BY DEF ReportsInv, ThrottleInv, CirculationInv, ThrottleType, Mutexes, ListsHeld, Enough, ServerType,
         ReportsTypeOK
<1>2. QED BY ReportsInductive, <1>1, PTL

\* Two lists without a common node, one after the other.
LEMMA Concatenated ==
    ASSUME NEW s \in Seq(Nodes), NEW t \in Seq(Nodes), Once(s), Once(t), Range(s) \cap Range(t) = {}
    PROVE  s \o t \in Seq(Nodes) /\ Once(s \o t) /\ Range(s \o t) = Range(s) \cup Range(t)
<1> DEFINE u == s \o t
<1>1. /\ u \in Seq(Nodes) /\ Len(u) = Len(s) + Len(t) /\ Len(s) \in Nat /\ Len(t) \in Nat
      /\ DOMAIN u = 1 .. Len(u) /\ DOMAIN s = 1 .. Len(s) /\ DOMAIN t = 1 .. Len(t)
  OBVIOUS
<1>2. \A i \in DOMAIN s : i \in DOMAIN u /\ u[i] = s[i]
  OBVIOUS
<1>3. \A i \in DOMAIN t : i + Len(s) \in DOMAIN u /\ u[i + Len(s)] = t[i]
  OBVIOUS
<1>4. \A i \in DOMAIN u : i \in DOMAIN s \/ i - Len(s) \in DOMAIN t
  BY <1>1
<1> HIDE DEF u
<1>a. ASSUME NEW i \in DOMAIN u, i \notin DOMAIN s PROVE i - Len(s) \in DOMAIN t /\ u[i] = t[i - Len(s)]
  <2>1. i - Len(s) \in DOMAIN t
    BY <1>4, <1>a
  <2>2. (i - Len(s)) + Len(s) = i
    BY <1>1
  <2>3. QED BY <1>3, <2>1, <2>2
<1>5. Range(u) = Range(s) \cup Range(t)
  <2>1. Range(u) \subseteq Range(s) \cup Range(t)
    BY <1>2, <1>a DEF Range
  <2>2. Range(s) \subseteq Range(u)
    BY <1>2 DEF Range
  <2>3. Range(t) \subseteq Range(u)
    BY <1>3 DEF Range
  <2>4. QED BY <2>1, <2>2, <2>3
<1>b. ASSUME NEW i \in DOMAIN u, NEW j \in DOMAIN u, i \in DOMAIN s, j \notin DOMAIN s PROVE u[i] # u[j]
  <2>1. u[i] \in Range(s)
    BY <1>2, <1>b DEF Range
  <2>2. u[j] \in Range(t)
    BY <1>a, <1>b DEF Range
  <2>3. QED BY <2>1, <2>2
<1>6. ASSUME NEW i \in DOMAIN u, NEW j \in DOMAIN u, u[i] = u[j] PROVE i = j
  <2>1. CASE i \in DOMAIN s /\ j \in DOMAIN s
    BY <1>2, <1>6, <2>1 DEF Once
  <2>2. CASE i \notin DOMAIN s /\ j \notin DOMAIN s
    <3>1. i - Len(s) = j - Len(s)
      BY <1>a, <1>6, <2>2 DEF Once
    <3>2. i \in Int /\ j \in Int /\ Len(s) \in Int
      BY <1>1
    <3>3. QED BY <3>1, <3>2
  <2>3. CASE i \in DOMAIN s /\ j \notin DOMAIN s
    BY <1>b, <1>6, <2>3
  <2>4. CASE i \notin DOMAIN s /\ j \in DOMAIN s
    BY <1>b, <1>6, <2>4
  <2>5. QED BY <2>1, <2>2, <2>3, <2>4
<1>7. QED BY <1>1, <1>5, <1>6 DEF Once, u

\* No packet leaks, none is freed twice or is on two lists, for any number of aircraft
\* and any amount of memory, and however the four threads that pass the lists interleave.
THEOREM PacketsAreConserved == Spec => []NodeConservation
<1>1. ASSUME Conserved PROVE NodeConservation
  <2>1. /\ OnFlist \in Seq(Nodes) /\ Once(OnFlist) /\ OnFlist2 \in Seq(Nodes) /\ Once(OnFlist2)
        /\ local \in Seq(Nodes) /\ Once(local) /\ local2 \in Seq(Nodes) /\ Once(local2)
        /\ UatNode \in Seq(Nodes) /\ Once(UatNode)
    BY <1>1, TheLists DEF Conserved, ConservedIn
  <2>2. /\ Range(OnFlist) \cap Range(OnFlist2) = {} /\ Range(OnFlist) \cap Range(local) = {}
        /\ Range(OnFlist) \cap Range(local2) = {} /\ Range(OnFlist) \cap Range(UatNode) = {}
        /\ Range(OnFlist2) \cap Range(local) = {} /\ Range(OnFlist2) \cap Range(local2) = {}
        /\ Range(OnFlist2) \cap Range(UatNode) = {} /\ Range(local) \cap Range(local2) = {}
        /\ Range(local) \cap Range(UatNode) = {} /\ Range(local2) \cap Range(UatNode) = {}
    BY <1>1, TheLists DEF Conserved, ConservedIn
  <2>3. \A n \in Nodes : n \in FreeNodes <=>
            n \notin Range(OnFlist) \cup Range(OnFlist2) \cup Range(local) \cup Range(local2) \cup Range(UatNode)
    <3>1. \A n \in Nodes : n \in FreeNodes <=> \A k \in 1 .. 5 : n \notin Range(Lists[k])
      BY <1>1 DEF Conserved, ConservedIn
    <3>2. QED BY <3>1, TheLists
  <2> DEFINE two == OnFlist \o OnFlist2
             three == two \o local
             four == three \o local2
             all == four \o UatNode
  <2>4. two \in Seq(Nodes) /\ Once(two) /\ Range(two) = Range(OnFlist) \cup Range(OnFlist2)
    BY <2>1, <2>2, Concatenated
  <2> HIDE DEF two
  <2>5. three \in Seq(Nodes) /\ Once(three) /\ Range(three) = Range(two) \cup Range(local)
    BY <2>1, <2>2, <2>4, Concatenated
  <2> HIDE DEF three
  <2>6. four \in Seq(Nodes) /\ Once(four) /\ Range(four) = Range(three) \cup Range(local2)
    BY <2>1, <2>2, <2>4, <2>5, Concatenated
  <2> HIDE DEF four
  <2>7. all \in Seq(Nodes) /\ Once(all) /\ Range(all) = Range(four) \cup Range(UatNode)
    BY <2>1, <2>2, <2>4, <2>5, <2>6, Concatenated
  <2> HIDE DEF all
  <2>8. Range(all) \subseteq Nodes
    BY <2>7 DEF Range
  <2>9. Range(all) = Nodes \ FreeNodes
    BY <2>3, <2>4, <2>5, <2>6, <2>7, <2>8
  <2>10. \A i, j \in DOMAIN all : all[i] = all[j] => i = j
    BY <2>7 DEF Once
  <2>11. QED BY <2>9, <2>10 DEF NodeConservation, all, four, three, two
<1>2. ReportsInv => NodeConservation
  BY <1>1 DEF ReportsInv, CirculationInv
<1>3. QED BY ReportsInductive, <1>2, PTL

===============================================================================
