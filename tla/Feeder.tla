-------------------------------- MODULE Feeder --------------------------------
(***************************************************************************)
(* The main thread of rbfeeder.c: it connects to where the messages come   *)
(* from (its own dump1090-rb, or an external host) as a client of module   *)
(* NetServices, and then alternates the background tasks with watching     *)
(* that connection and with frequency surveys, for which the server asks   *)
(* and during which dump1090-rb must leave the receiver.                   *)
(***************************************************************************)
EXTENDS NetServices

CONSTANTS
    Feed,        \* the connection to the source, pointed to by the global c
    NetModes,    \* 0: local dump1090-rb; 1, 2: external host
    MaxSurveys   \* bound on the surveys asked for: only so many keep it from reconnecting

ASSUME FeederAssumption ==
    /\ Feed \in Clients
    /\ NetModes \subseteq 0 .. 2
    /\ MaxSurveys \in Nat

VARIABLES
    net_mode,         \* from the configuration
    c,                \* the global pointer is not NULL
    dump,             \* dump1090-rb runs
    host,             \* the external host accepts connections
    rfsurvey_execute, \* the server has asked for a survey
    surveys           \* asked for so far

feederVars == <<net_mode, c, dump, host, rfsurvey_execute, surveys>>
vars == <<netVars, feederVars>>

\* connectData has been called once, and failed.
Init ==
    /\ service = [x \in Clients |-> Absent]
    /\ connections = [s \in Services |-> 0]
    /\ data = [s \in Outputs |-> <<>>]
    /\ age = [s \in Outputs |-> 0]
    /\ phase = "accept"
    /\ todo = {}
    /\ due = [x \in Clients |-> <<>>]
    /\ net_mode \in NetModes
    /\ c = FALSE
    /\ dump = (net_mode = 0)
    /\ host \in {FALSE, net_mode # 0}
    /\ rfsurvey_execute = FALSE
    /\ surveys = 0

-------------------------------------------------------------------------------
(* Background tasks, as in NetServices                                        *)

\* The clients that are written to.
Served == {x \in Clients : service[x] \in Outputs}

BackgroundTasks ==
    /\ \/ StartReading
       \/ \E x \in Clients : ReadDone(x)
       \/ \E failed \in SUBSET Served : Heartbeats(failed) \/ Flushes(failed)
       \/ FreeClosed
    /\ UNCHANGED feederVars

\* What clients and the source do, or their connections.
ClientActivity ==
    /\ \E failed \in SUBSET Served, x \in Clients :
         \/ \E s \in Outputs : Accept(x, s, failed) /\ x # Feed
         \/ \E s \in Outputs : handleBeastCommand(x, s, failed)
         \/ \E m \in Messages \ {Heartbeat}, wanted \in SUBSET Outputs :
                decodeBinMessage(x, m, wanted, failed)
         \/ ReadFails(x)
    /\ UNCHANGED feederVars

-------------------------------------------------------------------------------
(* The main loop                                                              *)

\* connectData, successful or not.  In local mode it starts dump1090-rb when that does
\* not run; whether it listens yet is another matter.
connectData(connected) ==
    /\ dump' = (dump \/ net_mode = 0)
    /\ c' = connected
    /\ IF connected
       THEN /\ net_mode = 0 \/ host
            /\ createGenericClient(Feed, Input, {})
       ELSE UNCHANGED <<service, connections, data, age, due>>
    /\ UNCHANGED <<net_mode, host, rfsurvey_execute, surveys>>

Back == phase' = "accept" /\ UNCHANGED todo

\* "while (!c ...)": nothing else is done until a connection is there.
EnterConnecting ==
    /\ phase = "main" /\ ~rfsurvey_execute /\ ~c
    /\ phase' = "connecting"
    /\ UNCHANGED <<service, connections, data, age, todo, due, feederVars>>

ConnectAgain(connected) ==
    /\ phase = "connecting"
    /\ connectData(connected)
    /\ IF connected THEN Back ELSE UNCHANGED <<phase, todo>>

\* Of the connection only c is looked at.
LostPointer == net_mode # 0 /\ ~c

\* "In case of connection lost, try to reconnect": only to external hosts.
Lost == net_mode # 0 /\ c /\ connections[Input] = 0

Reconnect(connected) ==
    /\ phase = "main" /\ ~rfsurvey_execute /\ Lost
    /\ connectData(connected)
    /\ Back

NothingToDo ==
    /\ phase = "main" /\ ~rfsurvey_execute /\ c /\ ~Lost
    /\ Back
    /\ UNCHANGED <<service, connections, data, age, due, feederVars>>

\* The request stays.
SurveyAgain(stopped) ==
    /\ phase = "main" /\ rfsurvey_execute
    /\ IF stopped THEN dump => net_mode = 0 ELSE dump
    /\ dump' = ~stopped
    /\ Back
    /\ UNCHANGED <<service, connections, data, age, due, net_mode, c, host, rfsurvey_execute, surveys>>

\* A frequency survey: in local mode dump1090-rb is told to stop; once it does not run
\* doRtlPower is called, which starts nothing (the body of rtlpower_startRtlpower is
\* commented out) and so waits for nothing.
Survey(stopped) ==
    /\ phase = "main" /\ rfsurvey_execute
    /\ IF stopped THEN dump => net_mode = 0 ELSE dump
    /\ dump' = ~stopped
    /\ rfsurvey_execute' = ~stopped
    /\ Back
    /\ UNCHANGED <<service, connections, data, age, due, net_mode, c, host, surveys>>

MainLoop ==
    \/ EnterConnecting
    \/ NothingToDo
    \/ \E done \in BOOLEAN : ConnectAgain(done) \/ Reconnect(done) \/ Survey(done)

-------------------------------------------------------------------------------
(* The server's commands (airnav_cmd.c, in the command thread), the source, time. *)
(* They may come at any time; the main thread looks only at the end of a turn of  *)
(* its loop, which is where they are put.                                         *)

AtTheEnd == phase \in {"main", "connecting"}

AskSurvey ==
    /\ AtTheEnd /\ surveys < MaxSurveys
    /\ rfsurvey_execute' = TRUE
    /\ surveys' = surveys + 1
    /\ UNCHANGED <<netVars, net_mode, c, dump, host>>

\* dumprb_restartDump, in every mode: stopped if it runs, and started.
RestartDump ==
    /\ AtTheEnd
    /\ dump' = TRUE
    /\ UNCHANGED <<netVars, net_mode, c, host, rfsurvey_execute, surveys>>

DumpDies ==
    /\ AtTheEnd /\ dump /\ dump' = FALSE
    /\ UNCHANGED <<netVars, net_mode, c, host, rfsurvey_execute, surveys>>

HostDown ==
    /\ AtTheEnd /\ net_mode # 0 /\ host /\ host' = FALSE
    /\ UNCHANGED <<netVars, net_mode, c, dump, rfsurvey_execute, surveys>>

HostUp ==
    /\ AtTheEnd /\ net_mode # 0 /\ ~host /\ host' = TRUE
    /\ UNCHANGED <<netVars, net_mode, c, dump, rfsurvey_execute, surveys>>

Time == Tick /\ UNCHANGED feederVars

\* The process is gone.
Crashed == phase = "crashed" /\ UNCHANGED vars

Next ==
    \/ BackgroundTasks \/ ClientActivity \/ MainLoop \/ Time
    \/ AskSurvey \/ RestartDump \/ DumpDies \/ HostDown \/ HostUp
    \/ Crashed

\* The thread is scheduled, naps in every turn of the loop, and clients run out of input;
\* the host comes back; whom one asks often enough answers, and who is told often enough
\* to stop stops.
Fairness ==
    /\ WF_vars(BackgroundTasks) /\ WF_vars(MainLoop) /\ SF_vars(Time)
    /\ SF_vars(HostUp)
    /\ SF_vars(ConnectAgain(TRUE) \/ Reconnect(TRUE))
    /\ SF_vars(Survey(TRUE))

Spec == Init /\ [][Next]_vars /\ Fairness

-------------------------------------------------------------------------------
(* Properties                                                                 *)

FeederTypeOK ==
    /\ NetTypeOK
    /\ net_mode \in NetModes
    /\ {c, dump, host, rfsurvey_execute} \subseteq BOOLEAN
    /\ surveys \in 0 .. MaxSurveys
    /\ service[Feed] \notin Outputs

\* A survey cannot begin: dump1090-rb has the receiver, and only in local mode is it
\* told to leave.
SurveyBlocked == net_mode # 0 /\ dump /\ rfsurvey_execute

\* "In case of connection lost, try to reconnect": the feeder's input does not stay lost.
FeedRestored == []<>(connections[Input] > 0 \/ phase = "crashed")

\* From an external host it does not, unless a survey waits for a dump1090-rb that the
\* server had started there.
ExternalFeedRestored ==
    net_mode # 0 => []<>(connections[Input] > 0 \/ SurveyBlocked \/ phase = "crashed")

\* An output with clients is written to again and again, if only by a heartbeat ("If we
\* have generated no messages for a while, send a heartbeat").
HeartbeatsKeepUp ==
    \A s \in Outputs : []<>(connections[s] = 0 \/ age[s] = 0 \/ phase = "crashed")

\* A survey that the server asks for comes to an end, which the main loop waits for
\* before it looks after its connection again.
SurveysEnd == rfsurvey_execute ~> ~rfsurvey_execute \/ SurveyBlocked \/ phase = "crashed"
===============================================================================
