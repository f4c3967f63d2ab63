------------------------------ MODULE ServerLink ------------------------------
(***************************************************************************)
(* The feeder's one TCP connection to the AirNav server (airnav_net.c,     *)
(* airnav_sk.c, airnav_proc_packets.c, airnav_main.c): the monitor thread  *)
(* connects, authenticates and pings; the reader thread (WaitCmds) takes   *)
(* in the server's packets; other threads send data and statistics.        *)
(*                                                                         *)
(* They share airnav_socket and airnav_com_inited without a lock, so each  *)
(* action holds at most one access to them that another thread could come  *)
(* between.  A packet is received or sent whole here (PacketReader has the *)
(* bytes).  0 stands for the socket number -1.                             *)
(***************************************************************************)
EXTENDS Naturals, Sequences

CONSTANTS
    Senders,   \* threads that send when airnav_com_inited is set
    Fds,       \* socket numbers
    MaxInbox   \* how many packets may wait to be received

ASSUME LinkAssumption ==
    /\ Senders \cap {"monitor", "reader"} = {}
    /\ Fds \subseteq Nat \ {0}
    /\ MaxInbox \in Nat

Threads == {"monitor", "reader"} \cup Senders

VARIABLES
    sock,              \* airnav_socket
    open,              \* the sockets that have not been closed
    inited,            \* airnav_com_inited
    expected, expected_id, expected_arrived,   \* waitCmd's mailbox, under m_cmd
    key,               \* the sharing key in the ini file
    sharing_key,       \* the copy net_initial_com has read
    pc,                \* thread -> where it is
    back,              \* thread -> where it goes on after a disconnect
    reply,             \* the packet the reader works on
    peer,              \* the other end of airnav_socket, as far as TCP knows
    request,           \* the request the server has yet to answer on it
    inbox,             \* packets from the server not yet received from it
    heard              \* history: was an AUTH_OK for us processed since the key
                       \* was sent, since the wait was armed

mailbox == <<expected, expected_id, expected_arrived>>
server == <<peer, request, inbox>>
vars == <<sock, open, inited, mailbox, key, sharing_key, pc, back, reply, server, heard>>

Errors == {"AUTH_ERROR", "SK_CREATE_ERROR"}

Ids == {0, 2, 3}    \* 0: the reply has no id; 2 and 3: those waitCmd is given

\* "INVALID": server_reply__unpack fails.  An SK_CREATE_OK brings a key (of the
\* right length or not) or forgets it ("none").
Replies ==
    [status : {"AUTH_OK"}, id : Ids, key : {"none"}]
    \cup [status : {"SK_CREATE_OK"}, id : Ids, key : {"none", "short", "valid"}]
    \cup [status : Errors \cup {"CTR_CMD", "INVALID"}, id : {0}, key : {"none"}]

NoReply == [status |-> "none", id |-> 0, key |-> "none"]

Unheard == [sent |-> FALSE, armed |-> FALSE]

LinkTypeOK ==
    /\ sock \in Fds \cup {0}
    /\ open \subseteq Fds
    /\ inited \in BOOLEAN
    /\ expected \in {"none", "AUTH_OK", "SK_CREATE_OK"}
    /\ expected_id \in Ids
    /\ expected_arrived \in BOOLEAN
    /\ key \in {"empty", "short", "valid"}
    /\ sharing_key \in {"empty", "short", "valid"}
    /\ pc \in [Threads -> {"initial", "connecting", "key", "arm", "wait", "accept",
                           "sysinfo", "loop", "idle", "process", "match", "check",
                           "send", "close", "unset"}]
    /\ back \in [Threads -> {"initial", "loop", "arm", "idle", "match"}]
    /\ reply \in Replies \cup {NoReply}
    /\ peer \in {"none", "up", "gone", "reset"}
    /\ request \in {"none", "AUTH_FEEDER", "SK_REQUEST"}
    /\ inbox \in Seq(Replies)
    /\ heard \in [sent : BOOLEAN, armed : BOOLEAN]

LinkInit ==
    /\ sock = 0
    /\ open = {}
    /\ inited = FALSE
    /\ expected = "none" /\ expected_id = 0 /\ expected_arrived = FALSE
    /\ key \in {"empty", "short", "valid"}
    /\ sharing_key = "empty"
    /\ pc = [t \in Threads |-> IF t = "monitor" THEN "initial" ELSE "idle"]
    /\ back = [t \in Threads |-> "idle"]
    /\ reply = NoReply
    /\ peer = "none"
    /\ request = "none"
    /\ inbox = <<>>
    /\ heard = Unheard

Goto(t, where) == pc' = [pc EXCEPT ![t] = where] /\ UNCHANGED back

-------------------------------------------------------------------------------
(* Disconnecting: net_force_disconnect, and the monitor's own close(); = -1;  *)
(* which it does only while airnav_com_inited is already 0.                   *)

ThenDisconnect(t, next) ==
    /\ pc' = [pc EXCEPT ![t] = "close"]
    /\ back' = [back EXCEPT ![t] = next]

NoPeer == peer' = "none" /\ request' = "none" /\ inbox' = <<>>

Close(t) ==
    /\ pc[t] = "close"
    /\ Goto(t, "unset")
    /\ open' = open \ {sock}
    /\ NoPeer
    /\ UNCHANGED <<sock, inited, mailbox, key, sharing_key, reply, heard>>

UnsetSocket(t) ==    \* variant: leaves airnav_com_inited alone
    /\ pc[t] = "unset"
    /\ pc' = [pc EXCEPT ![t] = back[t]]
    /\ back' = [back EXCEPT ![t] = "idle"]
    /\ sock' = 0
    /\ NoPeer
    /\ UNCHANGED <<open, inited, mailbox, key, sharing_key, reply, heard>>

\* Another connection may have been made since the close; it is left open.
Unset(t) ==
    /\ pc[t] = "unset"
    /\ pc' = [pc EXCEPT ![t] = back[t]]
    /\ back' = [back EXCEPT ![t] = "idle"]
    /\ sock' = 0
    /\ inited' = FALSE
    /\ NoPeer
    /\ UNCHANGED <<open, mailbox, key, sharing_key, reply, heard>>

-------------------------------------------------------------------------------
(* net_send_packet.  On a connection whose peer has gone, sends succeed until *)
(* TCP finds out; a full socket buffer fails any send (MSG_DONTWAIT).         *)

SendSucceeds(t, next) ==
    /\ sock \in open
    /\ peer \in {"up", "gone"}
    /\ Goto(t, next)

SendFails(t, next) == ThenDisconnect(t, next)

-------------------------------------------------------------------------------
(* The monitor thread: net_initial_com                                        *)

LowestFree == CHOOSE f \in Fds \ open : \A g \in Fds \ open : f <= g

\* The key is read; with a plausible one, net_connect makes a socket.
\* airnav_socket is always -1 here, so it has none to close.
InitialCom ==
    /\ pc["monitor"] = "initial"
    /\ sharing_key' = key
    /\ IF key = "short"
       THEN ThenDisconnect("monitor", "loop") /\ UNCHANGED <<sock, open>>
       ELSE /\ Goto("monitor", "connecting")
            /\ IF Fds \subseteq open
               THEN sock' = 0 /\ UNCHANGED open
               ELSE sock' = LowestFree /\ open' = open \cup {LowestFree}
    /\ UNCHANGED <<inited, mailbox, key, reply, server, heard>>

\* connect() may succeed although another thread has closed the socket meanwhile.
Connected ==
    /\ pc["monitor"] = "connecting"
    /\ peer' = IF sock \in open THEN "up" ELSE peer
    /\ Goto("monitor", "key")
    /\ UNCHANGED <<sock, open, inited, mailbox, key, sharing_key, reply, request, inbox, heard>>

ConnectFails ==
    /\ pc["monitor"] = "connecting"
    /\ ThenDisconnect("monitor", "loop")
    /\ UNCHANGED <<sock, open, inited, mailbox, key, sharing_key, reply, server, heard>>

\* sendKey or sendKeyRequest: the request goes out, and waitCmd is called even if
\* it did not.
SendKey ==
    /\ pc["monitor"] = "key"
    /\ sock # 0
    /\ \/ /\ SendSucceeds("monitor", "arm")
          /\ request' = IF sharing_key = "empty" THEN "SK_REQUEST" ELSE "AUTH_FEEDER"
       \/ SendFails("monitor", "arm") /\ UNCHANGED request
    /\ UNCHANGED <<sock, open, inited, mailbox, key, sharing_key, reply, peer, inbox, heard>>

\* No socket any more, or (sendKey only) no serial number of the machine.
SendKeyGivesUp ==
    /\ pc["monitor"] = "key"
    /\ sock = 0 \/ sharing_key # "empty"
    /\ ThenDisconnect("monitor", "loop")
    /\ UNCHANGED <<sock, open, inited, mailbox, key, sharing_key, reply, server, heard>>

-------------------------------------------------------------------------------
(* The monitor thread: net_waitCmd and what follows                           *)

Want == IF sharing_key = "empty" THEN "SK_CREATE_OK" ELSE "AUTH_OK"
WantId == IF sharing_key = "empty" THEN 3 ELSE 2

ArmWaitStale ==    \* variant: does not clear expected_arrived
    /\ pc["monitor"] = "arm"
    /\ sock # 0
    /\ expected' = Want
    /\ expected_id' = WantId
    /\ Goto("monitor", "wait")
    /\ UNCHANGED <<expected_arrived, sock, open, inited, key, sharing_key, reply, server, heard>>

ArmWait ==
    /\ pc["monitor"] = "arm"
    /\ sock # 0
    /\ expected' = Want
    /\ expected_id' = WantId
    /\ expected_arrived' = FALSE
    /\ Goto("monitor", "wait")
    /\ UNCHANGED <<sock, open, inited, key, sharing_key, reply, server, heard>>

ArmNotConnected ==
    /\ pc["monitor"] = "arm"
    /\ sock = 0
    /\ ThenDisconnect("monitor", "loop")
    /\ heard' = Unheard
    /\ UNCHANGED <<sock, open, inited, mailbox, key, sharing_key, reply, server>>

\* After a new key the monitor reads it back and hangs up; it will come again.
ReplyArrived ==
    /\ pc["monitor"] = "wait"
    /\ expected_arrived
    /\ expected' = "none" /\ expected_id' = 0 /\ expected_arrived' = FALSE
    /\ IF Want = "AUTH_OK"
       THEN Goto("monitor", "accept") /\ UNCHANGED <<sharing_key, heard>>
       ELSE ThenDisconnect("monitor", "loop") /\ sharing_key' = key /\ heard' = Unheard
    /\ UNCHANGED <<sock, open, inited, key, reply, server>>

\* After 10 seconds; the mailbox is left as it is.
WaitTimesOut ==
    /\ pc["monitor"] = "wait"
    /\ ~expected_arrived
    /\ ThenDisconnect("monitor", "loop")
    /\ heard' = Unheard
    /\ UNCHANGED <<sock, open, inited, mailbox, key, sharing_key, reply, server>>

Accept ==
    /\ pc["monitor"] = "accept"
    /\ inited' = TRUE
    /\ Goto("monitor", "sysinfo")
    /\ heard' = Unheard
    /\ UNCHANGED <<sock, open, mailbox, key, sharing_key, reply, server>>

\* net_sendSystemVersion
SysInfo ==
    /\ pc["monitor"] = "sysinfo"
    /\ Goto("monitor", IF inited THEN "send" ELSE "loop")
    /\ UNCHANGED <<sock, open, inited, mailbox, key, sharing_key, reply, server, heard>>

-------------------------------------------------------------------------------
(* The monitor thread: every 60 seconds                                       *)

MonitorHangsUp ==    \* variant: forgets to call net_initial_com
    /\ pc["monitor"] = "loop"
    /\ ~inited
    /\ ThenDisconnect("monitor", "loop")
    /\ UNCHANGED <<sock, open, inited, mailbox, key, sharing_key, reply, server, heard>>

MonitorReconnects ==
    /\ pc["monitor"] = "loop"
    /\ ~inited
    /\ ThenDisconnect("monitor", "initial")
    /\ UNCHANGED <<sock, open, inited, mailbox, key, sharing_key, reply, server, heard>>

\* sendPing does nothing without a socket.
MonitorPings ==
    /\ pc["monitor"] = "loop"
    /\ inited
    /\ sock # 0
    /\ Goto("monitor", "send")
    /\ UNCHANGED <<sock, open, inited, mailbox, key, sharing_key, reply, server, heard>>

-------------------------------------------------------------------------------
(* Sending: pings and system information of the monitor, data and statistics  *)
(* of the senders, statistics the reader sends when a command asks for it.    *)

\* net_sendStats, sendMultipleFlights: is airnav_com_inited set?
CheckInited(t) ==
    /\ pc[t] = IF t \in Senders THEN "idle" ELSE "check"
    /\ IF inited THEN Goto(t, "send") ELSE pc[t] = "check" /\ Goto(t, "idle")
    /\ UNCHANGED <<sock, open, inited, mailbox, key, sharing_key, reply, server, heard>>

SendPacketAnyway(t) ==    \* variant: ignores the result of send()
    /\ pc[t] = "send"
    /\ Goto(t, IF t = "monitor" THEN "loop" ELSE "idle")
    /\ UNCHANGED <<sock, open, inited, mailbox, key, sharing_key, reply, server, heard>>

SendPacket(t) ==
    /\ pc[t] = "send"
    /\ LET next == IF t = "monitor" THEN "loop" ELSE "idle"
       IN  SendSucceeds(t, next) \/ SendFails(t, next)
    /\ UNCHANGED <<sock, open, inited, mailbox, key, sharing_key, reply, server, heard>>

-------------------------------------------------------------------------------
(* The reader thread: net_thread_WaitCmds, proccess_packet and below          *)

Receive ==
    /\ pc["reader"] = "idle"
    /\ sock \in open
    /\ inbox # <<>>
    /\ reply' = Head(inbox)
    /\ inbox' = Tail(inbox)
    /\ Goto("reader", "process")
    /\ UNCHANGED <<sock, open, inited, mailbox, key, sharing_key, peer, request, heard>>

ProcessUnchecked ==    \* variant: saves a key that is missing
    /\ pc["reader"] = "process"
    /\ IF reply.status = "SK_CREATE_OK"
       THEN key' = reply.key /\ Goto("reader", "match") /\ UNCHANGED reply
       ELSE key' = key /\ Goto("reader", "idle") /\ reply' = NoReply
    /\ UNCHANGED <<sock, open, inited, mailbox, sharing_key, server, heard>>

ProcessPacket ==
    /\ pc["reader"] = "process"
    /\ \/ /\ reply.status = "INVALID"
          /\ ThenDisconnect("reader", "idle")
          /\ reply' = NoReply
          /\ UNCHANGED key
       \/ /\ reply.status = "CTR_CMD"
          /\ \E next \in {"check", "idle"} : Goto("reader", next)
          /\ reply' = NoReply
          /\ UNCHANGED key
       \/ /\ reply.status = "SK_CREATE_OK"
          /\ IF reply.key = "none"
             THEN ThenDisconnect("reader", "match") /\ UNCHANGED key
             ELSE Goto("reader", "match") /\ key' = reply.key
          /\ UNCHANGED reply
       \/ /\ reply.status \in {"AUTH_OK"} \cup Errors
          /\ Goto("reader", "match")
          /\ UNCHANGED <<key, reply>>
    /\ UNCHANGED <<sock, open, inited, mailbox, sharing_key, server, heard>>

ForUs(r, id) == id = 0 \/ r.id = 0 \/ r.id = id

\* The section under m_cmd, and the disconnect an error status asks for.
MatchReply ==
    /\ pc["reader"] = "match"
    /\ expected_arrived' = (\/ expected_arrived
                            \/ /\ reply.status = expected
                               /\ ForUs(reply, expected_id))
    /\ heard' = IF reply.status = "AUTH_OK" /\ ForUs(reply, 2)
                THEN [sent |-> heard.sent \/ pc["monitor"] \in {"arm", "wait"},
                      armed |-> heard.armed \/ pc["monitor"] = "wait"]
                ELSE heard
    /\ reply' = NoReply
    /\ IF reply.status \in Errors THEN ThenDisconnect("reader", "idle")
                                  ELSE Goto("reader", "idle")
    /\ UNCHANGED <<sock, open, inited, expected, expected_id, key, sharing_key, server>>

-------------------------------------------------------------------------------
(* The server and the network                                                 *)

network == <<sock, open, inited, mailbox, key, sharing_key, pc, back, reply, heard>>

Answers ==
    CASE request = "AUTH_FEEDER" -> {r \in Replies : r.status \in {"AUTH_OK", "AUTH_ERROR"}}
      [] request = "SK_REQUEST" -> {r \in Replies : r.status \in {"SK_CREATE_OK", "SK_CREATE_ERROR"}}
      [] OTHER -> {}

\* A request is answered once; commands and damaged packets come at any time.
ServerSends ==
    /\ peer = "up"
    /\ Len(inbox) < MaxInbox
    /\ \/ \E r \in Answers : inbox' = Append(inbox, r) /\ request' = "none"
       \/ \E r \in {r \in Replies : r.status \in {"CTR_CMD", "INVALID"}} :
             inbox' = Append(inbox, r) /\ UNCHANGED request
    /\ UNCHANGED <<network, peer>>

\* The server, or the way to it, is lost ...
PeerGone ==
    /\ peer = "up"
    /\ peer' = "gone"
    /\ request' = "none"
    /\ UNCHANGED <<network, inbox>>

\* ... and a reset or the keepalive (net_enable_keepalive) tells TCP so.
PeerReset ==
    /\ peer = "gone"
    /\ peer' = "reset"
    /\ inbox' = <<>>
    /\ UNCHANGED <<network, request>>

-------------------------------------------------------------------------------

MonitorNext ==
    \/ InitialCom \/ Connected \/ ConnectFails \/ SendKey \/ SendKeyGivesUp
    \/ ArmWait \/ ArmNotConnected \/ ReplyArrived \/ WaitTimesOut \/ Accept \/ SysInfo
    \/ MonitorReconnects \/ MonitorPings
    \/ SendPacket("monitor") \/ Close("monitor") \/ Unset("monitor")

SenderNext(t) ==
    \/ CheckInited(t) \/ SendPacket(t) \/ Close(t) \/ Unset(t)

ReaderNext ==
    \/ Receive \/ ProcessPacket \/ MatchReply \/ SenderNext("reader")

LinkNext ==
    \/ MonitorNext
    \/ ReaderNext
    \/ \E t \in Senders : SenderNext(t)
    \/ ServerSends \/ PeerGone \/ PeerReset

\* Every thread keeps running: the sleeps, the timed wait and connect() end, and
\* the senders come round again (statistics every 300 s).  TCP finds out about a
\* lost peer sooner or later.  The server need never say anything.
LinkFairness ==
    /\ WF_vars(MonitorNext)
    /\ WF_vars(ReaderNext)
    /\ \A t \in Senders : WF_vars(SenderNext(t))
    /\ WF_vars(PeerReset)

LinkSpec == LinkInit /\ [][LinkNext]_vars /\ LinkFairness

-------------------------------------------------------------------------------
(* Properties                                                                 *)

\* The connection counts as initialised only after an AUTH_OK that came in while
\* this very wait was on: a reply that arrives after an earlier wait has given up,
\* when expected and expected_id are still set, never opens the next one.
AcceptedOnlyByReply == [][~inited /\ inited' => heard.armed]_vars

\* airnav_com_inited = 1 with airnav_socket = -1 (after a disconnect between the end
\* of the wait and the monitor's assignment) does not last: sendPing does nothing in
\* it, but the next other packet fails and its sender resets the flag.
HalfOpenHeals == inited /\ sock = 0 ~> ~inited

\* A dead connection is noticed although the reader takes "closed by the peer" for
\* "no data": pings and statistics go on until one fails, and the socket is dropped.
DeadLinkNoticed ==
    inited /\ peer = "gone" ~> sock = 0

\* As long as the connection is not initialised the monitor tries again, whatever
\* the server does or leaves undone.
KeepsTrying == []<>(inited \/ pc["monitor"] = "initial")

\* "Wait for reply from server" (airnav_sk.c): while the wait is on, a reply to our
\* key that has been processed has been noticed.
NoReplyLost == pc["monitor"] = "wait" /\ heard.sent => expected_arrived
===============================================================================
