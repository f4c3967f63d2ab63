--------------------------- MODULE ServerLinkProofs ---------------------------
(***************************************************************************)
(* Proofs about ServerLink, for any number of sending threads, sockets and *)
(* waiting packets: the variables keep their types, and the connection     *)
(* counts as initialised only after a reply heard while this wait was on.  *)
(* ReplyInv is inductive: it says what the wait has asked for, and that    *)
(* what arrived for it was heard.                                          *)
(***************************************************************************)
EXTENDS ServerLink, WellFoundedInduction, TLAPS

\* While the wait is on, expected_arrived means an AUTH_OK heard since it was armed.
Answered ==
    /\ pc["monitor"] = "wait" =>
           /\ expected = Want /\ expected_id = WantId
           /\ Want = "AUTH_OK" /\ expected_arrived => heard.armed
    /\ pc["monitor"] = "accept" => heard.armed

ReplyInv == LinkTypeOK /\ Answered

-------------------------------------------------------------------------------
(* Types                                                                      *)

Places == {"initial", "connecting", "key", "arm", "wait", "accept", "sysinfo", "loop", "idle",
           "process", "match", "check", "send", "close", "unset"}

Returns == {"initial", "loop", "arm", "idle", "match"}

\* The types of the threads' own state, of the socket, of the mailbox and keys, and
\* of what comes from the server.
PlacesTyped == pc \in [Threads -> Places] /\ back \in [Threads -> Returns]

SocketTyped == sock \in Fds \cup {0} /\ open \subseteq Fds /\ inited \in BOOLEAN

MailboxTyped ==
    /\ expected \in {"none", "AUTH_OK", "SK_CREATE_OK"}
    /\ expected_id \in Ids
    /\ expected_arrived \in BOOLEAN
    /\ key \in {"empty", "short", "valid"}
    /\ sharing_key \in {"empty", "short", "valid"}
    /\ heard \in [sent : BOOLEAN, armed : BOOLEAN]

ServerTyped ==
    /\ reply \in Replies \cup {NoReply}
    /\ peer \in {"none", "up", "gone", "reset"}
    /\ request \in {"none", "AUTH_FEEDER", "SK_REQUEST"}
    /\ inbox \in Seq(Replies)

\* LinkTypeOK is these four.
LEMMA TypeParts ==
    /\ LinkTypeOK <=> PlacesTyped /\ SocketTyped /\ MailboxTyped /\ ServerTyped
    /\ LinkTypeOK' <=> PlacesTyped' /\ SocketTyped' /\ MailboxTyped' /\ ServerTyped'
BY DEF LinkTypeOK, PlacesTyped, SocketTyped, MailboxTyped, ServerTyped, Places, Returns

\* The monitor, the reader and the senders are different threads.
LEMMA TheThreads ==
    /\ "monitor" \in Threads /\ "reader" \in Threads /\ Senders \subseteq Threads
    /\ "monitor" \notin Senders /\ "reader" \notin Senders
BY LinkAssumption DEF Threads

\* socket() returns the lowest number that is free.
LEMMA LowestFreeIsFree ==
    ASSUME ~(Fds \subseteq open)
    PROVE  LowestFree \in Fds \ open
<1> DEFINE less == OpToRel(<, Nat)
<1>1. Fds \ open \subseteq Nat /\ Fds \ open # {}
  BY LinkAssumption
<1>2. \A x, y \in Nat : x < y => <<x, y>> \in less
  BY DEF OpToRel
<1>3. IsWellFoundedOn(less, Nat)
  BY NatLessThanWellFounded
<1> HIDE DEF less
<1>4. PICK f \in Fds \ open : \A g \in Fds \ open : ~(<<g, f>> \in less)
  BY <1>1, <1>3, WFMin
<1>5. ASSUME NEW g \in Fds \ open PROVE f <= g
  <2>1. f \in Nat /\ g \in Nat
    BY <1>1
  <2>2. ~(g < f)
    BY <1>2, <1>4, <2>1, Zenon
  <2>3. QED BY <2>1, <2>2
<1>6. QED BY <1>4, <1>5 DEF LowestFree

\* Going on, directly or after a disconnect, keeps a thread in one of the places.
LEMMA GoingOn ==
    ASSUME PlacesTyped, NEW t \in Threads
    PROVE  /\ \A where \in Places : Goto(t, where) => PlacesTyped'
           /\ \A next \in Returns : ThenDisconnect(t, next) => PlacesTyped'
BY DEF PlacesTyped, Goto, ThenDisconnect, Places, Returns

\* The steps of the monitor keep every thread's place.
LEMMA MonitorPlaces ==
    ASSUME PlacesTyped, MonitorNext, ~SendPacket("monitor"), ~Close("monitor"), ~Unset("monitor")
    PROVE  PlacesTyped'
<1> USE TheThreads, GoingOn DEF Places, Returns
<1>1. CASE InitialCom \/ Connected \/ ConnectFails
  BY <1>1 DEF InitialCom, Connected, ConnectFails
<1>2. CASE SendKey \/ SendKeyGivesUp
  BY <1>2 DEF SendKey, SendKeyGivesUp, SendSucceeds, SendFails
<1>3. CASE ArmWait \/ ArmNotConnected \/ ReplyArrived \/ WaitTimesOut
  BY <1>3 DEF ArmWait, ArmNotConnected, ReplyArrived, WaitTimesOut
<1>4. CASE Accept \/ SysInfo \/ MonitorReconnects \/ MonitorPings
  BY <1>4 DEF Accept, SysInfo, MonitorReconnects, MonitorPings
<1>5. QED BY <1>1, <1>2, <1>3, <1>4 DEF MonitorNext

\* They keep the types of everything else too.
LEMMA MonitorTypes ==
    ASSUME LinkTypeOK, MonitorNext, ~SendPacket("monitor"), ~Close("monitor"), ~Unset("monitor")
    PROVE  LinkTypeOK'
<1>0. PlacesTyped /\ SocketTyped /\ MailboxTyped /\ ServerTyped
  BY TypeParts
<1>1. PlacesTyped'
  BY <1>0, MonitorPlaces
<1>2. CASE InitialCom
  <2>1. SocketTyped'
    BY <1>0, <1>2, LowestFreeIsFree DEF InitialCom, SocketTyped
  <2>2. MailboxTyped' /\ ServerTyped'
    BY <1>0, <1>2 DEF InitialCom, mailbox, server, MailboxTyped, ServerTyped
  <2>3. QED BY <1>1, <2>1, <2>2, TypeParts
<1>3. CASE Connected \/ ConnectFails
  <2>1. SocketTyped' /\ MailboxTyped' /\ ServerTyped'
    BY <1>0, <1>3 DEF Connected, ConnectFails, mailbox, server, SocketTyped, MailboxTyped, ServerTyped
  <2>2. QED BY <1>1, <2>1, TypeParts
<1>4. CASE SendKey \/ SendKeyGivesUp
  <2>1. SocketTyped' /\ MailboxTyped' /\ ServerTyped'
    BY <1>0, <1>4 DEF SendKey, SendKeyGivesUp, mailbox, server, SocketTyped, MailboxTyped, ServerTyped
  <2>2. QED BY <1>1, <2>1, TypeParts
<1>5. CASE ArmWait \/ ArmNotConnected \/ ReplyArrived \/ WaitTimesOut
  <2>1. SocketTyped' /\ ServerTyped'
    BY <1>0, <1>5 DEF ArmWait, ArmNotConnected, ReplyArrived, WaitTimesOut, mailbox, server, SocketTyped,
       ServerTyped
  <2>2. MailboxTyped'
    <3>1. CASE ArmWait
      BY <1>0, <3>1 DEF ArmWait, Want, WantId, Ids, MailboxTyped
    <3>0. Unheard \in [sent : BOOLEAN, armed : BOOLEAN]
      BY DEF Unheard
    <3>2. CASE ReplyArrived
      <4>1. heard' \in {heard, Unheard} /\ sharing_key' \in {sharing_key, key}
        BY <3>2 DEF ReplyArrived
      <4>2. QED BY <1>0, <3>0, <3>2, <4>1 DEF ReplyArrived, Ids, MailboxTyped
    <3>3. CASE ArmNotConnected \/ WaitTimesOut
      <4>1. heard' = Unheard /\ UNCHANGED <<expected, expected_id, expected_arrived, key, sharing_key>>
        BY <3>3 DEF ArmNotConnected, WaitTimesOut, mailbox
      <4>2. QED BY <1>0, <3>0, <4>1 DEF MailboxTyped
    <3>4. QED BY <1>5, <3>1, <3>2, <3>3
  <2>3. QED BY <1>1, <2>1, <2>2, TypeParts
<1>6. CASE Accept \/ SysInfo \/ MonitorReconnects \/ MonitorPings
  <2>1. SocketTyped' /\ ServerTyped'
    BY <1>0, <1>6 DEF Accept, SysInfo, MonitorReconnects, MonitorPings, server, SocketTyped, ServerTyped
  <2>2. MailboxTyped'
    <3>1. CASE Accept
      BY <1>0, <3>1 DEF Accept, Unheard, mailbox, MailboxTyped
    <3>2. CASE SysInfo \/ MonitorReconnects \/ MonitorPings
      BY <1>0, <3>2 DEF SysInfo, MonitorReconnects, MonitorPings, mailbox, MailboxTyped
    <3>3. QED BY <1>6, <3>1, <3>2
  <2>3. QED BY <1>1, <2>1, <2>2, TypeParts
<1>7. QED BY <1>2, <1>3, <1>4, <1>5, <1>6 DEF MonitorNext

\* So do sending and disconnecting, whoever does it.
LEMMA SenderTypes ==
    ASSUME LinkTypeOK, NEW t \in Threads, SenderNext(t)
    PROVE  LinkTypeOK'
<1>0. PlacesTyped /\ SocketTyped /\ MailboxTyped /\ ServerTyped
  BY TypeParts
<1>1. CASE CheckInited(t)
  <2>1. PlacesTyped'
    BY <1>0, <1>1, GoingOn DEF CheckInited, Places
  <2>2. SocketTyped' /\ MailboxTyped' /\ ServerTyped'
    BY <1>0, <1>1 DEF CheckInited, mailbox, server, SocketTyped, MailboxTyped, ServerTyped
  <2>3. QED BY <2>1, <2>2, TypeParts
<1>2. CASE SendPacket(t)
  <2>1. PlacesTyped'
    BY <1>0, <1>2, GoingOn DEF SendPacket, SendSucceeds, SendFails, Places, Returns
  <2>2. SocketTyped' /\ MailboxTyped' /\ ServerTyped'
    BY <1>0, <1>2 DEF SendPacket, mailbox, server, SocketTyped, MailboxTyped, ServerTyped
  <2>3. QED BY <2>1, <2>2, TypeParts
<1>3. CASE Close(t)
  <2>1. PlacesTyped'
    BY <1>0, <1>3, GoingOn DEF Close, Places
  <2>2. SocketTyped' /\ MailboxTyped' /\ ServerTyped'
    BY <1>0, <1>3 DEF Close, NoPeer, mailbox, SocketTyped, MailboxTyped, ServerTyped
  <2>3. QED BY <2>1, <2>2, TypeParts
<1>4. CASE Unset(t)
  <2>1. PlacesTyped'
    BY <1>0, <1>4 DEF Unset, PlacesTyped, Places, Returns
  <2>2. SocketTyped' /\ ServerTyped'
    <3>1. SocketTyped'
      BY <1>0, <1>4 DEF Unset, SocketTyped
    <3>2. peer' = "none" /\ request' = "none" /\ inbox' = <<>> /\ reply' = reply
      BY <1>4 DEF Unset, NoPeer
    <3>3. QED BY <1>0, <3>1, <3>2 DEF ServerTyped
  <2>3. MailboxTyped'
    BY <1>0, <1>4 DEF Unset, mailbox, MailboxTyped
  <2>4. QED BY <2>1, <2>2, <2>3, TypeParts
<1>5. QED BY <1>1, <1>2, <1>3, <1>4 DEF SenderNext

\* So do the steps of the reader thread.
LEMMA ReaderTypes ==
    ASSUME LinkTypeOK, Receive \/ ProcessPacket \/ MatchReply
    PROVE  LinkTypeOK'
<1>0. PlacesTyped /\ SocketTyped /\ MailboxTyped /\ ServerTyped
  BY TypeParts
<1> USE TheThreads
<1>1. CASE Receive
  <2>1. PlacesTyped'
    BY <1>0, <1>1, GoingOn DEF Receive, Places
  <2>2. SocketTyped' /\ MailboxTyped'
    BY <1>0, <1>1 DEF Receive, mailbox, SocketTyped, MailboxTyped
  <2>3. ServerTyped'
    BY <1>0, <1>1 DEF Receive, ServerTyped
  <2>4. QED BY <2>1, <2>2, <2>3, TypeParts
<1>2. CASE ProcessPacket
  <2>1. PlacesTyped'
    BY <1>0, <1>2, GoingOn DEF ProcessPacket, Places, Returns
  <2>2. SocketTyped'
    BY <1>0, <1>2 DEF ProcessPacket, SocketTyped
  <2>3. key' \in {"empty", "short", "valid"}
    <3>1. reply.status = "SK_CREATE_OK" => reply.key \in {"none", "short", "valid"}
      BY <1>0 DEF ServerTyped, Replies, Errors, NoReply
    <3>2. QED BY <1>0, <1>2, <3>1 DEF ProcessPacket, MailboxTyped
  <2>4. MailboxTyped'
    BY <1>0, <1>2, <2>3 DEF ProcessPacket, mailbox, MailboxTyped
  <2>5. ServerTyped'
    BY <1>0, <1>2 DEF ProcessPacket, server, ServerTyped
  <2>6. QED BY <2>1, <2>2, <2>4, <2>5, TypeParts
<1>3. CASE MatchReply
  <2>1. PlacesTyped'
    BY <1>0, <1>3, GoingOn DEF MatchReply, Places, Returns
  <2>2. SocketTyped' /\ ServerTyped'
    BY <1>0, <1>3 DEF MatchReply, server, SocketTyped, ServerTyped
  <2>3. expected_arrived' \in BOOLEAN /\ heard' \in [sent : BOOLEAN, armed : BOOLEAN]
    BY <1>0, <1>3, Zenon DEF MatchReply, MailboxTyped
  <2>4. MailboxTyped'
    BY <1>0, <1>3, <2>3 DEF MatchReply, MailboxTyped
  <2>5. QED BY <2>1, <2>2, <2>4, TypeParts
<1>4. QED BY <1>1, <1>2, <1>3

\* So do the server and the network.
LEMMA NetworkTypes ==
    ASSUME LinkTypeOK, ServerSends \/ PeerGone \/ PeerReset
    PROVE  LinkTypeOK'
<1>0. PlacesTyped /\ SocketTyped /\ MailboxTyped /\ ServerTyped
  BY TypeParts
<1>1. PlacesTyped' /\ SocketTyped' /\ MailboxTyped'
  BY <1>0 DEF ServerSends, PeerGone, PeerReset, network, mailbox, PlacesTyped, SocketTyped, MailboxTyped
<1>2. ServerTyped'
  <2>1. CASE ServerSends
    <3>1. Answers \subseteq Replies
      BY DEF Answers
    <3>2. inbox' \in Seq(Replies) /\ request' \in {"none", request}
      <4>1. PICK r \in Replies : inbox' = Append(inbox, r) /\ request' \in {"none", request}
        BY <2>1, <3>1 DEF ServerSends
      <4>2. QED BY <1>0, <4>1 DEF ServerTyped
    <3>3. QED BY <1>0, <2>1, <3>2 DEF ServerSends, network, ServerTyped
  <2>2. CASE PeerGone \/ PeerReset
    <3>1. /\ peer' \in {"gone", "reset"} /\ request' \in {"none", request}
          /\ inbox' \in {inbox, <<>>} /\ reply' = reply
      BY <2>2 DEF PeerGone, PeerReset, network
    <3>2. inbox' \in Seq(Replies)
      <4>1. CASE inbox' = inbox
        BY <1>0, <4>1 DEF ServerTyped
      <4>2. CASE inbox' = <<>>
        BY <4>2
      <4>3. QED BY <3>1, <4>1, <4>2
    <3>3. request' \in {"none", "AUTH_FEEDER", "SK_REQUEST"}
      BY <1>0, <3>1 DEF ServerTyped
    <3>4. reply' \in Replies \cup {NoReply}
      BY <1>0, <3>1 DEF ServerTyped
    <3>5. QED BY <3>1, <3>2, <3>3, <3>4 DEF ServerTyped
  <2>3. QED BY <2>1, <2>2
<1>3. QED BY <1>1, <1>2, TypeParts

\* Every step, stuttering included.
LEMMA TypesStep ==
    ASSUME LinkTypeOK, [LinkNext]_vars
    PROVE  LinkTypeOK'
<1>1. CASE UNCHANGED vars
  BY <1>1 DEF vars, mailbox, server, LinkTypeOK
<1>2. CASE MonitorNext
  <2>1. CASE SendPacket("monitor") \/ Close("monitor") \/ Unset("monitor")
    BY <2>1, SenderTypes, TheThreads DEF SenderNext
  <2>2. QED BY <1>2, <2>1, MonitorTypes
<1>3. CASE ReaderNext
  BY <1>3, SenderTypes, ReaderTypes, TheThreads DEF ReaderNext
<1>4. CASE \E t \in Senders : SenderNext(t)
  BY <1>4, SenderTypes, TheThreads
<1>5. CASE ServerSends \/ PeerGone \/ PeerReset
  BY <1>5, NetworkTypes
<1>6. QED BY <1>1, <1>2, <1>3, <1>4, <1>5 DEF LinkNext

-------------------------------------------------------------------------------
(* The answer to this wait                                                    *)

\* What the wait asks for does not change while it is on.
LEMMA WantStays ==
    sharing_key' = sharing_key => Want' = Want /\ WantId' = WantId
BY DEF Want, WantId

\* A step of another thread leaves the monitor where it is.
LEMMA MonitorStays ==
    ASSUME LinkTypeOK, NEW t \in Threads, t # "monitor"
    PROVE  /\ \A where \in Places : Goto(t, where) => pc'["monitor"] = pc["monitor"]
           /\ \A next \in Returns : ThenDisconnect(t, next) => pc'["monitor"] = pc["monitor"]
BY TheThreads DEF LinkTypeOK, Goto, ThenDisconnect

\* Where nothing changes that the wait looks at, it is as answered as before.
LEMMA AnsweredStays ==
    ASSUME Answered, pc'["monitor"] = pc["monitor"], UNCHANGED <<mailbox, sharing_key, heard>>
    PROVE  Answered'
BY WantStays DEF Answered, mailbox

\* The monitor's own steps: arming the wait clears expected_arrived, and it goes on
\* to accept only when the AUTH_OK has arrived.
LEMMA AnsweredMonitor ==
    ASSUME LinkTypeOK, Answered, MonitorNext
    PROVE  Answered'
<1> USE TheThreads
<1>0. pc \in [Threads -> Places]
  BY TypeParts DEF PlacesTyped
<1>1. CASE ArmWait
  <2>1. pc'["monitor"] = "wait"
    BY <1>0, <1>1 DEF ArmWait, Goto
  <2>2. ~expected_arrived' /\ expected' = Want' /\ expected_id' = WantId'
    BY <1>1, WantStays DEF ArmWait
  <2>3. QED BY <2>1, <2>2 DEF Answered
<1>2. CASE ReplyArrived
  <2>1. CASE Want = "AUTH_OK"
    <3>1. pc'["monitor"] = "accept" /\ heard' = heard
      BY <1>0, <1>2, <2>1 DEF ReplyArrived, Goto
    <3>2. heard.armed
      BY <1>2, <2>1 DEF ReplyArrived, Answered
    <3>3. QED BY <3>1, <3>2 DEF Answered
  <2>2. CASE Want # "AUTH_OK"
    <3>1. pc'["monitor"] = "close"
      BY <1>0, <1>2, <2>2 DEF ReplyArrived, ThenDisconnect
    <3>2. QED BY <3>1 DEF Answered
  <2>3. QED BY <2>1, <2>2
<1>3. CASE Unset("monitor")
  <2>1. pc'["monitor"] \in Returns
    BY <1>0, <1>3, TypeParts DEF Unset, PlacesTyped
  <2>2. QED BY <2>1 DEF Answered, Returns
<1>4. CASE ~ArmWait /\ ~ReplyArrived /\ ~Unset("monitor")
  <2>1. CASE InitialCom \/ Connected \/ ConnectFails
    <3>1. pc'["monitor"] \notin {"wait", "accept"}
      BY <1>0, <2>1 DEF InitialCom, Connected, ConnectFails, Goto, ThenDisconnect
    <3>2. QED BY <3>1 DEF Answered
  <2>2. CASE SendKey \/ SendKeyGivesUp
    <3>1. pc'["monitor"] \notin {"wait", "accept"}
      BY <1>0, <2>2 DEF SendKey, SendKeyGivesUp, SendSucceeds, SendFails, Goto, ThenDisconnect
    <3>2. QED BY <3>1 DEF Answered
  <2>3. CASE ArmNotConnected \/ WaitTimesOut \/ Accept \/ SysInfo
    <3>1. pc'["monitor"] \notin {"wait", "accept"}
      BY <1>0, <2>3 DEF ArmNotConnected, WaitTimesOut, Accept, SysInfo, Goto, ThenDisconnect
    <3>2. QED BY <3>1 DEF Answered
  <2>4. CASE MonitorReconnects \/ MonitorPings
    <3>1. pc'["monitor"] \notin {"wait", "accept"}
      BY <1>0, <2>4 DEF MonitorReconnects, MonitorPings, Goto, ThenDisconnect
    <3>2. QED BY <3>1 DEF Answered
  <2>5. CASE SendPacket("monitor") \/ Close("monitor")
    <3>1. pc'["monitor"] \notin {"wait", "accept"}
      BY <1>0, <2>5 DEF SendPacket, SendSucceeds, SendFails, Close, Goto, ThenDisconnect
    <3>2. QED BY <3>1 DEF Answered
  <2>6. QED BY <1>4, <2>1, <2>2, <2>3, <2>4, <2>5 DEF MonitorNext
<1>5. QED BY <1>1, <1>2, <1>3, <1>4

\* Senders, and the reader's sending and disconnecting, do not touch the mailbox.
LEMMA AnsweredSender ==
    ASSUME LinkTypeOK, Answered, NEW t \in Threads, t # "monitor", SenderNext(t)
    PROVE  Answered'
<1>1. UNCHANGED <<mailbox, sharing_key, heard>>
  BY DEF SenderNext, CheckInited, SendPacket, Close, Unset
<1>2. pc'["monitor"] = pc["monitor"]
  <2>1. CASE CheckInited(t) \/ Close(t)
    BY <2>1, MonitorStays DEF CheckInited, Close, Places
  <2>2. CASE SendPacket(t)
    BY <2>2, MonitorStays, TheThreads DEF SendPacket, SendSucceeds, SendFails, Places, Returns
  <2>3. CASE Unset(t)
    BY <2>3, TheThreads DEF Unset, LinkTypeOK
  <2>4. QED BY <2>1, <2>2, <2>3 DEF SenderNext
<1>3. QED BY <1>1, <1>2, AnsweredStays

\* The reader sets expected_arrived only with an AUTH_OK that is for the wait's id,
\* and that is what heard.armed records.
LEMMA AnsweredReader ==
    ASSUME LinkTypeOK, Answered, Receive \/ ProcessPacket \/ MatchReply
    PROVE  Answered'
<1>0. "reader" \in Threads /\ "reader" # "monitor"
  BY TheThreads
<1>1. CASE Receive
  <2>1. pc'["monitor"] = pc["monitor"]
    BY <1>0, <1>1, MonitorStays DEF Receive, Places
  <2>2. QED BY <1>1, <2>1, AnsweredStays DEF Receive
<1>2. CASE ProcessPacket
  <2>1. pc'["monitor"] = pc["monitor"]
    BY <1>0, <1>2, MonitorStays DEF ProcessPacket, Places, Returns
  <2>2. QED BY <1>2, <2>1, AnsweredStays DEF ProcessPacket
<1>3. CASE MatchReply
  <2>1. pc'["monitor"] = pc["monitor"]
    BY <1>0, <1>3, MonitorStays DEF MatchReply, Places, Returns
  <2>2. heard.armed => heard'.armed
    BY <1>3 DEF MatchReply
  <2>3. ASSUME pc["monitor"] = "wait", Want = "AUTH_OK", expected_arrived'
        PROVE  heard'.armed
    <3>1. CASE expected_arrived
      BY <2>2, <2>3, <3>1 DEF Answered
    <3>2. CASE ~expected_arrived
      <4>1. reply.status = expected /\ ForUs(reply, expected_id)
        BY <1>3, <2>3, <3>2 DEF MatchReply
      <4>2. expected = "AUTH_OK" /\ expected_id = 2
        BY <2>3 DEF Answered, Want, WantId
      <4>3. QED BY <1>3, <2>3, <4>1, <4>2 DEF MatchReply
    <3>3. QED BY <3>1, <3>2
  <2>4. expected' = expected /\ expected_id' = expected_id /\ Want' = Want /\ WantId' = WantId
    BY <1>3, WantStays DEF MatchReply
  <2>5. QED BY <2>1, <2>2, <2>3, <2>4 DEF Answered
<1>4. QED BY <1>1, <1>2, <1>3

\* Every step of any thread, of the server and of the network.
LEMMA ReplyInvStep == ReplyInv /\ [LinkNext]_vars => ReplyInv'
<1>1. SUFFICES ASSUME LinkTypeOK, Answered, [LinkNext]_vars PROVE Answered'
  BY TypesStep DEF ReplyInv
<1>2. CASE UNCHANGED vars
  BY <1>1, <1>2, AnsweredStays DEF vars
<1>3. CASE MonitorNext
  BY <1>1, <1>3, AnsweredMonitor
<1>4. CASE ReaderNext
  BY <1>1, <1>4, AnsweredReader, AnsweredSender, TheThreads DEF ReaderNext
<1>5. CASE \E t \in Senders : SenderNext(t)
  BY <1>1, <1>5, AnsweredSender, TheThreads
<1>6. CASE ServerSends \/ PeerGone \/ PeerReset
  BY <1>1, <1>6, AnsweredStays DEF ServerSends, PeerGone, PeerReset, network
<1>7. QED BY <1>1, <1>2, <1>3, <1>4, <1>5, <1>6 DEF LinkNext

\* At the start nobody waits, and the key in the ini file is one of the three kinds.
LEMMA ReplyInvInit == LinkInit => ReplyInv
<1>1. SUFFICES ASSUME LinkInit PROVE LinkTypeOK /\ Answered
  BY DEF ReplyInv
<1>2. pc = [t \in Threads |-> IF t = "monitor" THEN "initial" ELSE "idle"]
  BY <1>1 DEF LinkInit
<1>3. PlacesTyped
  BY <1>1, <1>2 DEF LinkInit, PlacesTyped, Places, Returns
<1>4. SocketTyped /\ MailboxTyped
  BY <1>1 DEF LinkInit, SocketTyped, MailboxTyped, Ids, Unheard
<1>5. ServerTyped
  BY <1>1 DEF LinkInit, ServerTyped
<1>6. pc["monitor"] = "initial"
  BY <1>2, TheThreads
<1>7. QED BY <1>3, <1>4, <1>5, <1>6, TypeParts DEF Answered

\* So the two hold whatever the threads, the server and the network do.
LEMMA LinkInductive == LinkSpec => []ReplyInv
<1>1. QED BY ReplyInvInit, ReplyInvStep, PTL DEF LinkSpec

-------------------------------------------------------------------------------

\* The socket, the mailbox, the key and every thread's place keep their types, for
\* any number of threads that share them without a lock.
THEOREM LinkTypeCorrect == LinkSpec => []LinkTypeOK
<1>1. ReplyInv => LinkTypeOK
  BY DEF ReplyInv
<1>2. QED BY LinkInductive, <1>1, PTL

\* airnav_com_inited is set only by the monitor when its wait was answered: an AUTH_OK
\* for its id was processed since the wait was armed.
THEOREM OpensOnlyOnReply == LinkSpec => AcceptedOnlyByReply
<1>1. ASSUME ReplyInv, [LinkNext]_vars
      PROVE  [~inited /\ inited' => heard.armed]_vars
  <2>1. CASE Accept
    BY <1>1, <2>1 DEF Accept, ReplyInv, Answered
  <2>2. CASE ~Accept
    <3>1. CASE MonitorNext
      BY <2>2, <3>1 DEF MonitorNext, InitialCom, Connected, ConnectFails, SendKey, SendKeyGivesUp, ArmWait,
         ArmNotConnected, ReplyArrived, WaitTimesOut, SysInfo, MonitorReconnects, MonitorPings,
         SendPacket, Close, Unset
    <3>2. CASE ReaderNext \/ \E t \in Senders : SenderNext(t)
      BY <3>2 DEF ReaderNext, SenderNext, Receive, ProcessPacket, MatchReply, CheckInited, SendPacket,
         Close, Unset
    <3>3. CASE ServerSends \/ PeerGone \/ PeerReset
      BY <3>3 DEF ServerSends, PeerGone, PeerReset, network
    <3>4. QED BY <1>1, <3>1, <3>2, <3>3 DEF LinkNext, vars
  <2>3. QED BY <2>1, <2>2
<1>2. QED BY LinkInductive, <1>1, PTL DEF LinkSpec, AcceptedOnlyByReply
===============================================================================
