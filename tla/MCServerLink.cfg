CONSTANTS
    Senders = {"stats"}
    Fds = {1, 2}
    MaxInbox = 2
SPECIFICATION LinkSpec
INVARIANT LinkTypeOK
PROPERTIES AcceptedOnlyByReply HalfOpenHeals DeadLinkNoticed KeepsTrying
