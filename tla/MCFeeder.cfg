CONSTANTS
    Feed = Feed
    message = message
    Heartbeat = Heartbeat
    Input = Input
    Closed = Closed
    Absent = Absent
    Clients = {Feed, c1, c2}
    Outputs = {cooked, verbatim}
    Messages <- MCMessages
    Size <- MCSize
    Reserve = 2
    MODES_OUT_BUF_SIZE = 4
    net_output_flush_size = 3
    net_output_flush_interval = 1
    net_heartbeat_interval = 2
    NetModes = {0, 2}
    MaxSurveys = 1
    MODES_CLIENT_BUF_SIZE = 46
    mode_ac = TRUE
    BeastMessages <- MCBeastMessages
    Settings = {106, 74, 118, 86}
    Garbage <- MCGarbage
SPECIFICATION Spec
INVARIANTS FeederTypeOK StreamComplete ConnectionsCounted StreamsReadable
PROPERTIES ExternalFeedRestored HeartbeatsKeepUp SurveysEnd
