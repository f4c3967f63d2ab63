CONSTANTS
    plane = plane
    Junk = zero
    NoAircraft = NoAircraft
    EMPTY = EMPTY
    Addr <- MCAddr
    Keys <- MCKeys
    hash <- MCHash
    Size = 2
    TTL = 1
    StaleInterval <- MCStale
    ExpireInterval <- MCExpire
    MaxElapsed = 0
    AircraftTTL = 2
    UnreliableTTL = 1
    MinDF11 = 1
    MinDF17 = 2
    MinAny = 3
    Located = FALSE
    Received <- MCReceived
    nfix_crc = 1
    fix_df = TRUE
    Payloads <- MCPayloads
    MaxErrors <- MCMaxErrors
SPECIFICATION Spec
INVARIANTS TrackTypeOK PositionAnchored CorrectionsRight
PROPERTIES ImplementsAddressMemory AddressParityVouched SilentAircraftGo
