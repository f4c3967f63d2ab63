CONSTANTS
    Aircraft = {a}
    Fields = {"altitude", "callsign"}
    Values = {zero, other}
    Zero = zero
    NoData = NoData
    Interval = 1
    Nodes = {1, 2}
SPECIFICATION Spec
INVARIANTS CallsignReported
