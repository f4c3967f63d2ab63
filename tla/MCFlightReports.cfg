CONSTANTS
    Aircraft = {a}
    Fields = {"altitude"}
    Values = {zero, high}
    Zero = zero
    NoData = NoData
    Interval = 1
    Nodes = {1, 2, 3}
SPECIFICATION Spec
INVARIANTS ReportsTypeOK NodeConservation AltitudeReported
PROPERTIES AltitudeThrottled FlistServed 
