CONSTANTS
    Values <- EdgeValues

SPECIFICATION Spec

INVARIANT FaultRoundTrip
