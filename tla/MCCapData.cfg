CONSTANTS
    Values <- EdgeValues

SPECIFICATION Spec

INVARIANT CapDataRoundTrip
