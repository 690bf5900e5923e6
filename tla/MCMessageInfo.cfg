CONSTANTS
    Values <- EdgeValues

SPECIFICATION Spec

INVARIANT FieldsRoundTrip
