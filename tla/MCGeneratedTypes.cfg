SPECIFICATION Spec

INVARIANT FieldsRoundTrip
INVARIANT CapDataRoundTrip
INVARIANT FaultRoundTrip
INVARIANT PrioPropsRoundTrip
INVARIANT CapRightsRoundTrip
