CONSTANT Inputs <- MCRoundTripInputs
SPECIFICATION Spec
INVARIANT RoundTrip
