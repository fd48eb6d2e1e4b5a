CONSTANT Inputs <- MCInputs
SPECIFICATION Spec
INVARIANTS TypeOK WireWellFormed BufferBounded EncodesExactlySupported DecodeConsumes
