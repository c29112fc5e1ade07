CONSTANTS
    Program <- Programs
    TypeOf <- Types
    Start <- Starts
    Width = 5
    ByteWidth = 4
SPECIFICATION Spec
INVARIANTS Agree IRVerifies
PROPERTY GetsOn
