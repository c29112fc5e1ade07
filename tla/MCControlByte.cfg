CONSTANTS
    Program <- ByteLoop
    TypeOf <- Types
    Start <- Starts
    Width = 5
    ByteWidth = 4
SPECIFICATION Spec
INVARIANT Agree
