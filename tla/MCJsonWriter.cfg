\* Buffer of 5 bytes, documents of at most 7 bytes over two characters.
CONSTANTS
    Char = {"a", "b"}
    NUL = "NUL"
    Texts <- MCTexts
    Capacity = 5
    MaxDocument = 7
SPECIFICATION Spec
INVARIANTS
    Terminated
    TruncatedIsExact
PROPERTY KeepsPromise
