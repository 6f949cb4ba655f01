\* Every key, nonce and message of a group of order 13, every share, and numbers
\* of a transaction past the precision of each form.
SPECIFICATION Spec
CONSTANTS
    N = 13
    X <- CurveX
    Odd <- CurveOdd
    Base = 4
    Width = 2
    BKs <- ServerBKs
    ChainIds = {0, 1, 2}
    Float = 3
    Dotted = 4
    Word = 5
    MaxValue = 150
    MaxDigits = 3
INVARIANTS
    TypeOK
    SignatureRecovers
    TransactionFromWallet
    ExportedIsKey
    ParsedAsMeant
CHECK_DEADLOCK FALSE
