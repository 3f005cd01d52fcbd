SPECIFICATION FairSpec

CONSTANTS
    a = a
    b = b
    a1 = a1
    b1 = b1
    None = None
    Clients = {a, b}
    Calls = {a1, b1}
    Caller <- MCCaller
    Misfits = {}
    FunctorSets <- BothOrSuccess
    AbruptRestart = FALSE

INVARIANT TypeOK
INVARIANT OwnResult
INVARIANT FunctorFitsOutcome
PROPERTY SingleOutcome
PROPERTY EventuallyAnswered
