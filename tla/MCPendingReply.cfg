SPECIFICATION Spec

CONSTANTS
    None = None
    Values = {v, w}
    Refused = {w}
    Thens = {t1, t2, t3}
    FunctorSets <- OnlySuccessOrBoth
    MaxCopies = 2
    NestedJs = FALSE

INVARIANT TypeOK
INVARIANT FunctorRunsOnce
PROPERTY SingleOutcome

CHECK_DEADLOCK FALSE
