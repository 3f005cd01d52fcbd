SPECIFICATION Spec

CONSTANTS
    None = None
    f1 = f1
    f2 = f2
    v0 = v0
    v1 = v1
    prod1 = prod1
    sim1 = sim1
    proxy1 = proxy1
    hollow = hollow
    other = other
    b1 = b1
    b2 = b2
    Features = {f1, f2}
    ServiceObjects = {prod1, proxy1, sim1, hollow, other}
    Backends = {b1, b2}
    BackendOf <- MCBackendOf
    Accepting <- MCAccepting
    Production <- MCProduction
    Simulation <- MCSimulation
    Destroyable = {}
    Proxies = {proxy1}
    Values = {v0, v1}
    Default = v0
    PrivateIVI = TRUE

INVARIANT TypeOK
INVARIANT InitializedHoldsBackendState
INVARIANT AnnouncedValidity
SYMMETRY FeatureSymmetry
