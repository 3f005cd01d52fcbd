--------------------------- MODULE AbstractFeature ---------------------------
(***************************************************************************)
(* The life cycle of a Qt IVI feature: QIviAbstractFeature and the code    *)
(* ivigenerator writes for a feature class around it (interface.cpp.tpl).  *)
(* A feature is handed a service object, connects to the backend behind    *)
(* it, asks the backend to initialize, and mirrors the backend's property  *)
(* from then on.  Several features may share one backend: its signals go   *)
(* to every connected feature.  Everything here runs in one thread, so     *)
(* every call is one step; what interleaves is the order of the calls, the *)
(* answer of a backend that initializes asynchronously, and the deletion   *)
(* of a service object by its owner.                                       *)
(***************************************************************************)
EXTENDS Naturals, Sequences, FiniteSets

CONSTANTS
    Features,        \* feature instances
    ServiceObjects,  \* QIviServiceObject instances
    Backends,        \* QIviFeatureInterface instances
    BackendOf,       \* interfaceInstance(interfaceName()) of a service object
    Accepting,       \* service objects acceptServiceObject() says yes to
    Production,      \* findServiceByInterface(.., IncludeProductionBackends)
    Simulation,      \* findServiceByInterface(.., IncludeSimulationBackends)
    Destroyable,     \* service objects whose owner may delete them
    Proxies,         \* user made QIviProxyServiceObjects: backends outlive them
    Values,          \* values of the mirrored property
    Default,         \* the value clearToDefaults() resets it to
    PrivateIVI,      \* FALSE: generated with the disablePrivateIVI option
    None             \* nullptr

Mode == {"NoAutoDiscovery", "AutoDiscovery", "LoadOnlyProductionBackends",
         "LoadOnlySimulationBackends"}
Result == {"NoResult", "ErrorWhileLoading", "ProductionBackendLoaded",
           "SimulationBackendLoaded"}

ASSUME FeatureAssumption ==
    /\ None \notin ServiceObjects \cup Backends
    /\ BackendOf \in [ServiceObjects -> Backends \cup {None}]
    /\ Accepting \subseteq ServiceObjects
    /\ Production \in Seq(Accepting) /\ Simulation \in Seq(Accepting)
    /\ Destroyable \subseteq ServiceObjects
    /\ Proxies \subseteq ServiceObjects
    /\ Default \in Values
    /\ PrivateIVI \in BOOLEAN

VARIABLES
    serviceObject,    \* m_serviceObject of each feature
    isInitialized,    \* m_isInitialized
    isConnected,      \* m_isConnected
    watched,          \* objects whose destroyed() reaches serviceObjectDestroyed
    baseLinks,        \* backends whose errorChanged/initializationDone arrive
    propertyLinks,    \* backends whose property signal arrives
    property,         \* the mirrored property
    announcedValid,   \* argument of the last isValidChanged() signal
    discoveryMode,    \* m_discoveryMode
    discoveryResult,  \* m_discoveryResult
    alive,            \* service objects not yet deleted
    state,            \* the backends' own value of the property
    owed              \* backends asked to initialize that have not answered

featureVars == <<serviceObject, isInitialized, isConnected, watched, baseLinks,
                 propertyLinks, property, announcedValid>>
discoveryVars == <<discoveryMode, discoveryResult>>
vars == <<featureVars, discoveryVars, alive, state, owed>>

\* QIviAbstractFeaturePrivate::backend(), for a service object that may be null
Backend(so) == IF so = None THEN None ELSE BackendOf[so]

TypeOK ==
    /\ serviceObject \in [Features -> ServiceObjects \cup {None}]
    /\ isInitialized \in [Features -> BOOLEAN]
    /\ isConnected \in [Features -> BOOLEAN]
    /\ watched \in [Features -> SUBSET ServiceObjects]
    /\ baseLinks \in [Features -> SUBSET Backends]
    /\ propertyLinks \in [Features -> SUBSET Backends]
    /\ property \in [Features -> Values]
    /\ announcedValid \in [Features -> BOOLEAN]
    /\ discoveryMode \in [Features -> Mode]
    /\ discoveryResult \in [Features -> Result]
    /\ alive \subseteq ServiceObjects
    /\ state \in [Backends -> Values]
    /\ owed \subseteq Backends

Init ==
    /\ serviceObject = [f \in Features |-> None]
    /\ isInitialized = [f \in Features |-> FALSE]
    /\ isConnected = [f \in Features |-> FALSE]
    /\ watched = [f \in Features |-> {}]
    /\ baseLinks = [f \in Features |-> {}]
    /\ propertyLinks = [f \in Features |-> {}]
    /\ property = [f \in Features |-> Default]
    /\ announcedValid = [f \in Features |-> FALSE]
    /\ discoveryMode = [f \in Features |-> "AutoDiscovery"]
    /\ discoveryResult = [f \in Features |-> "NoResult"]
    /\ alive = ServiceObjects
    /\ state \in [Backends -> Values]
    /\ owed = {}

------------------------------------------------------------------------------
(* disconnectFromServiceObject: what is left of the links of f.  The default *)
(* implementation disconnects the backend from the feature object; with      *)
(* disablePrivateIVI the property slots live in another object.              *)
UnlinkedKeepsBackend(f) == baseLinks[f]

Unlinked(f) == baseLinks[f] \ {Backend(serviceObject[f])}
PropertyUnlinked(f) ==
    IF PrivateIVI THEN propertyLinks[f] \ {Backend(serviceObject[f])}
                  ELSE propertyLinks[f]

\* disconnectFromServiceObject resets m_isInitialized and m_isConnected, if
\* there is a service object to disconnect from.
StaysInitializedUnreset(f) == isInitialized[f]

StaysInitialized(f) == serviceObject[f] = None /\ isInitialized[f]
StaysConnected(f) == serviceObject[f] = None /\ isConnected[f]

\* the argument of the last isValidChanged() after clearing f for so
ClearAnnouncesOnlyNull(f, so) == IF so = None THEN FALSE ELSE announcedValid[f]

ClearAnnounces(f, so) ==
    IF so = None \/ serviceObject[f] # None THEN FALSE ELSE announcedValid[f]

\* destroyed() is connected only for an object f connected to completely
WatchedPrevious(f, so, connected) ==
    watched[f] \cup (IF connected THEN {serviceObject[f]} ELSE {})

WatchedForgets(f, so, connected) == watched[f] \ {serviceObject[f]}

Watched(f, so, connected) ==
    (watched[f] \ {serviceObject[f]}) \cup (IF connected THEN {so} ELSE {})

\* connectToServiceObject calls initialize(), which may leave an answer owed
OwedUnasked(b, answered) == owed

Owed(b, answered) == IF b = None \/ answered THEN owed ELSE owed \cup {b}

(* setServiceObject(so) with a null or an unaccepted object: f lets go of    *)
(* the one it has and clearServiceObject() resets the property.  A rejected  *)
(* object tells the user only if there was something to let go of.           *)
Clear(f, so) ==
    /\ so # serviceObject[f]
    /\ so = None \/ so \in alive \ Accepting
    /\ serviceObject' = [serviceObject EXCEPT ![f] = None]
    /\ isInitialized' = [isInitialized EXCEPT ![f] = StaysInitialized(f)]
    /\ isConnected' = [isConnected EXCEPT ![f] = StaysConnected(f)]
    /\ watched' = [watched EXCEPT ![f] = @ \ {serviceObject[f]}]
    /\ baseLinks' = [baseLinks EXCEPT ![f] = Unlinked(f)]
    /\ propertyLinks' = [propertyLinks EXCEPT ![f] = PropertyUnlinked(f)]
    /\ property' = [property EXCEPT ![f] = Default]
    /\ announcedValid' = [announcedValid EXCEPT ![f] = ClearAnnounces(f, so)]
    /\ UNCHANGED <<alive, state, owed>>

(* setServiceObject(so) with an accepted object: leave the old one, connect  *)
(* to the backend of the new one and call initialize() on it.  A backend     *)
(* answers within the call (answered) or owes the answer; either way its     *)
(* signals reach every feature linked to it.  connectToServiceObject of a    *)
(* generated feature returns early when there is no backend: the feature     *)
(* then keeps so without watching for its destruction.                       *)
Attach(f, so, answered) ==
    LET b == BackendOf[so]
        linked == [baseLinks EXCEPT ![f] = Unlinked(f) \cup ({b} \ {None})]
        mirrored == [propertyLinks EXCEPT
                        ![f] = PropertyUnlinked(f) \cup ({b} \ {None})]
        connected == b # None \/ StaysConnected(f)
    IN
    /\ so # serviceObject[f]
    /\ so \in alive \cap Accepting
    /\ serviceObject' = [serviceObject EXCEPT ![f] = so]
    /\ baseLinks' = linked
    /\ propertyLinks' = mirrored
    /\ isConnected' = [isConnected EXCEPT ![f] = connected]
    /\ watched' = [watched EXCEPT ![f] = Watched(f, so, connected)]
    /\ announcedValid' = [announcedValid EXCEPT ![f] = TRUE]
    /\ isInitialized' = [g \in Features |->
                            \/ answered /\ b \in linked[g]
                            \/ IF g = f THEN StaysInitialized(f)
                                        ELSE isInitialized[g]]
    /\ property' = [g \in Features |-> IF answered /\ b \in mirrored[g]
                                       THEN state[b] ELSE property[g]]
    /\ owed' = Owed(b, answered)
    /\ UNCHANGED <<alive, state>>

SetServiceObject(f, so) ==
    /\ \/ Clear(f, so)
       \/ so # None /\ \E answered \in BOOLEAN :
                            /\ BackendOf[so] = None => ~answered
                            /\ Attach(f, so, answered)
    /\ UNCHANGED discoveryVars

------------------------------------------------------------------------------
SetDiscoveryMode(f, mode) ==
    /\ mode # discoveryMode[f]
    /\ discoveryMode' = [discoveryMode EXCEPT ![f] = mode]
    /\ UNCHANGED <<featureVars, discoveryResult, alive, state, owed>>

\* result is assigned before each of the two searches
SimulationResult == "SimulationBackendLoaded"

\* whether setServiceObject(so) returns true during discovery
Succeeds(f, so) == BackendOf[so] # None \/ isConnected[f]

\* the positions of service objects of a list that are there, and succeed
Found(list) == {i \in DOMAIN list : list[i] \in alive}

SucceedingInIgnored(f, list) == Found(list)

SucceedingIn(f, list) == {i \in Found(list) : Succeeds(f, list[i])}

(* startAutoDiscovery: the service objects found are tried in order until    *)
(* one succeeds, production before simulation.  Each failing attempt leaves  *)
(* its object set, and the next one replaces it.                             *)
StartAutoDiscovery(f) ==
    LET mode == discoveryMode[f]
        production == IF mode \in {"AutoDiscovery", "LoadOnlyProductionBackends"}
                      THEN Production ELSE <<>>
        simulation == IF mode \in {"AutoDiscovery", "LoadOnlySimulationBackends"}
                      THEN Simulation ELSE <<>>
        tried == production \o simulation
        Ends(result) == discoveryResult' = [discoveryResult EXCEPT ![f] = result]
        Use(so) == \E answered \in BOOLEAN : /\ BackendOf[so] = None => ~answered
                                             /\ Attach(f, so, answered)
        UseFirst(list) == \E i \in SucceedingIn(f, list) :
                              /\ \A k \in SucceedingIn(f, list) : i <= k
                              /\ Use(list[i])
    IN
    /\ UNCHANGED discoveryMode
    /\ \/ /\ serviceObject[f] # None \/ mode = "NoAutoDiscovery"
          /\ Ends("NoResult")
          /\ UNCHANGED <<featureVars, alive, state, owed>>
       \/ /\ serviceObject[f] = None /\ mode # "NoAutoDiscovery"
          /\ \/ /\ UseFirst(production)
                /\ Ends("ProductionBackendLoaded")
             \/ /\ SucceedingIn(f, production) = {}
                /\ UseFirst(simulation)
                /\ Ends(SimulationResult)
             \/ /\ SucceedingIn(f, tried) = {}
                /\ \/ /\ Found(tried) = {}
                      /\ UNCHANGED <<featureVars, alive, state, owed>>
                   \/ \E i \in Found(tried) : /\ \A k \in Found(tried) : k <= i
                                               /\ Use(tried[i])
                /\ Ends("ErrorWhileLoading")

------------------------------------------------------------------------------
\* the backend reports its property to the features linked to it
Report(b, value) ==
    property' = [f \in Features |-> IF b \in propertyLinks[f] THEN value
                                                              ELSE property[f]]

\* A backend some live service object still offers
Present(b) == \E so \in alive : BackendOf[so] = b

(* The property changes in the backend, by a setter of any feature or on its *)
(* own: the backend emits the change, onPropertyChanged stores it.           *)
BackendChange(b, value) ==
    /\ Present(b) \/ (\E so \in Proxies : BackendOf[so] = b)
    /\ state[b] # value
    /\ state' = [state EXCEPT ![b] = value]
    /\ Report(b, value)
    /\ UNCHANGED <<serviceObject, isInitialized, isConnected, watched, baseLinks,
                   propertyLinks, announcedValid, discoveryVars, alive, owed>>

(* The answer to initialize(): the backend emits its property and then       *)
(* initializationDone(), which every linked feature receives.                *)
InitializationDone(b) ==
    /\ b \in owed
    /\ owed' = owed \ {b}
    /\ Report(b, state[b])
    /\ isInitialized' = [f \in Features |-> b \in baseLinks[f] \/ isInitialized[f]]
    /\ UNCHANGED <<serviceObject, isConnected, watched, baseLinks, propertyLinks,
                   announcedValid, discoveryVars, alive, state>>

(* The owner deletes a service object.  The service manager deletes the      *)
(* backend with it, which drops its links; a proxy's backend lives on.       *)
(* serviceObjectDestroyed() of the features that watch it clears the property *)
(* and emits serviceObjectChanged().                                         *)
Destroy(so) ==
    LET told == {f \in Features : so \in watched[f]}
        gone == IF so \in Proxies THEN {} ELSE {BackendOf[so]} IN
    /\ so \in alive \cap Destroyable
    /\ alive' = alive \ {so}
    /\ serviceObject' = [f \in Features |-> IF f \in told THEN None
                                                          ELSE serviceObject[f]]
    /\ property' = [f \in Features |-> IF f \in told THEN Default ELSE property[f]]
    /\ watched' = [f \in Features |-> watched[f] \ {so}]
    /\ baseLinks' = [f \in Features |-> baseLinks[f] \ gone]
    /\ propertyLinks' = [f \in Features |-> propertyLinks[f] \ gone]
    /\ owed' = owed \ gone
    /\ UNCHANGED <<isInitialized, isConnected, announcedValid, discoveryVars, state>>

Next ==
    \/ \E f \in Features :
        \/ \E so \in ServiceObjects \cup {None} : SetServiceObject(f, so)
        \/ \E mode \in Mode : SetDiscoveryMode(f, mode)
        \/ StartAutoDiscovery(f)
    \/ \E b \in Backends :
        \/ \E value \in Values : BackendChange(b, value)
        \/ InitializationDone(b)
    \/ \E so \in ServiceObjects : Destroy(so)

\* An asynchronous backend keeps running: it answers initialize() in the end.
Fairness == \A b \in Backends : WF_vars(InitializationDone(b))

Spec == Init /\ [][Next]_vars
FairSpec == Spec /\ Fairness

------------------------------------------------------------------------------
(* An initialized feature has a backend and holds the backend's value: what  *)
(* isInitialized promises its reader.  It takes the disconnect, reset and    *)
(* initialize steps of setServiceObject together, over any sequence of       *)
(* switches between service objects, with other features on the backend.     *)
InitializedHoldsBackendState ==
    \A f \in Features : isInitialized[f] =>
        LET b == Backend(serviceObject[f]) IN b # None /\ property[f] = state[b]

(* A feature hears only the backend of its current service object: a backend *)
(* it was switched away from, or whose proxy is gone, can change nothing in  *)
(* it any more.                                                              *)
LinkedOnlyToCurrentBackend ==
    \A f \in Features :
        baseLinks[f] \cup propertyLinks[f] \subseteq {Backend(serviceObject[f])}

\* m_serviceObject never points to a deleted service object.
NoDanglingServiceObject ==
    \A f \in Features : serviceObject[f] \in alive \cup {None}

(* Whoever follows isValidChanged() knows isValid(): every path that takes   *)
(* the service object away or sets one announces it.                         *)
AnnouncedValidity ==
    \A f \in Features : announcedValid[f] <=> serviceObject[f] # None

(* What discovery found, read off the feature it leaves: a service object of  *)
(* the kind it reports that has a backend.  A feature whose last service      *)
(* object was deleted counts as connected (StaysConnected), takes the first   *)
(* object it tries for a success, and is excepted.                            *)
LoadedFrom(f, list) ==
    /\ isConnected'[f]
    /\ \E i \in DOMAIN list : serviceObject'[f] = list[i]
    /\ StaysConnected(f) \/ Backend(serviceObject'[f]) # None

(* A discovery that ends in an error leaves the feature without a backend,   *)
(* one that ends in success leaves it connected to one of the kind it        *)
(* reports, and one that reports nothing leaves it as it was, whatever the   *)
(* objects tried before did to the feature.                                  *)
DiscoveryResultIsTrue ==
    [][\A f \in Features : StartAutoDiscovery(f) =>
          CASE discoveryResult'[f] = "ErrorWhileLoading" ->
                  Backend(serviceObject'[f]) = None
            [] discoveryResult'[f] = "ProductionBackendLoaded" -> LoadedFrom(f, Production)
            [] discoveryResult'[f] = "SimulationBackendLoaded" -> LoadedFrom(f, Simulation)
            [] OTHER -> serviceObject'[f] = serviceObject[f]]_vars

(* "A production backend was loaded, as a result of auto discovery"          *)
(* (qiviabstractfeature.cpp:218), and the same of a simulation backend: a    *)
(* discovery that reports one leaves the feature with a backend.  The code   *)
(* reports it of a hollow object once an earlier object has been deleted.    *)
SuccessHasBackend ==
    [][\A f \in Features :
          StartAutoDiscovery(f)
          /\ discoveryResult'[f] \in {"ProductionBackendLoaded", "SimulationBackendLoaded"}
              => Backend(serviceObject'[f]) # None]_vars

(* Once a discovery is complete, isValid() tells whether a backend was found *)
(* (qiviabstractfeature.cpp:141): one that ends in an error leaves the       *)
(* feature invalid.  The code leaves it with the last object it tried.       *)
ErrorLeavesInvalid ==
    [][\A f \in Features :
          StartAutoDiscovery(f) /\ discoveryResult'[f] = "ErrorWhileLoading"
              => serviceObject'[f] = None]_vars

(* A feature that keeps a service object with a backend gets initialized: no *)
(* switch, no shared backend and no other feature's connection makes it lose *)
(* the answer it is waiting for.                                             *)
EventuallyInitialized ==
    \A f \in Features : \A so \in ServiceObjects :
        (serviceObject[f] = so /\ BackendOf[so] # None)
            ~> (isInitialized[f] \/ serviceObject[f] # so)

------------------------------------------------------------------------------
(* The strengthenings that make the invariants above inductive.              *)
\* A feature watches no service object but its current one.
WatchesOnlyCurrent == \A f \in Features : watched[f] \subseteq {serviceObject[f]}

\* Without deletions, a feature is linked to its backend and to nothing else.
LinkedExactly ==
    \A f \in Features :
        LET current == {Backend(serviceObject[f])} \ {None} IN
        baseLinks[f] = current /\ propertyLinks[f] = current

\* When every accepted object has a backend, each is watched from the start.
WatchesExactly == \A f \in Features : watched[f] = {serviceObject[f]} \ {None}
==============================================================================
