---------------------------- MODULE FeatureProofs ----------------------------
(***************************************************************************)
(* Theorems about features: AbstractFeature, the life cycle of every one,  *)
(* for any features, service objects and backends; and AmFmTuner, what the *)
(* features of the tuner show, for any features, bands and stations.       *)
(***************************************************************************)
EXTENDS AbstractFeature, AmFmTuner, TLAPS

\* the part of TypeOK that setServiceObject and discovery both work on
ConnectionType ==
    /\ serviceObject \in [Features -> ServiceObjects \cup {None}]
    /\ isInitialized \in [Features -> BOOLEAN]
    /\ isConnected \in [Features -> BOOLEAN]
    /\ watched \in [Features -> SUBSET ServiceObjects]
    /\ baseLinks \in [Features -> SUBSET Backends]
    /\ propertyLinks \in [Features -> SUBSET Backends]
    /\ property \in [Features -> Values]
    /\ announcedValid \in [Features -> BOOLEAN]
    /\ alive \subseteq ServiceObjects
    /\ state \in [Backends -> Values]
    /\ owed \subseteq Backends

(* Discovery changes a feature only through setServiceObject: it attaches    *)
(* one of the objects it tried or leaves the feature alone.                  *)
LEMMA DiscoveryAttaches ==
    ASSUME TypeOK, NEW f \in Features, StartAutoDiscovery(f)
    PROVE  /\ UNCHANGED discoveryMode
           /\ \E result \in Result :
                 discoveryResult' = [discoveryResult EXCEPT ![f] = result]
           /\ \/ UNCHANGED <<featureVars, alive, state, owed>>
              \/ \E so \in ServiceObjects, answered \in BOOLEAN :
                    (BackendOf[so] = None => ~answered) /\ Attach(f, so, answered)
<1>1. \A so, answered : Attach(f, so, answered) => so \in ServiceObjects
  BY DEF Attach, TypeOK
<1>2. QED
  BY <1>1 DEF StartAutoDiscovery, Result, SimulationResult

\* Connecting a feature to an accepted service object keeps the types.
LEMMA AttachType ==
    ASSUME ConnectionType, NEW f \in Features, NEW so \in ServiceObjects,
           NEW answered \in BOOLEAN, Attach(f, so, answered),
           BackendOf[so] = None => ~answered
    PROVE  ConnectionType'
<1> USE FeatureAssumption DEF ConnectionType
<1>1. BackendOf[so] \in Backends \cup {None}
  OBVIOUS
<1>2. /\ serviceObject' \in [Features -> ServiceObjects \cup {None}]
      /\ isInitialized' \in [Features -> BOOLEAN]
      /\ isConnected' \in [Features -> BOOLEAN]
      /\ announcedValid' \in [Features -> BOOLEAN]
  BY <1>1 DEF Attach, StaysInitialized, StaysConnected
<1>3. watched' \in [Features -> SUBSET ServiceObjects]
  BY <1>1 DEF Attach, Watched
<1>4. baseLinks' \in [Features -> SUBSET Backends]
  BY <1>1 DEF Attach, Unlinked
<1>5. propertyLinks' \in [Features -> SUBSET Backends]
  BY <1>1 DEF Attach, PropertyUnlinked
<1>6. property' \in [Features -> Values]
  BY <1>1, <1>5 DEF Attach, PropertyUnlinked
<1>7. owed' \subseteq Backends
  BY <1>1 DEF Attach, Owed
<1>8. QED
  BY <1>2, <1>3, <1>4, <1>5, <1>6, <1>7 DEF Attach

\* Letting go of a service object keeps the types.
LEMMA ClearType ==
    ASSUME ConnectionType, NEW f \in Features, NEW so, Clear(f, so)
    PROVE  ConnectionType'
  BY FeatureAssumption
  DEF ConnectionType, Clear, StaysInitialized, StaysConnected, ClearAnnounces,
      Unlinked, PropertyUnlinked

------------------------------------------------------------------------------
\* Every variable of a feature and of a backend keeps its type.
THEOREM TypeCorrect == Spec => []TypeOK
<1>1. Init => TypeOK
  BY FeatureAssumption DEF Init, TypeOK, Mode, Result
<1>2. TypeOK /\ [Next]_vars => TypeOK'
  <2> SUFFICES ASSUME TypeOK, [Next]_vars PROVE TypeOK'
    OBVIOUS
  <2>0. ConnectionType
    BY DEF TypeOK, ConnectionType
  <2>1. ASSUME NEW f \in Features, NEW so \in ServiceObjects \cup {None},
               SetServiceObject(f, so)
        PROVE  TypeOK'
    <3>1. CASE Clear(f, so)
      BY <2>0, <2>1, <3>1, ClearType
      DEF SetServiceObject, TypeOK, ConnectionType, discoveryVars
    <3>2. CASE \E answered \in BOOLEAN : /\ BackendOf[so] = None => ~answered
                                         /\ Attach(f, so, answered)
      <4>1. so \in ServiceObjects
        BY <3>2 DEF Attach, TypeOK
      <4>2. QED
        BY <2>0, <2>1, <3>2, <4>1, AttachType
        DEF SetServiceObject, TypeOK, ConnectionType, discoveryVars
    <3>3. QED
      BY <2>1, <3>1, <3>2 DEF SetServiceObject
  <2>2. ASSUME NEW f \in Features, NEW mode \in Mode, SetDiscoveryMode(f, mode)
        PROVE  TypeOK'
    BY <2>2 DEF SetDiscoveryMode, TypeOK, featureVars
  <2>3. ASSUME NEW f \in Features, StartAutoDiscovery(f)
        PROVE  TypeOK'
    <3>1. discoveryMode' \in [Features -> Mode] /\ discoveryResult' \in [Features -> Result]
      BY <2>3, DiscoveryAttaches DEF TypeOK
    <3>2. ConnectionType'
      <4>1. CASE UNCHANGED <<featureVars, alive, state, owed>>
        BY <2>0, <4>1 DEF ConnectionType, featureVars
      <4>2. CASE \E so \in ServiceObjects, answered \in BOOLEAN :
                    (BackendOf[so] = None => ~answered) /\ Attach(f, so, answered)
        BY <2>0, <4>2, AttachType
      <4>3. QED
        BY <2>3, <4>1, <4>2, DiscoveryAttaches
    <3>3. QED
      BY <3>1, <3>2 DEF TypeOK, ConnectionType
  <2>4. ASSUME NEW b \in Backends, NEW value \in Values, BackendChange(b, value)
        PROVE  TypeOK'
    BY <2>4 DEF BackendChange, Report, TypeOK, discoveryVars
  <2>5. ASSUME NEW b \in Backends, InitializationDone(b)
        PROVE  TypeOK'
    BY <2>5 DEF InitializationDone, Report, TypeOK, discoveryVars
  <2>6. ASSUME NEW so \in ServiceObjects, Destroy(so)
        PROVE  TypeOK'
    BY <2>6, FeatureAssumption DEF Destroy, TypeOK, discoveryVars
  <2>7. CASE UNCHANGED vars
    BY <2>7 DEF vars, featureVars, discoveryVars, TypeOK
  <2>8. QED
    BY <2>1, <2>2, <2>3, <2>4, <2>5, <2>6, <2>7 DEF Next
<1>3. QED
  BY <1>1, <1>2, PTL DEF Spec

------------------------------------------------------------------------------
(* A feature of a regular build hears only its current backend, as long as   *)
(* no proxy is deleted before its backend.                                   *)
LinkInv == TypeOK /\ LinkedOnlyToCurrentBackend /\ WatchesOnlyCurrent

\* Connecting a feature replaces its links by those of the new backend.
LEMMA AttachLinks ==
    ASSUME LinkInv, PrivateIVI, NEW f \in Features, NEW so \in ServiceObjects,
           NEW answered \in BOOLEAN, Attach(f, so, answered)
    PROVE  LinkedOnlyToCurrentBackend' /\ WatchesOnlyCurrent'
  BY FeatureAssumption
  DEF LinkInv, TypeOK, LinkedOnlyToCurrentBackend, WatchesOnlyCurrent, Attach, Backend,
      Unlinked, PropertyUnlinked, Watched

\* Every step keeps the links and the watched objects to the current ones.
LEMMA LinkStep ==
    ASSUME PrivateIVI, Destroyable \cap Proxies = {}, LinkInv, [Next]_vars
    PROVE  LinkedOnlyToCurrentBackend' /\ WatchesOnlyCurrent'
<1> USE DEF LinkInv, LinkedOnlyToCurrentBackend, WatchesOnlyCurrent
<1>1. ASSUME NEW f \in Features, NEW so \in ServiceObjects \cup {None},
             SetServiceObject(f, so)
      PROVE  LinkedOnlyToCurrentBackend' /\ WatchesOnlyCurrent'
  <2>1. CASE Clear(f, so)
    BY <2>1, FeatureAssumption DEF Clear, TypeOK, Backend, Unlinked, PropertyUnlinked
  <2>2. CASE \E answered \in BOOLEAN : Attach(f, so, answered)
    <3>1. so \in ServiceObjects
      BY <2>2 DEF Attach, TypeOK
    <3>2. QED
      BY <2>2, <3>1, AttachLinks
  <2>3. QED
    BY <1>1, <2>1, <2>2 DEF SetServiceObject
<1>2. ASSUME NEW f \in Features, NEW mode \in Mode, SetDiscoveryMode(f, mode)
      PROVE  LinkedOnlyToCurrentBackend' /\ WatchesOnlyCurrent'
  BY <1>2 DEF SetDiscoveryMode, featureVars, Backend
<1>3. ASSUME NEW f \in Features, StartAutoDiscovery(f)
      PROVE  LinkedOnlyToCurrentBackend' /\ WatchesOnlyCurrent'
  <2>1. CASE UNCHANGED featureVars
    BY <2>1 DEF featureVars, Backend
  <2>2. CASE \E so \in ServiceObjects, answered \in BOOLEAN : Attach(f, so, answered)
    BY <2>2, AttachLinks
  <2>3. QED
    BY <1>3, <2>1, <2>2, DiscoveryAttaches
<1>4. ASSUME NEW b \in Backends, \/ \E value \in Values : BackendChange(b, value)
                                 \/ InitializationDone(b)
      PROVE  LinkedOnlyToCurrentBackend' /\ WatchesOnlyCurrent'
  BY <1>4 DEF BackendChange, InitializationDone, Backend
<1>5. ASSUME NEW so \in ServiceObjects, Destroy(so)
      PROVE  LinkedOnlyToCurrentBackend' /\ WatchesOnlyCurrent'
  BY <1>5, FeatureAssumption DEF Destroy, TypeOK, Backend
<1>6. CASE UNCHANGED vars
  BY <1>6 DEF vars, featureVars, Backend
<1>7. QED
  BY <1>1, <1>2, <1>3, <1>4, <1>5, <1>6 DEF Next

(* For features that keep their slots in the feature object itself, and      *)
(* service objects that are deleted together with their backend: no signal   *)
(* of any other backend than the current one reaches a feature.              *)
THEOREM OnlyCurrentBackendHeard ==
    ASSUME PrivateIVI, Destroyable \cap Proxies = {}
    PROVE  Spec => []LinkedOnlyToCurrentBackend
<1>1. Init => LinkedOnlyToCurrentBackend /\ WatchesOnlyCurrent
  BY DEF Init, LinkedOnlyToCurrentBackend, WatchesOnlyCurrent
<1>2. TypeOK /\ LinkedOnlyToCurrentBackend /\ WatchesOnlyCurrent /\ [Next]_vars
        => (LinkedOnlyToCurrentBackend /\ WatchesOnlyCurrent)'
  BY LinkStep DEF LinkInv
<1>3. QED
  BY <1>1, <1>2, TypeCorrect, PTL DEF Spec

------------------------------------------------------------------------------
\* Connecting initializes a feature only with the new backend's value.
LEMMA AttachInitialized ==
    ASSUME TypeOK, LinkedExactly, InitializedHoldsBackendState, PrivateIVI,
           NEW f \in Features, NEW so \in ServiceObjects, NEW answered \in BOOLEAN,
           BackendOf[so] = None => ~answered, Attach(f, so, answered)
    PROVE  LinkedExactly' /\ InitializedHoldsBackendState'
<1> USE FeatureAssumption DEF TypeOK, Backend
<1>1. LinkedExactly'
  BY DEF LinkedExactly, Attach, Unlinked, PropertyUnlinked
<1>2. ASSUME NEW g \in Features, isInitialized'[g]
      PROVE  /\ Backend(serviceObject'[g]) # None
             /\ property'[g] = state'[Backend(serviceObject'[g])]
  <2>1. CASE answered /\ BackendOf[so] \in baseLinks'[g]
    <3>1. /\ BackendOf[so] # None
          /\ Backend(serviceObject'[g]) = BackendOf[so]
          /\ BackendOf[so] \in propertyLinks'[g]
      BY <1>1, <2>1 DEF LinkedExactly
    <3>2. property'[g] = state[BackendOf[so]] /\ state' = state
      BY <2>1, <3>1 DEF Attach
    <3>3. QED
      BY <3>1, <3>2
  <2>2. CASE ~(answered /\ BackendOf[so] \in baseLinks'[g])
    <3>1. isInitialized[g] /\ g # f
      BY <1>2, <2>2 DEF Attach, StaysInitialized, InitializedHoldsBackendState
    <3>2. /\ serviceObject'[g] = serviceObject[g]
          /\ Backend(serviceObject[g]) # None
          /\ property[g] = state[Backend(serviceObject[g])]
      BY <3>1 DEF Attach, InitializedHoldsBackendState
    <3>3. property'[g] \in {property[g], state[Backend(serviceObject[g])]}
      <4>1. CASE answered /\ BackendOf[so] \in propertyLinks'[g]
        BY <1>1, <3>1, <3>2, <4>1 DEF Attach, LinkedExactly
      <4>2. CASE ~(answered /\ BackendOf[so] \in propertyLinks'[g])
        BY <4>2 DEF Attach
      <4>3. QED
        BY <4>1, <4>2
    <3>4. QED
      BY <3>2, <3>3 DEF Attach
  <2>3. QED
    BY <2>1, <2>2
<1>3. QED
  BY <1>1, <1>2 DEF InitializedHoldsBackendState

\* Every step keeps initialized features at their backend's value.
LEMMA InitializedStep ==
    ASSUME PrivateIVI, Destroyable = {}, TypeOK, LinkedExactly,
           InitializedHoldsBackendState, [Next]_vars
    PROVE  LinkedExactly' /\ InitializedHoldsBackendState'
<1> USE FeatureAssumption
<1>1. ASSUME NEW f \in Features, NEW so \in ServiceObjects \cup {None},
             SetServiceObject(f, so)
      PROVE  LinkedExactly' /\ InitializedHoldsBackendState'
  <2>1. CASE Clear(f, so)
    <3>1. LinkedExactly'
      BY <2>1 DEF Clear, TypeOK, Backend, Unlinked, PropertyUnlinked, LinkedExactly
    <3>2. InitializedHoldsBackendState'
      BY <2>1 DEF Clear, TypeOK, Backend, StaysInitialized, InitializedHoldsBackendState
    <3>3. QED
      BY <3>1, <3>2
  <2>2. CASE \E answered \in BOOLEAN : /\ BackendOf[so] = None => ~answered
                                       /\ Attach(f, so, answered)
    <3>1. so \in ServiceObjects
      BY <2>2 DEF Attach, TypeOK
    <3>2. QED
      BY <2>2, <3>1, AttachInitialized
  <2>3. QED
    BY <1>1, <2>1, <2>2 DEF SetServiceObject
<1>2. ASSUME NEW f \in Features, NEW mode \in Mode, SetDiscoveryMode(f, mode)
      PROVE  LinkedExactly' /\ InitializedHoldsBackendState'
  BY <1>2 DEF SetDiscoveryMode, featureVars, Backend, LinkedExactly,
              InitializedHoldsBackendState
<1>3. ASSUME NEW f \in Features, StartAutoDiscovery(f)
      PROVE  LinkedExactly' /\ InitializedHoldsBackendState'
  <2>1. CASE UNCHANGED <<featureVars, alive, state, owed>>
    BY <2>1 DEF featureVars, Backend, LinkedExactly, InitializedHoldsBackendState
  <2>2. CASE \E so \in ServiceObjects, answered \in BOOLEAN :
                (BackendOf[so] = None => ~answered) /\ Attach(f, so, answered)
    BY <2>2, AttachInitialized
  <2>3. QED
    BY <1>3, <2>1, <2>2, DiscoveryAttaches
<1>4. ASSUME NEW b \in Backends, NEW value \in Values, BackendChange(b, value)
      PROVE  LinkedExactly' /\ InitializedHoldsBackendState'
  BY <1>4 DEF BackendChange, Report, TypeOK, Backend, LinkedExactly,
              InitializedHoldsBackendState
<1>5. ASSUME NEW b \in Backends, InitializationDone(b)
      PROVE  LinkedExactly' /\ InitializedHoldsBackendState'
  BY <1>5 DEF InitializationDone, Report, TypeOK, Backend, LinkedExactly,
              InitializedHoldsBackendState
<1>6. CASE UNCHANGED vars
  BY <1>6 DEF vars, featureVars, Backend, LinkedExactly, InitializedHoldsBackendState
<1>7. QED
  BY <1>1, <1>2, <1>3, <1>4, <1>5, <1>6 DEF Next, Destroy

(* An initialized feature of a regular build holds its backend's state, for  *)
(* every history of switches, discoveries and backend changes.  A deletion   *)
(* breaks it: serviceObjectDestroyed() keeps m_isInitialized.                *)
THEOREM InitializedIsTruthful ==
    ASSUME PrivateIVI, Destroyable = {}
    PROVE  Spec => []InitializedHoldsBackendState
<1>1. Init => LinkedExactly /\ InitializedHoldsBackendState
  BY DEF Init, LinkedExactly, InitializedHoldsBackendState, Backend
<1>2. TypeOK /\ LinkedExactly /\ InitializedHoldsBackendState /\ [Next]_vars
        => (LinkedExactly /\ InitializedHoldsBackendState)'
  BY InitializedStep
<1>3. QED
  BY <1>1, <1>2, TypeCorrect, PTL DEF Spec

------------------------------------------------------------------------------
\* Every step keeps each feature's service object watched and alive.
LEMMA DanglingStep ==
    ASSUME \A so \in Accepting : BackendOf[so] # None,
           TypeOK, NoDanglingServiceObject, WatchesExactly, [Next]_vars
    PROVE  NoDanglingServiceObject' /\ WatchesExactly'
<1> USE FeatureAssumption DEF TypeOK, NoDanglingServiceObject, WatchesExactly
<1>1. ASSUME NEW f \in Features, NEW so \in ServiceObjects, NEW answered \in BOOLEAN,
             Attach(f, so, answered)
      PROVE  NoDanglingServiceObject' /\ WatchesExactly'
  BY <1>1 DEF Attach, Watched
<1>2. ASSUME NEW f \in Features, NEW so \in ServiceObjects \cup {None},
             SetServiceObject(f, so)
      PROVE  NoDanglingServiceObject' /\ WatchesExactly'
  <2>1. CASE Clear(f, so)
    BY <2>1 DEF Clear
  <2>2. CASE \E answered \in BOOLEAN : Attach(f, so, answered)
    <3>1. so \in ServiceObjects
      BY <2>2 DEF Attach
    <3>2. QED
      BY <1>1, <2>2, <3>1
  <2>3. QED
    BY <1>2, <2>1, <2>2 DEF SetServiceObject
<1>3. ASSUME NEW f \in Features, NEW mode \in Mode, SetDiscoveryMode(f, mode)
      PROVE  NoDanglingServiceObject' /\ WatchesExactly'
  BY <1>3 DEF SetDiscoveryMode, featureVars
<1>4. ASSUME NEW f \in Features, StartAutoDiscovery(f)
      PROVE  NoDanglingServiceObject' /\ WatchesExactly'
  <2>1. CASE UNCHANGED <<featureVars, alive, state, owed>>
    BY <2>1 DEF featureVars
  <2>2. CASE \E so \in ServiceObjects, answered \in BOOLEAN : Attach(f, so, answered)
    BY <1>1, <2>2
  <2>3. QED
    BY <1>4, <2>1, <2>2, DiscoveryAttaches
<1>5. ASSUME NEW b \in Backends, \/ \E value \in Values : BackendChange(b, value)
                                 \/ InitializationDone(b)
      PROVE  NoDanglingServiceObject' /\ WatchesExactly'
  BY <1>5 DEF BackendChange, InitializationDone
<1>6. ASSUME NEW so \in ServiceObjects, Destroy(so)
      PROVE  NoDanglingServiceObject' /\ WatchesExactly'
  BY <1>6 DEF Destroy
<1>7. CASE UNCHANGED vars
  BY <1>7 DEF vars, featureVars
<1>8. QED
  BY <1>2, <1>3, <1>4, <1>5, <1>6, <1>7 DEF Next

(* If every accepted service object returns an instance of the interface, no *)
(* feature is left with a pointer to a deleted service object, whoever       *)
(* deletes what and when.                                                    *)
THEOREM NeverDangling ==
    ASSUME \A so \in Accepting : BackendOf[so] # None
    PROVE  Spec => []NoDanglingServiceObject
<1>1. Init => NoDanglingServiceObject /\ WatchesExactly
  BY DEF Init, NoDanglingServiceObject, WatchesExactly
<1>2. TypeOK /\ NoDanglingServiceObject /\ WatchesExactly /\ [Next]_vars
        => (NoDanglingServiceObject /\ WatchesExactly)'
  BY DanglingStep
<1>3. QED
  BY <1>1, <1>2, TypeCorrect, PTL DEF Spec

------------------------------------------------------------------------------
\* Every step that moves a service object in or out announces it.
LEMMA AnnouncedStep ==
    ASSUME Destroyable = {}, TypeOK, AnnouncedValidity, [Next]_vars
    PROVE  AnnouncedValidity'
<1> USE FeatureAssumption DEF TypeOK, AnnouncedValidity
<1>1. ASSUME NEW f \in Features, NEW so \in ServiceObjects, NEW answered \in BOOLEAN,
             Attach(f, so, answered)
      PROVE  AnnouncedValidity'
  BY <1>1 DEF Attach
<1>2. ASSUME NEW f \in Features, NEW so \in ServiceObjects \cup {None},
             SetServiceObject(f, so)
      PROVE  AnnouncedValidity'
  <2>1. CASE Clear(f, so)
    <3>1. ~ClearAnnounces(f, so)
      BY DEF ClearAnnounces
    <3>2. QED
      BY <2>1, <3>1 DEF Clear
  <2>2. CASE so # None /\ \E answered \in BOOLEAN : Attach(f, so, answered)
    BY <1>1, <1>2, <2>2
  <2>3. QED
    BY <1>2, <2>1, <2>2 DEF SetServiceObject
<1>3. ASSUME NEW f \in Features, NEW mode \in Mode, SetDiscoveryMode(f, mode)
      PROVE  AnnouncedValidity'
  BY <1>3 DEF SetDiscoveryMode, featureVars
<1>4. ASSUME NEW f \in Features, StartAutoDiscovery(f)
      PROVE  AnnouncedValidity'
  <2>1. CASE UNCHANGED <<featureVars, alive, state, owed>>
    BY <2>1 DEF featureVars
  <2>2. CASE \E so \in ServiceObjects, answered \in BOOLEAN : Attach(f, so, answered)
    BY <1>1, <2>2
  <2>3. QED
    BY <1>4, <2>1, <2>2, DiscoveryAttaches
<1>5. ASSUME NEW b \in Backends, \/ \E value \in Values : BackendChange(b, value)
                                 \/ InitializationDone(b)
      PROVE  AnnouncedValidity'
  BY <1>5 DEF BackendChange, InitializationDone
<1>6. CASE UNCHANGED vars
  BY <1>6 DEF vars, featureVars
<1>7. QED
  BY <1>2, <1>3, <1>4, <1>5, <1>6 DEF Next, Destroy

(* As long as nobody deletes a service object, the last isValidChanged() of  *)
(* a feature tells whether it has one, over every switch, rejected object    *)
(* and discovery.  serviceObjectDestroyed() announces nothing.               *)
THEOREM ValidityIsAnnounced ==
    ASSUME Destroyable = {}
    PROVE  Spec => []AnnouncedValidity
<1>1. Init => AnnouncedValidity
  BY DEF Init, AnnouncedValidity
<1>2. TypeOK /\ AnnouncedValidity /\ [Next]_vars => AnnouncedValidity'
  BY AnnouncedStep
<1>3. QED
  BY <1>1, <1>2, TypeCorrect, PTL DEF Spec

------------------------------------------------------------------------------
\* A service object that discovery uses because it succeeds is set and connected.
LEMMA SuccessConnects ==
    ASSUME TypeOK, NEW f \in Features, serviceObject[f] = None,
           NEW so \in ServiceObjects, NEW answered \in BOOLEAN,
           Succeeds(f, so), Attach(f, so, answered)
    PROVE  /\ serviceObject'[f] = so /\ isConnected'[f]
           /\ StaysConnected(f) \/ Backend(serviceObject'[f]) # None
<1>1. serviceObject'[f] = so
  BY DEF Attach, TypeOK
<1>2. BackendOf[so] # None \/ StaysConnected(f)
  BY DEF Succeeds, StaysConnected
<1>3. isConnected'[f]
  BY <1>1, <1>2 DEF Attach, TypeOK
<1>4. so # None
  BY FeatureAssumption
<1> QED BY <1>1, <1>2, <1>3, <1>4 DEF Backend

(* What discovery tells of a feature is what it did to it, for any lists of  *)
(* service objects, whichever of them have no instance or are gone.          *)
LEMMA DiscoveryTells ==
    ASSUME TypeOK, NEW f \in Features, StartAutoDiscovery(f)
    PROVE  CASE discoveryResult'[f] = "ErrorWhileLoading" ->
                    Backend(serviceObject'[f]) = None
             [] discoveryResult'[f] = "ProductionBackendLoaded" ->
                    LoadedFrom(f, Production)
             [] discoveryResult'[f] = "SimulationBackendLoaded" ->
                    LoadedFrom(f, Simulation)
             [] OTHER -> serviceObject'[f] = serviceObject[f]
<1> DEFINE mode == discoveryMode[f]
           production == IF mode \in {"AutoDiscovery", "LoadOnlyProductionBackends"}
                         THEN Production ELSE <<>>
           simulation == IF mode \in {"AutoDiscovery", "LoadOnlySimulationBackends"}
                         THEN Simulation ELSE <<>>
           tried == production \o simulation
           Ends(result) == discoveryResult' = [discoveryResult EXCEPT ![f] = result]
           Takes(list, i) == \E answered \in BOOLEAN : Attach(f, list[i], answered)
           First(list) == \E i \in SucceedingIn(f, list) : Takes(list, i)
           Fails == \/ UNCHANGED serviceObject
                    \/ \E i \in Found(tried) : Takes(tried, i)
<1>1. \/ Ends("NoResult") /\ UNCHANGED serviceObject
      \/ /\ serviceObject[f] = None
         /\ \/ First(production) /\ Ends("ProductionBackendLoaded")
            \/ First(simulation) /\ Ends("SimulationBackendLoaded")
            \/ /\ SucceedingIn(f, tried) = {} /\ Fails
               /\ Ends("ErrorWhileLoading")
  BY DEF StartAutoDiscovery, SimulationResult, featureVars
<1>2. \A result : Ends(result) => discoveryResult'[f] = result
  BY DEF TypeOK
<1>3. ASSUME NEW list, First(list), serviceObject[f] = None
      PROVE  LoadedFrom(f, list)
  <2>1. PICK i \in SucceedingIn(f, list), answered \in BOOLEAN : Attach(f, list[i], answered)
    BY <1>3
  <2>2. i \in DOMAIN list /\ list[i] \in ServiceObjects /\ Succeeds(f, list[i])
    BY <2>1 DEF SucceedingIn, Found, TypeOK
  <2>3. /\ serviceObject'[f] = list[i] /\ isConnected'[f]
        /\ StaysConnected(f) \/ Backend(serviceObject'[f]) # None
    BY <1>3, <2>1, <2>2, SuccessConnects
  <2> QED BY <2>2, <2>3 DEF LoadedFrom
<1>4. \A i \in DOMAIN <<>> : FALSE
  OBVIOUS
<1>5. First(production) => production = Production
  BY <1>4 DEF SucceedingIn, Found
<1>6. First(simulation) => simulation = Simulation
  BY <1>4 DEF SucceedingIn, Found
<1>7. ASSUME SucceedingIn(f, tried) = {}, Fails, serviceObject[f] = None
      PROVE  Backend(serviceObject'[f]) = None
  <2>1. CASE UNCHANGED serviceObject
    BY <1>7, <2>1 DEF Backend
  <2>2. CASE \E i \in Found(tried) : Takes(tried, i)
    <3>1. PICK i \in Found(tried), answered \in BOOLEAN : Attach(f, tried[i], answered)
      BY <2>2
    <3>2. tried[i] \in ServiceObjects /\ BackendOf[tried[i]] = None
      BY <1>7 DEF SucceedingIn, Succeeds, Found, TypeOK
    <3>3. serviceObject'[f] = tried[i]
      BY <3>1 DEF Attach, TypeOK
    <3> QED BY <3>2, <3>3 DEF Backend
  <2> QED BY <1>7, <2>1, <2>2
<1> HIDE DEF production, simulation, tried, First, Fails
<1>8. CASE Ends("NoResult") /\ UNCHANGED serviceObject
  <2>1. discoveryResult'[f] = "NoResult"
    BY <1>2, <1>8
  <2> QED BY <1>8, <2>1
<1>9. CASE serviceObject[f] = None /\ First(production) /\ Ends("ProductionBackendLoaded")
  <2>1. discoveryResult'[f] = "ProductionBackendLoaded"
    BY <1>2, <1>9
  <2>2. LoadedFrom(f, Production)
    BY <1>3, <1>5, <1>9
  <2> QED BY <2>1, <2>2
<1>10. CASE serviceObject[f] = None /\ First(simulation) /\ Ends("SimulationBackendLoaded")
  <2>1. discoveryResult'[f] = "SimulationBackendLoaded"
    BY <1>2, <1>10
  <2>2. LoadedFrom(f, Simulation)
    BY <1>3, <1>6, <1>10
  <2> QED BY <2>1, <2>2
<1>11. CASE /\ serviceObject[f] = None /\ SucceedingIn(f, tried) = {} /\ Fails
            /\ Ends("ErrorWhileLoading")
  <2>1. discoveryResult'[f] = "ErrorWhileLoading"
    BY <1>2, <1>11
  <2> QED BY <1>7, <1>11, <2>1
<1> QED BY <1>1, <1>8, <1>9, <1>10, <1>11

(* A discovery that ends in success leaves the feature with a backend of the *)
(* kind it reports, unless it took an earlier, deleted object's connection   *)
(* for this one's; one that ends in an error leaves it without a backend,    *)
(* and one that has nothing to do changes nothing.                           *)
THEOREM DiscoveryResultsAreTrue == Spec => DiscoveryResultIsTrue
<1>1. TypeOK =>
        [\A f \in Features : StartAutoDiscovery(f) =>
          CASE discoveryResult'[f] = "ErrorWhileLoading" ->
                  Backend(serviceObject'[f]) = None
            [] discoveryResult'[f] = "ProductionBackendLoaded" -> LoadedFrom(f, Production)
            [] discoveryResult'[f] = "SimulationBackendLoaded" -> LoadedFrom(f, Simulation)
            [] OTHER -> serviceObject'[f] = serviceObject[f]]_vars
  BY DiscoveryTells
<1> QED BY <1>1, TypeCorrect, PTL DEF DiscoveryResultIsTrue

------------------------------------------------------------------------------
(* The tuner feature: for any features, bands and stations, every feature    *)
(* that is connected shows the one tuner there is.                           *)

(* A feature that is not connected shows no scan: without it a feature that  *)
(* connects could bring a scan along that is over.                           *)
NoScanLeft == \A t \in Tuners \ attached : ~shown[t].scanRunning

TunerInv == TunerTypeOK /\ TunerAgrees /\ NoScanLeft

\* Every announced frequency of a band is a Nat within its limits.
Fit(b, f) == f \in Nat /\ InRange(b, f)

LEMMA StationTyped ==
    ASSUME NEW b \in Band, NEW f \in Nat
    PROVE  /\ StationAt(b, f) \in Station
           /\ StationAt(b, f) # NoStation => StationAt(b, f)[1] = b
    BY DEF StationAt, Station

LEMMA LimitsTyped ==
    ASSUME NEW b \in Band
    PROVE  /\ Limits[b].min \in Nat /\ Limits[b].max \in Nat
           /\ Limits[b].step \in Nat \ {0}
           /\ Limits[b].min <= Limits[b].max
    BY TunerAssumption

LEMMA StationsFit ==
    ASSUME NEW b \in Band, NEW i \in DOMAIN Stations[b]
    PROVE  Fit(b, Stations[b][i])
<1>1. Stations[b] \in Seq(Nat)
    BY TunerAssumption
<1>2. Stations[b][i] \in Nat
    BY <1>1
<1> QED BY <1>2, TunerAssumption DEF Fit, InRange

\* Within the limits means a natural number.
LEMMA RangeIsNat ==
    ASSUME NEW b \in Band, NEW f \in Int, InRange(b, f)
    PROVE  Fit(b, f)
    BY LimitsTyped DEF Fit, InRange

\* What a feature shows is typed and in agreement with a tuner at b and f.
Showing(s, b, f, scan) ==
    /\ s \in Shown
    /\ s.band = b /\ s.limits = b /\ s.frequency = f
    /\ s.station # NoStation => s.station[1] = b
    /\ s.scanRunning => scan

\* The invariant from what each feature shows.
LEMMA AgreementFromShown ==
    ASSUME band' \in Band, frequency' \in [Band -> Nat],
           \A b \in Band : frequency'[b] \in Limits[b].min .. Limits[b].max,
           scanning' \in BOOLEAN, attached' \subseteq Tuners,
           DOMAIN shown' = Tuners, shown' = [t \in Tuners |-> shown'[t]],
           \A t \in attached' : Showing(shown'[t], band', frequency'[band'], scanning'),
           \A t \in Tuners \ attached' : shown'[t] \in Shown /\ ~shown'[t].scanRunning
    PROVE  TunerInv'
<1>1. \A t \in Tuners : shown'[t] \in Shown
    BY DEF Showing
<1>2. shown' \in [Tuners -> Shown]
    BY <1>1
<1> QED BY <1>2 DEF TunerInv, TunerTypeOK, TunerAgrees, NoScanLeft, Showing

\* The invariant says the same of the present state.
LEMMA ShownNow ==
    ASSUME TunerInv, NEW t \in attached
    PROVE  Showing(shown[t], band, frequency[band], scanning)
    BY DEF TunerInv, TunerTypeOK, TunerAgrees, Showing

LEMMA TunedShows ==
    ASSUME TunerInv, NEW t \in attached, NEW f \in Nat
    PROVE  Showing(Tuned(band, f)[t], band, f, scanning)
<1>1. t \in Tuners /\ shown[t] \in Shown /\ band \in Band
    BY DEF TunerInv, TunerTypeOK
<1> DEFINE there == [shown[t] EXCEPT !.frequency = f]
           then == [there EXCEPT !.station = StationAt(band, f)]
<1>2. Tuned(band, f)[t] = then
    BY <1>1 DEF Tuned
<1>3. there \in Shown /\ there.frequency = f
    BY <1>1 DEF Shown
<1>4. /\ there.band = band /\ there.limits = band
      /\ there.scanRunning => scanning
    BY <1>1, ShownNow DEF Showing, Shown
<1> HIDE DEF there
<1>5. Showing(then, band, f, scanning)
    BY <1>1, <1>3, <1>4, StationTyped DEF Showing, Shown
<1> QED BY <1>2, <1>5

LEMMA SwitchedShows ==
    ASSUME TunerInv, NEW t \in attached, NEW b \in Band, NEW f \in Nat
    PROVE  Showing(Switched(b, f)[t], b, f, scanning)
<1>1. t \in Tuners /\ shown[t] \in Shown
    BY DEF TunerInv, TunerTypeOK
<1>2. Switched(b, f)[t] = At(t, b, f, StationAt(b, f))
    BY <1>1 DEF Switched
<1> QED BY <1>1, <1>2, StationTyped, ShownNow DEF Showing, Shown, At

\* Announcing what agrees with the new place keeps the invariant.
LEMMA AnnouncedAgrees ==
    ASSUME TunerInv, NEW b \in Band, NEW f, Fit(b, f), NEW told,
           band' = b, frequency' = [frequency EXCEPT ![b] = f],
           scanning' \in BOOLEAN, attached' = attached,
           \A t \in attached : Showing(told[t], b, f, scanning'),
           Announce(told)
    PROVE  TunerInv'
<1>1. frequency \in [Band -> Nat]
    BY DEF TunerInv, TunerTypeOK
<1>2. frequency' \in [Band -> Nat] /\ frequency'[b] = f
    BY <1>1 DEF Fit
<1>3. \A c \in Band : frequency'[c] \in Limits[c].min .. Limits[c].max
    BY <1>1 DEF TunerInv, TunerTypeOK, Fit, InRange
<1>4. attached' \subseteq Tuners
    BY DEF TunerInv, TunerTypeOK
<1>5. shown' = [t \in Tuners |-> IF t \in attached THEN told[t] ELSE shown[t]]
    BY DEF Announce
<1>6. \A t \in attached' : Showing(shown'[t], band', frequency'[band'], scanning')
    BY <1>2, <1>4, <1>5
<1>7. \A t \in Tuners \ attached' : shown'[t] \in Shown /\ ~shown'[t].scanRunning
    BY <1>5 DEF TunerInv, TunerTypeOK, NoScanLeft
<1> QED BY <1>2, <1>3, <1>4, <1>5, <1>6, <1>7, AgreementFromShown

LEMMA TuneToAgrees ==
    ASSUME TunerInv, NEW f \in Int, TuneTo(f), UNCHANGED <<band, scanning, attached>>
    PROVE  TunerInv'
<1>1. CASE f # frequency[band] /\ InRange(band, f)
  <2>1. band \in Band /\ scanning \in BOOLEAN
    BY DEF TunerInv, TunerTypeOK
  <2>2. Fit(band, f)
    BY <1>1, <2>1, RangeIsNat
  <2>3. frequency' = [frequency EXCEPT ![band] = f] /\ Announce(Tuned(band, f))
    BY <1>1 DEF TuneTo
  <2>4. \A t \in attached : Showing(Tuned(band, f)[t], band, f, scanning')
    BY <2>2, TunedShows DEF Fit
  <2> QED BY <2>1, <2>2, <2>3, <2>4, AnnouncedAgrees
<1>2. CASE ~(f # frequency[band] /\ InRange(band, f))
  <2>1. UNCHANGED tunerVars
    BY <1>2 DEF TuneTo, tunerVars
  <2> QED BY <2>1 DEF TunerInv, TunerTypeOK, TunerAgrees, NoScanLeft, tunerVars
<1> QED BY <1>1, <1>2

\* Seeking goes on to one of the stations.
LEMMA SeekTarget ==
    ASSUME NEW b \in Band, NEW f \in Nat, Stations[b] # <<>>
    PROVE  /\ Following(b, f) \in DOMAIN Stations[b]
           /\ Preceding(b, f) \in DOMAIN Stations[b]
<1>1. Stations[b] \in Seq(Nat)
    BY TunerAssumption
<1>2. Len(Stations[b]) \in Nat \ {0} /\ DOMAIN Stations[b] = 1 .. Len(Stations[b])
    BY <1>1
<1>3. IndexOf(b, f) \in 0 .. Len(Stations[b])
  <2>1. CASE \E i \in DOMAIN Stations[b] : Stations[b][i] = f
    <3>1. IndexOf(b, f) = CHOOSE i \in DOMAIN Stations[b] : Stations[b][i] = f
      BY <2>1 DEF IndexOf
    <3>2. IndexOf(b, f) \in DOMAIN Stations[b]
      BY <2>1, <3>1
    <3> QED BY <3>2, <1>2
  <2>2. CASE ~\E i \in DOMAIN Stations[b] : Stations[b][i] = f
    BY <2>2, <1>2 DEF IndexOf
  <2> QED BY <2>1, <2>2
<1> QED BY <1>2, <1>3 DEF Following, Preceding

LEMMA SeekToAgrees ==
    ASSUME TunerInv, NEW i, Stations[band] # <<>> => i \in DOMAIN Stations[band],
           SeekTo(i), UNCHANGED <<band, scanning, attached>>
    PROVE  TunerInv'
<1>1. band \in Band /\ scanning \in BOOLEAN
    BY DEF TunerInv, TunerTypeOK
<1>2. CASE Stations[band] = <<>>
  <2>1. UNCHANGED tunerVars
    BY <1>2 DEF SeekTo, tunerVars
  <2> QED BY <2>1 DEF TunerInv, TunerTypeOK, TunerAgrees, NoScanLeft, tunerVars
<1>3. CASE Stations[band] # <<>>
  <2> DEFINE f == Stations[band][i]
  <2>1. Fit(band, f)
    BY <1>1, <1>3, StationsFit
  <2>2. frequency' = [frequency EXCEPT ![band] = f] /\ Announce(Tuned(band, f))
    BY <1>3 DEF SeekTo
  <2> HIDE DEF f
  <2>3. \A t \in attached : Showing(Tuned(band, f)[t], band, f, scanning')
    BY <2>1, TunedShows DEF Fit
  <2> QED BY <1>1, <2>1, <2>2, <2>3, AnnouncedAgrees
<1> QED BY <1>2, <1>3

LEMMA AttachAgrees ==
    ASSUME TunerInv, NEW t \in Tuners, AttachTuner(t)
    PROVE  TunerInv'
<1>1. band \in Band /\ Stations[band] # <<>> /\ attached' \subseteq Tuners
    BY DEF AttachTuner, TunerInv, TunerTypeOK
<1>2. Stations[band] \in Seq(Nat) /\ 1 \in DOMAIN Stations[band]
  <2>1. Stations[band] \in Seq(Nat)
    BY <1>1, TunerAssumption
  <2> QED BY <1>1, <2>1
<1>3. Stations[band][1] \in Nat
    BY <1>2
<1>4. \A u \in attached' : Showing(shown'[u], band', frequency'[band'], scanning')
  <2> TAKE u \in attached'
  <2>1. u \in Tuners /\ shown[u] \in Shown
    BY <1>1 DEF TunerInv, TunerTypeOK
  <2>2. shown'[u] = At(u, band, frequency[band], <<band, Stations[band][1]>>)
    BY <2>1 DEF AttachTuner
  <2>3. shown[u].scanRunning => scanning
    BY <2>1 DEF AttachTuner, TunerInv, TunerAgrees, NoScanLeft
  <2>4. frequency[band] \in Nat /\ <<band, Stations[band][1]>> \in Station
    BY <1>1, <1>3 DEF TunerInv, TunerTypeOK, Station
  <2> QED BY <1>1, <2>1, <2>2, <2>3, <2>4 DEF AttachTuner, Showing, Shown, At
<1>5. \A u \in Tuners \ attached' : shown'[u] \in Shown /\ ~shown'[u].scanRunning
    BY DEF AttachTuner, TunerInv, TunerTypeOK, NoScanLeft
<1> QED BY <1>1, <1>4, <1>5, AgreementFromShown DEF AttachTuner, TunerInv, TunerTypeOK

LEMMA DetachAgrees ==
    ASSUME TunerInv, NEW t \in Tuners, DetachTuner(t)
    PROVE  TunerInv'
<1>1. Defaults \in Shown /\ ~Defaults.scanRunning
    BY TunerAssumption DEF Defaults, Shown, Station
<1>2. shown' = [u \in Tuners |-> IF u = t THEN Defaults ELSE shown[u]]
    BY DEF DetachTuner, TunerInv, TunerTypeOK
<1>3. \A u \in attached' : shown'[u] = shown[u]
    BY <1>2 DEF DetachTuner, TunerInv, TunerTypeOK
<1>4. \A u \in attached' : Showing(shown'[u], band', frequency'[band'], scanning')
    BY <1>3, ShownNow DEF DetachTuner
<1>5. \A u \in Tuners \ attached' : shown'[u] \in Shown /\ ~shown'[u].scanRunning
    BY <1>1, <1>2 DEF DetachTuner, TunerInv, TunerTypeOK, NoScanLeft
<1> QED BY <1>2, <1>4, <1>5, AgreementFromShown DEF DetachTuner, TunerInv, TunerTypeOK

LEMMA SetBandAgrees ==
    ASSUME TunerInv, NEW b \in Band, SetBand(b)
    PROVE  TunerInv'
<1> DEFINE f == frequency[b]
<1>1. frequency \in [Band -> Nat] /\ f \in Limits[b].min .. Limits[b].max
    BY DEF TunerInv, TunerTypeOK
<1>2. Fit(b, f)
    BY <1>1 DEF Fit, InRange
<1>3. frequency' = [frequency EXCEPT ![b] = f]
    BY <1>1 DEF SetBand
<1>4. \A t \in attached : Showing(Switched(b, f)[t], b, f, scanning')
  <2>1. f \in Nat
    BY <1>2 DEF Fit
  <2> HIDE DEF f
  <2> QED BY <2>1, SwitchedShows DEF SetBand
<1>5. Announce(Switched(b, f)) /\ band' = b /\ UNCHANGED <<scanning, attached>>
    BY DEF SetBand
<1>6. scanning' \in BOOLEAN
    BY <1>5 DEF TunerInv, TunerTypeOK
<1> HIDE DEF f
<1> QED BY <1>2, <1>3, <1>4, <1>5, <1>6, AnnouncedAgrees

LEMMA TuneAgrees ==
    ASSUME TunerInv, NEW t \in Tuners, NEW b \in Band, NEW f \in Frequencies,
           Tune(t, b, f)
    PROVE  TunerInv'
<1> DEFINE there == IF b # shown[t].band THEN b ELSE band
           switches == there # band
           showing == IF switches THEN frequency[there] ELSE shown[t].frequency
           moves == f # showing /\ f # frequency[there] /\ InRange(there, f)
           at == IF moves THEN f ELSE frequency[there]
<1>1. there \in Band /\ f \in Int /\ scanning \in BOOLEAN
    BY TunerAssumption DEF TunerInv, TunerTypeOK
<1>2. Fit(there, at)
  <2>1. frequency[there] \in Nat
        /\ frequency[there] \in Limits[there].min .. Limits[there].max
    BY <1>1 DEF TunerInv, TunerTypeOK
  <2>2. CASE moves
    BY <1>1, <2>2, RangeIsNat
  <2>3. CASE ~moves
    BY <2>1, <2>3 DEF Fit, InRange
  <2> QED BY <2>2, <2>3
<1>3. /\ band' = there /\ frequency' = [frequency EXCEPT ![there] = at]
      /\ UNCHANGED <<scanning, attached>>
    BY DEF Tune
<1>4. CASE switches
  <2>1. Announce(Switched(there, at))
    BY <1>4 DEF Tune
  <2>2. \A u \in attached : Showing(Switched(there, at)[u], there, at, scanning')
    BY <1>1, <1>2, <1>3, SwitchedShows DEF Fit
  <2> HIDE DEF there, switches, showing, moves, at
  <2> QED BY <1>1, <1>2, <1>3, <2>1, <2>2, AnnouncedAgrees
<1>5. CASE ~switches /\ moves
  <2>1. Announce(Tuned(there, at)) /\ there = band
    BY <1>5 DEF Tune
  <2>2. \A u \in attached : Showing(Tuned(there, at)[u], there, at, scanning')
    BY <1>2, <1>3, <2>1, TunedShows DEF Fit
  <2> HIDE DEF there, switches, showing, moves, at
  <2> QED BY <1>1, <1>2, <1>3, <2>1, <2>2, AnnouncedAgrees
<1>6. CASE ~switches /\ ~moves
  <2>1. UNCHANGED shown /\ there = band /\ at = frequency[band]
    BY <1>6 DEF Tune
  <2>2. frequency' = frequency
    BY <1>3, <2>1 DEF TunerInv, TunerTypeOK
  <2>3. UNCHANGED tunerVars
    BY <1>3, <2>1, <2>2 DEF tunerVars
  <2> HIDE DEF there, switches, showing, moves, at
  <2> QED BY <2>3 DEF TunerInv, TunerTypeOK, TunerAgrees, NoScanLeft, tunerVars
<1> QED BY <1>4, <1>5, <1>6

LEMMA ScanAgrees ==
    ASSUME TunerInv, NEW t \in Tuners, StartScan(t) \/ StopScan(t)
    PROVE  TunerInv'
<1>1. band \in Band /\ frequency \in [Band -> Nat] /\ frequency[band] \in Nat
      /\ attached \subseteq Tuners
    BY DEF TunerInv, TunerTypeOK
<1>2. frequency = [frequency EXCEPT ![band] = frequency[band]]
    BY <1>1
<1>3. Fit(band, frequency[band])
    BY <1>1 DEF TunerInv, TunerTypeOK, Fit, InRange
<1>4. ASSUME NEW f, NEW told, NEW on \in BOOLEAN, NEW u \in attached,
             Showing(told[u], band, f, on \/ scanning)
      PROVE  Showing(ScanTold(told, on)[u], band, f, on)
  <2>1. ScanTold(told, on)[u] = [told[u] EXCEPT !.scanRunning = on]
    BY <1>1 DEF ScanTold
  <2> QED BY <1>4, <2>1 DEF Showing, Shown
<1>5. CASE StopScan(t)
  <2>1. \A u \in attached : Showing(ScanTold(shown, FALSE)[u], band, frequency[band], FALSE)
    BY <1>4, <1>5, ShownNow DEF StopScan
  <2> QED BY <1>1, <1>2, <1>3, <1>5, <2>1, AnnouncedAgrees DEF StopScan
<1>6. CASE StartScan(t) /\ Stations[band] = <<>>
  <2>1. \A u \in attached : Showing(ScanTold(shown, TRUE)[u], band, frequency[band], TRUE)
    <3>1. \A u \in attached : Showing(shown[u], band, frequency[band], TRUE \/ scanning)
        BY ShownNow DEF Showing
    <3> QED BY <1>4, <3>1
  <2> QED BY <1>1, <1>2, <1>3, <1>6, <2>1, AnnouncedAgrees DEF StartScan
<1>7. CASE StartScan(t) /\ Stations[band] # <<>>
  <2> DEFINE next == Stations[band][Following(band, frequency[band])]
  <2>1. Fit(band, next)
    BY <1>1, <1>7, SeekTarget, StationsFit
  <2>2. /\ frequency' = [frequency EXCEPT ![band] = next] /\ scanning' = TRUE
        /\ Announce(ScanTold(Tuned(band, next), TRUE))
        /\ band' = band /\ attached' = attached
    BY <1>7 DEF StartScan
  <2> HIDE DEF next
  <2>3. \A u \in attached : Showing(ScanTold(Tuned(band, next), TRUE)[u], band, next, TRUE)
    <3>1. \A u \in attached : Showing(Tuned(band, next)[u], band, next, TRUE \/ scanning)
        BY <2>1, TunedShows DEF Showing, Fit
    <3> QED BY <1>4, <3>1
  <2> QED BY <1>1, <2>1, <2>2, <2>3, AnnouncedAgrees
<1> QED BY <1>5, <1>6, <1>7

LEMMA StepsAgree ==
    ASSUME TunerInv, StepUp \/ StepDown
    PROVE  TunerInv'
<1>1. band \in Band /\ frequency[band] \in Nat
    BY DEF TunerInv, TunerTypeOK
<1>2. /\ frequency[band] + Limits[band].step \in Int
      /\ frequency[band] - Limits[band].step \in Int
      /\ Limits[band].min \in Int
    BY <1>1, LimitsTyped
<1>3. PICK f \in Int : TuneTo(f)
    BY <1>2 DEF StepUp, StepDown
<1> QED BY <1>3, TuneToAgrees DEF StepUp, StepDown

LEMMA InitAgrees == TunerInit => TunerInv
<1> SUFFICES ASSUME TunerInit PROVE TunerInv
    OBVIOUS
<1>1. Defaults \in Shown /\ ~Defaults.scanRunning
    BY TunerAssumption DEF Defaults, Shown, Station
<1>2. FMBand \in Band /\ \A b \in Band : Limits[b].min \in Nat
                          /\ Limits[b].min \in Limits[b].min .. Limits[b].max
    BY TunerAssumption, LimitsTyped
<1> QED BY <1>1, <1>2 DEF TunerInit, TunerInv, TunerTypeOK, TunerAgrees, NoScanLeft

LEMMA NextAgrees == TunerInv /\ [TunerNext]_tunerVars => TunerInv'
<1> SUFFICES ASSUME TunerInv, [TunerNext]_tunerVars PROVE TunerInv'
    OBVIOUS
<1>1. ASSUME NEW f \in Frequencies, SetFrequency(f) PROVE TunerInv'
  <2>1. f \in Int
    BY TunerAssumption
  <2> QED BY <1>1, <2>1, TuneToAgrees DEF SetFrequency
<1>2. CASE SeekUp \/ SeekDown \/ ScanTimer
  <2>1. band \in Band /\ frequency[band] \in Nat
    BY DEF TunerInv, TunerTypeOK
  <2>2. PICK i \in {Following(band, frequency[band]), Preceding(band, frequency[band])} :
            SeekTo(i)
    BY <1>2 DEF SeekUp, SeekDown, ScanTimer
  <2>3. Stations[band] # <<>> => i \in DOMAIN Stations[band]
    BY <2>1, <2>2, SeekTarget
  <2> QED BY <1>2, <2>2, <2>3, SeekToAgrees DEF SeekUp, SeekDown, ScanTimer
<1>3. CASE UNCHANGED tunerVars
    BY <1>3 DEF TunerInv, TunerTypeOK, TunerAgrees, NoScanLeft, tunerVars
<1> QED BY <1>1, <1>2, <1>3, AttachAgrees, DetachAgrees, ScanAgrees, SetBandAgrees,
        TuneAgrees, StepsAgree DEF TunerNext

\* The invariant holds throughout.
THEOREM TunerInvariant == TunerSpec => []TunerInv
    BY InitAgrees, NextAgrees, PTL DEF TunerSpec

\* Every variable keeps its type, and every band its frequency within limits.
THEOREM TunerTyped == TunerSpec => []TunerTypeOK
<1>1. TunerInv => TunerTypeOK
    BY DEF TunerInv
<1> QED BY <1>1, TunerInvariant, PTL

(* Whichever feature tunes, seeks, scans, switches the band or comes late,   *)
(* all that are connected show one tuner.                                    *)
THEOREM TunersShowOne == TunerSpec => []TunerAgrees
<1>1. TunerInv => TunerAgrees
    BY DEF TunerInv
<1> QED BY <1>1, TunerInvariant, PTL

------------------------------------------------------------------------------
\* What is announced of a new place shows the station there.
LEMMA TunedFollows ==
    ASSUME TunerTypeOK, NEW b, NEW f
    PROVE  \A t \in attached :
            /\ Tuned(b, f)[t].station = StationAt(b, f)
            /\ Switched(b, f)[t].station = StationAt(b, f)
            /\ ScanTold(Tuned(b, f), TRUE)[t].station = StationAt(b, f)
<1> TAKE t \in attached
<1>1. t \in Tuners /\ shown[t] \in Shown
    BY DEF TunerTypeOK
<1> DEFINE there == [shown[t] EXCEPT !.frequency = f]
           then == [there EXCEPT !.station = StationAt(b, f)]
<1>2. Tuned(b, f)[t] = then
    BY <1>1 DEF Tuned
<1>3. DOMAIN there = {"band", "limits", "frequency", "station", "scanRunning"}
    BY <1>1 DEF Shown
<1> HIDE DEF there
<1>4. then.station = StationAt(b, f) /\ DOMAIN then = DOMAIN there
    BY <1>3
<1> HIDE DEF then
<1>5. [then EXCEPT !.scanRunning = TRUE].station = StationAt(b, f)
    BY <1>3, <1>4
<1>6. ScanTold(Tuned(b, f), TRUE)[t] = [then EXCEPT !.scanRunning = TRUE]
    BY <1>1, <1>2 DEF ScanTold
<1>7. Switched(b, f)[t].station = StationAt(b, f)
    BY <1>1 DEF Switched, At
<1> QED BY <1>2, <1>4, <1>5, <1>6, <1>7

\* Announcing it is what StationFollows asks for.
Follows ==
    \A t \in attached' : shown'[t].station = StationAt(band', frequency'[band'])

LEMMA AnnouncedFollows ==
    ASSUME TunerTypeOK, NEW b \in Band, NEW f, NEW told, band' = b,
           frequency' = [frequency EXCEPT ![b] = f],
           attached' = attached, Announce(told),
           \A t \in attached : told[t].station = StationAt(b, f)
    PROVE  Follows
<1>1. frequency'[b] = f
    BY DEF TunerTypeOK
<1>2. \A t \in attached : t \in Tuners /\ shown'[t] = told[t]
    BY DEF TunerTypeOK, Announce
<1> QED BY <1>1, <1>2 DEF Follows

(* Whichever feature moves the tuner, and however, all that are connected    *)
(* show the station there is at the new place or none.                       *)
THEOREM StationsFollow == TunerSpec => StationFollows
<1>1. TunerTypeOK /\ [TunerNext]_tunerVars =>
        (<<band, frequency[band]>>' # <<band, frequency[band]>> => Follows)
  <2> SUFFICES ASSUME TunerTypeOK, TunerNext,
                      <<band, frequency[band]>>' # <<band, frequency[band]>>
               PROVE  Follows
    BY DEF tunerVars
  <2>1. band \in Band
    BY DEF TunerTypeOK
  <2>3. ASSUME NEW f, TuneTo(f), UNCHANGED <<band, attached>>
        PROVE  Follows
    <3>1. frequency' = [frequency EXCEPT ![band] = f] /\ Announce(Tuned(band, f))
      BY <2>3 DEF TuneTo
    <3>8. \A u \in attached : Tuned(band, f)[u].station = StationAt(band, f)
      BY TunedFollows
    <3> QED BY <2>1, <2>3, <3>1, <3>8, AnnouncedFollows
  <2>4. ASSUME NEW i, SeekTo(i), UNCHANGED <<band, attached>>
        PROVE  Follows
    <3> DEFINE f == Stations[band][i]
    <3>1. frequency' = [frequency EXCEPT ![band] = f] /\ Announce(Tuned(band, f))
      BY <2>4 DEF SeekTo
    <3> HIDE DEF f
    <3>8. \A u \in attached : Tuned(band, f)[u].station = StationAt(band, f)
      BY TunedFollows
    <3> QED BY <2>1, <2>4, <3>1, <3>8, AnnouncedFollows
  <2>5. ASSUME NEW b \in Band, SetBand(b)
        PROVE  Follows
    <3> DEFINE f == frequency[b]
    <3>1. /\ frequency' = [frequency EXCEPT ![b] = f] /\ Announce(Switched(b, f))
          /\ band' = b /\ attached' = attached
      BY <2>5 DEF SetBand, TunerTypeOK
    <3> HIDE DEF f
    <3>8. \A u \in attached : Switched(b, f)[u].station = StationAt(b, f)
      BY TunedFollows
    <3> QED BY <3>1, <3>8, AnnouncedFollows
  <2>6. ASSUME NEW t \in Tuners, StartScan(t)
        PROVE  Follows
    <3> DEFINE f == Stations[band][Following(band, frequency[band])]
    <3>1. Stations[band] # <<>>
      BY <2>6 DEF StartScan
    <3>2. /\ frequency' = [frequency EXCEPT ![band] = f] /\ band' = band
          /\ Announce(ScanTold(Tuned(band, f), TRUE)) /\ attached' = attached
      BY <2>6, <3>1 DEF StartScan
    <3> HIDE DEF f
    <3>8. \A u \in attached : ScanTold(Tuned(band, f), TRUE)[u].station = StationAt(band, f)
      BY TunedFollows
    <3> QED BY <2>1, <3>2, <3>8, AnnouncedFollows
  <2>7. ASSUME NEW t \in Tuners, NEW b \in Band, NEW f \in Frequencies, Tune(t, b, f)
        PROVE  Follows
    <3> DEFINE there == IF b # shown[t].band THEN b ELSE band
               switches == there # band
               showing == IF switches THEN frequency[there] ELSE shown[t].frequency
               moves == f # showing /\ f # frequency[there] /\ InRange(there, f)
               at == IF moves THEN f ELSE frequency[there]
    <3>1. /\ band' = there /\ frequency' = [frequency EXCEPT ![there] = at]
          /\ attached' = attached /\ there \in Band
      BY <2>1, <2>7 DEF Tune
    <3>2. CASE switches
      <4>1. Announce(Switched(there, at))
        BY <2>7, <3>2 DEF Tune
      <4> HIDE DEF there, switches, showing, moves, at
      <4>8. \A u \in attached : Switched(there, at)[u].station = StationAt(there, at)
        BY TunedFollows
      <4> QED BY <3>1, <4>1, <4>8, AnnouncedFollows
    <3>3. CASE ~switches
      <4>1. there = band /\ frequency'[band] = at
        BY <3>1, <3>3 DEF TunerTypeOK
      <4>2. moves
        BY <3>1, <4>1
      <4>3. Announce(Tuned(there, at))
        BY <2>7, <3>3, <4>2 DEF Tune
      <4> HIDE DEF there, switches, showing, moves, at
      <4>8. \A u \in attached : Tuned(there, at)[u].station = StationAt(there, at)
        BY TunedFollows
      <4> QED BY <3>1, <4>3, <4>8, AnnouncedFollows
    <3> QED BY <3>2, <3>3
  <2> QED BY <2>3, <2>4, <2>5, <2>6, <2>7
        DEF TunerNext, AttachTuner, DetachTuner, StopScan, SetFrequency, StepUp,
            StepDown, SeekUp, SeekDown, ScanTimer
<1> QED BY <1>1, TunerTyped, PTL DEF TunerSpec, StationFollows, Follows
==============================================================================
