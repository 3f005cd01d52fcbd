------------------------------ MODULE ZonedSync ------------------------------
(***************************************************************************)
(* Zoned features over QtRemoteObjects: the backend ivigenerator writes    *)
(* for a zoned interface (templates_backend_qtro/backend.cpp.tpl), the     *)
(* features of one process that share it (QIviAbstractZonedFeature and     *)
(* interface.cpp.tpl) and the server they mirror.  After each connection   *)
(* the backend asks for the zones, creates what it lacks, then asks for    *)
(* every property of every zone and announces initialization once it has   *)
(* all answers.  Changes, setter calls, lost links, restarts of the server *)
(* and features that come and go interleave with this.                     *)
(* A changed signal is passed on while it is read off the connection, but  *)
(* the watcher of a call that was answered emits finished() from the event *)
(* loop: an answer waits, and changes read behind it overtake it.          *)
(***************************************************************************)
EXTENDS Naturals, Sequences, FiniteSets

CONSTANTS
    Feature,     \* feature instances of the process
    Zone,        \* names of zones
    General,     \* the empty zone name: properties without a zone
    ZoneOf,      \* the zone each feature was constructed for
    Property,    \* properties of the interface
    Values,      \* what a server can have as a property's value
    Initial,     \* the value of a zone object the server has just created
    Default,     \* what a client starts with: it comes from no server
    Getters,     \* the getter calls of sync() for a set of zones, in their order
    Forgetful,   \* availableZones() of the server creates the zones anew
    MaxEvents    \* bound: lost connections, setter calls, changes in the server

AllZones == Zone \cup {General}
Known == Values \cup {Default}

ASSUME ZonedAssumption ==
    /\ General \notin Zone /\ ZoneOf \in [Feature -> AllZones]
    /\ Initial \in Values /\ Default \notin Values
    /\ Property # {}
    /\ Getters \in [SUBSET AllZones -> Seq(AllZones \X Property)]
    /\ \A known \in SUBSET AllZones, g \in AllZones \X Property :
          g[1] \in known <=> \E i \in DOMAIN Getters[known] : Getters[known][i] = g
    /\ Forgetful \in BOOLEAN /\ MaxEvents \in Nat

VARIABLES
    \* the server
    serverZones,  \* the zones it has
    value,        \* the properties of its zones
    \* the connection
    link,         \* "None": no replica yet, "Suspect": not connected, "Valid"
    requests,     \* calls on their way to the server
    replies,      \* answers and signals on their way to the client
    finished,     \* answers read, whose watchers are to emit finished()
    \* the client's backend
    zones,        \* m_zones
    zoneMap,      \* keys of m_zoneMap
    cached,       \* the values its zone objects hold
    toSync,       \* m_propertiesToSync of the zone objects
    synced,       \* m_synced
    \* the features
    attached,     \* features with the service object
    initialized,  \* isInitialized()
    children,     \* keys of m_zoneFeatureMap
    shown,        \* the properties of a feature and of its zone features
    \* bound
    events,       \* lost connections, setter calls, changes and calls of others
    \* history
    crossed,      \* properties whose last change overtook an answer
    lateSync      \* synchronised by an answer read before the connection broke

serverVars == <<serverZones, value>>
linkVars == <<link, requests, replies, finished>>
backendVars == <<zones, zoneMap, cached, toSync, synced>>
featureVars == <<attached, initialized, children, shown>>
history == <<crossed, lateSync>>
vars == <<serverVars, linkVars, backendVars, featureVars, events, history>>

Call == [call : {"zones"}]
          \cup [call : {"get"}, zone : AllZones, property : Property]
          \cup [call : {"set"}, zone : AllZones, property : Property, value : Values]
Answer == [signal : {"zones"}, zones : SUBSET Zone]
            \cup [signal : {"value"}, zone : AllZones, property : Property, value : Values]
Signal == Answer \cup [signal : {"changed"}, zone : AllZones, property : Property,
                       value : Values]

TypeOK ==
    /\ serverZones \subseteq Zone
    /\ value \in [AllZones -> [Property -> Values]]
    /\ link \in {"None", "Suspect", "Valid"}
    /\ requests \in Seq(Call) /\ replies \in Seq(Signal) /\ finished \in Seq(Answer)
    /\ zones \subseteq Zone
    /\ zoneMap \subseteq AllZones
    /\ cached \in [AllZones -> [Property -> Known]]
    /\ toSync \in [AllZones -> SUBSET Property]
    /\ synced \in BOOLEAN
    /\ attached \subseteq Feature /\ initialized \subseteq attached
    /\ children \in [Feature -> SUBSET Zone]
    /\ shown \in [Feature -> [AllZones -> [Property -> Known]]]
    /\ events \in 0 .. MaxEvents
    /\ crossed \subseteq AllZones \X Property /\ lateSync \in BOOLEAN

Init ==
    /\ serverZones \in SUBSET Zone
    /\ value = [z \in AllZones |-> [p \in Property |-> Initial]]
    /\ link = "None" /\ requests = <<>> /\ replies = <<>> /\ finished = <<>>
    /\ zones = {} /\ zoneMap = {General}
    /\ cached = [z \in AllZones |-> [p \in Property |-> Default]]
    /\ toSync = [z \in AllZones |-> {}]
    /\ synced = FALSE
    /\ attached = {} /\ initialized = {}
    /\ children = [f \in Feature |-> {}]
    /\ shown = [f \in Feature |-> [z \in AllZones |-> [p \in Property |-> Default]]]
    /\ events = 0
    /\ crossed = {} /\ lateSync = FALSE

------------------------------------------------------------------------------
(* The zones whose signals a feature takes, given its zone features: its own *)
(* one and theirs.  A feature for one zone has no zone features.             *)
Views(f, kids) == {ZoneOf[f]} \cup kids[f]

\* The zone features f has once it hears of the zones zs.
WithZones(f, zs) == IF ZoneOf[f] = General THEN children[f] \cup zs ELSE children[f]

(* onZoneSyncDone() with nothing left to synchronise: the zone objects emit  *)
(* the values c to the features fs, then initializationDone().               *)
Announce(fs, kids, c, known) ==
    /\ shown' = [f \in Feature |-> [z \in AllZones |->
                    IF f \in fs /\ z \in Views(f, kids) /\ z \in known
                    THEN c[z] ELSE shown[f][z]]]
    /\ initialized' = fs

\* initialize() of a backend that is synchronised answers at once.
AnswersAtOnceNever == FALSE

AnswersAtOnce == synced

\* A feature gets connected: initializeZones() of the zones the backend has,
\* initialize() on it.  If it is synced already everybody hears everything.
Attach(f) ==
    LET fs == attached \cup {f} IN
    /\ f \notin attached
    /\ attached' = fs
    /\ children' = [children EXCEPT ![f] = WithZones(f, zones)]
    /\ link' = IF link = "None" THEN "Suspect" ELSE link
    /\ IF AnswersAtOnce THEN Announce(fs, children', cached, zoneMap)
                        ELSE UNCHANGED <<shown, initialized>>
    /\ UNCHANGED <<serverVars, requests, replies, finished, backendVars, events, history>>

(* setServiceObject(nullptr).  clearToDefaults() resets the properties of the *)
(* general zone, which a feature for one zone does not take.                 *)
Cleared(f) ==
    IF ZoneOf[f] = General
    THEN [z \in AllZones |-> [p \in Property |-> Default]] ELSE shown[f]

\* disconnectFromServiceObject() resets the flag.
InitializedUnreset(f) == initialized

InitializedWithout(f) == initialized \ {f}

Detach(f) ==
    /\ f \in attached
    /\ attached' = attached \ {f}
    /\ initialized' = InitializedWithout(f)
    /\ children' = [children EXCEPT ![f] = {}]
    /\ shown' = [shown EXCEPT ![f] = Cleared(f)]
    /\ UNCHANGED <<serverVars, linkVars, backendVars, events, history>>

Counted == events < MaxEvents /\ events' = events + 1

\* A setter of a feature or of one of its zone features; a call without a
\* connection is dropped.
Set(f, z, p, v) ==
    /\ f \in attached /\ z \in Views(f, children)
    /\ shown[f][z][p] # v
    /\ link = "Valid"
    /\ Counted
    /\ requests' = Append(requests, [call |-> "set", zone |-> z, property |-> p,
                                     value |-> v])
    /\ UNCHANGED <<serverVars, link, replies, finished, backendVars, featureVars, history>>

------------------------------------------------------------------------------
NewZones == [z \in AllZones |-> [p \in Property |-> Initial]]

\* addZone() puts a zone object with initial values in place of the present one.
Recreated ==
    IF Forgetful THEN [NewZones EXCEPT ![General] = value[General]] ELSE value

\* The source sends while the link is up only.
Sent(signal) == IF link = "Valid" THEN Append(replies, signal) ELSE replies

Changed(z, p, v) == [signal |-> "changed", zone |-> z, property |-> p, value |-> v]

\* A property changes in the server, on its own or by another client.
ServerChange(z, p, v) ==
    /\ Counted
    /\ z \in serverZones \cup {General}
    /\ value[z][p] # v
    /\ value' = [value EXCEPT ![z][p] = v]
    /\ replies' = Sent(Changed(z, p, v))
    /\ UNCHANGED <<serverZones, link, requests, finished, backendVars, featureVars, history>>

\* Another client connects and asks for the zones.
AnotherClientAsks ==
    /\ Counted
    /\ value' = Recreated
    /\ UNCHANGED <<serverZones, linkVars, backendVars, featureVars, history>>

Requested(call) == /\ requests # <<>> /\ Head(requests).call = call
                   /\ requests' = Tail(requests)

ServeZones ==
    /\ Requested("zones")
    /\ value' = Recreated
    /\ replies' = Append(replies, [signal |-> "zones", zones |-> serverZones])
    /\ UNCHANGED <<serverZones, link, finished, backendVars, featureVars, events, history>>

\* The value of a zone the server does not have is the initial one.
ServeGet ==
    LET r == Head(requests) IN
    /\ Requested("get")
    /\ replies' = Append(replies, [signal |-> "value", zone |-> r.zone,
                      property |-> r.property, value |-> value[r.zone][r.property]])
    /\ UNCHANGED <<serverVars, link, finished, backendVars, featureVars, events, history>>

ServeSet ==
    LET r == Head(requests) IN
    /\ Requested("set")
    /\ IF r.zone \in serverZones \cup {General} /\ value[r.zone][r.property] # r.value
       THEN /\ value' = [value EXCEPT ![r.zone][r.property] = r.value]
            /\ replies' = Append(replies, Changed(r.zone, r.property, r.value))
       ELSE UNCHANGED <<value, replies>>
    /\ UNCHANGED <<serverZones, link, finished, backendVars, featureVars, events, history>>

Serve == ServeZones \/ ServeGet \/ ServeSet

------------------------------------------------------------------------------
(* The replica gets its connection: initialized() starts syncZones().  It    *)
(* takes a timer to try again, so that finished() of what was read before is *)
(* over by then.                                                             *)
LinkUp ==
    /\ link = "Suspect" /\ finished = <<>>
    /\ link' = "Valid"
    /\ requests' = <<[call |-> "zones"]>>
    /\ UNCHANGED <<serverVars, replies, finished, backendVars, featureVars, events, history>>

(* The connection is lost with everything on it, but not what has been read  *)
(* from it; the server may have gone down, and come back with other zones.   *)
LinkDown ==
    /\ link = "Valid" /\ Counted
    /\ link' = "Suspect" /\ requests' = <<>> /\ replies' = <<>>
    /\ synced' = FALSE     \* the Suspect state takes the synchronisation back, no more
    /\ lateSync' = FALSE
    /\ \/ UNCHANGED serverVars
       \/ serverZones' \in SUBSET Zone /\ value' = NewZones
    /\ UNCHANGED <<finished, zones, zoneMap, cached, toSync, featureVars, crossed>>

\* An answer is read off the connection.
Arrive ==
    /\ replies # <<>> /\ Head(replies) \in Answer
    /\ replies' = Tail(replies)
    /\ finished' = Append(finished, Head(replies))
    /\ UNCHANGED <<serverVars, link, requests, backendVars, featureVars, events, history>>

\* The event loop has the watcher of the next answer emit finished().
Finished(signal) == /\ finished # <<>> /\ Head(finished).signal = signal
                    /\ finished' = Tail(finished)

\* sync() of every zone object: the properties it asks the server for
GettersNewOnly(known) == Getters[known \ (zoneMap \ {General})]

GettersOf(known) == Getters[known]

Get(g) == [call |-> "get", zone |-> g[1], property |-> g[2]]

\* Calls are dropped while there is no connection.
Called(calls) ==
    IF link = "Valid" THEN requests \o [i \in DOMAIN calls |-> Get(calls[i])] ELSE requests

(* The zones are known: syncZones() creates the zone objects and zone        *)
(* features that are missing and asks for all properties.  Nobody deletes    *)
(* those of a zone the server no longer has.                                 *)
OnZones ==
    LET r == Head(finished)
        known == zoneMap \cup r.zones
    IN
    /\ Finished("zones")
    /\ IF synced
       THEN /\ Announce(attached, children, cached, zoneMap)
            /\ UNCHANGED <<requests, zones, zoneMap, toSync, children, crossed>>
       ELSE /\ zones' = r.zones
            /\ zoneMap' = known
            /\ children' = [f \in Feature |-> IF f \in attached
                               THEN WithZones(f, r.zones) ELSE children[f]]
            /\ toSync' = [z \in AllZones |-> IF z \in known THEN Property
                                                            ELSE toSync[z]]
            /\ requests' = Called(GettersOf(known))
            /\ crossed' = {}
            /\ UNCHANGED <<shown, initialized>>
    /\ UNCHANGED <<serverVars, link, replies, cached, synced, attached, events, lateSync>>

(* A getter has answered.  The zone object keeps the value to itself until   *)
(* its properties, and then those of all zone objects, are there.            *)
Done(left) == \A other \in zoneMap : left[other] = {}

OnValue ==
    LET r == Head(finished) IN
    /\ Finished("value")
    /\ cached' = [cached EXCEPT ![r.zone][r.property] = r.value]
    /\ toSync' = [toSync EXCEPT ![r.zone] = @ \ {r.property}]
    /\ IF Done(toSync')
       THEN /\ synced' = TRUE /\ Announce(attached, children, cached', zoneMap)
            /\ lateSync' = (lateSync \/ link # "Valid")
       ELSE UNCHANGED <<synced, shown, initialized, lateSync>>
    /\ UNCHANGED <<serverVars, link, requests, replies, zones, zoneMap, attached, children,
                   events, crossed>>

\* An answer about the property has been read and waits.
Waiting(z, p) ==
    \E i \in DOMAIN finished :
        finished[i].signal = "value" /\ finished[i].zone = z /\ finished[i].property = p

\* A change is stored and passed on, synchronised or not, if the zone is known.
OnChanged ==
    LET r == Head(replies) IN
    /\ replies # <<>> /\ r.signal = "changed"
    /\ replies' = Tail(replies)
    /\ crossed' = IF Waiting(r.zone, r.property) THEN crossed \cup {<<r.zone, r.property>>}
                                                 ELSE crossed \ {<<r.zone, r.property>>}
    /\ IF r.zone \in zoneMap
       THEN /\ cached' = [cached EXCEPT ![r.zone][r.property] = r.value]
            /\ shown' = [f \in Feature |->
                            IF f \in attached /\ r.zone \in Views(f, children)
                            THEN [shown[f] EXCEPT ![r.zone][r.property] = r.value]
                            ELSE shown[f]]
       ELSE UNCHANGED <<cached, shown>>
    /\ UNCHANGED <<serverVars, link, requests, finished, zones, zoneMap, toSync, synced,
                   attached, initialized, children, events, lateSync>>

Read == Arrive \/ OnChanged
Deliver == OnZones \/ OnValue

Next ==
    \/ \E f \in Feature : \/ Attach(f) \/ Detach(f)
                          \/ \E z \in AllZones, p \in Property, v \in Values : Set(f, z, p, v)
    \/ \E z \in AllZones, p \in Property, v \in Values : ServerChange(z, p, v)
    \/ AnotherClientAsks
    \/ Serve
    \/ LinkUp
    \/ LinkDown
    \/ Read
    \/ Deliver

Spec == Init /\ [][Next]_vars

(* The server's and the client's event loops go on, and QtRemoteObjects       *)
(* connects a replica to a source that is there.                             *)
Fairness == WF_vars(Serve) /\ WF_vars(Read) /\ WF_vars(Deliver) /\ WF_vars(LinkUp)
FairSpec == Spec /\ Fairness

------------------------------------------------------------------------------
(* Synchronised means complete for everybody: each feature is initialized,   *)
(* has its zone features and shows, in every zone, what the zone objects     *)
(* hold, none of it a client's default.  New features, zones that turn up    *)
(* after a reconnection and changes between the answers must not break it.   *)
SyncedIsShown ==
    synced => \A f \in attached :
        /\ f \in initialized
        /\ ZoneOf[f] = General => zones \subseteq children[f]
        /\ \A z \in Views(f, children) \cap zoneMap, p \in Property :
                shown[f][z][p] = cached[z][p] /\ cached[z][p] # Default

Quiet == link = "Valid" /\ requests = <<>> /\ replies = <<>> /\ finished = <<>>

(* With the connection up and nothing on its way, every feature is           *)
(* initialized and shows the server's values: no lost change, no answer that *)
(* was never asked for again, no zone forgotten after a reconnection.        *)
(* Excepted are the properties whose change overtook an answer, which then   *)
(* undid it, and a connection that started with the backend synchronised by  *)
(* an answer of the last one: it asks for nothing.                           *)
QuietAgrees ==
    Quiet => \A f \in attached :
        /\ f \in initialized
        /\ ~lateSync =>
            /\ ZoneOf[f] = General => serverZones \subseteq children[f]
            /\ \A z \in Views(f, children) \cap (serverZones \cup {General}), p \in Property :
                    <<z, p>> \notin crossed => shown[f][z][p] = value[z][p]

(* What the zones show is true when the backend calls itself synchronised,   *)
(* and the server's when nothing is on its way.                              *)
ZonesAgree == SyncedIsShown /\ QuietAgrees

(* The zones show what the server has when nothing is on its way, without    *)
(* exceptions: what the mirrored properties of a replica promise.  Answers   *)
(* that wait for their finished() break it in two ways.                      *)
AlwaysAgrees ==
    Quiet => \A f \in attached : \A z \in Views(f, children) \cap (serverZones \cup {General}) :
        shown[f][z] = value[z]

\* A feature that stays connected gets initialized, whatever links are lost.
EventuallyInitialized ==
    \A f \in Feature : f \in attached ~> f \in initialized \/ f \notin attached

(* A feature without a service object shows safe defaults (what the docs of  *)
(* clearServiceObject() demand).                                             *)
ClearedShowsDefaults ==
    \A f \in Feature \ attached : \A z \in AllZones, p \in Property :
        shown[f][z][p] = Default
==============================================================================
