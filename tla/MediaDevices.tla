----------------------------- MODULE MediaDevices -----------------------------
(***************************************************************************)
(* Media devices of the simulator: the discovery backend that watches the  *)
(* device folders and the QIviMediaDeviceDiscoveryModels that show (and    *)
(* own) its devices; the indexer that brings the library in the database   *)
(* up to date in a worker thread; the play queue in that database, which   *)
(* the player edits in a thread of its own; QIviMediaIndexerControl.       *)
(* What the indexer's worker emits reaches the GUI thread as queued events *)
(* in the order it was posted.                                             *)
(***************************************************************************)
EXTENDS Integers, FiniteSets, Sequences, SequencesExt, Ordering

CONSTANTS
    Folders,         \* folders of devices
    Rank,            \* their order by name
    Files,           \* the tracks in a folder
    InitialQueues,   \* play queues the last run of the program may have left
    Elsewhere,       \* paths that are no device's folder
    PrefixOf,        \* pairs of paths and folders: the one begins the other's
    Models,          \* discovery models connected to the one backend
    None,            \* no folder, no operation
    MaxChanges,      \* bound on folders mounted and removed
    MaxMishaps,      \* bound on database errors and on rows the user takes out
    MaxConnects      \* bound on the connections of a model, and of the control

Track == UNION {Files[f] : f \in Folders}
Paths == Folders \cup Elsewhere

ASSUME DevicesAssumption ==
    /\ IsFiniteSet(Folders) /\ DOMAIN Files = Folders
    /\ Rank \in [Folders -> Nat]
    /\ \A f, g \in Folders : Rank[f] = Rank[g] => f = g
    /\ \A f, g \in Folders : f # g => Files[f] \cap Files[g] = {}
    /\ PrefixOf \subseteq Paths \X Folders
    /\ Folders \cap Elsewhere = {} /\ None \notin Paths
    /\ \A s \in InitialQueues : s \in Seq(Track) /\ IsInjective(s)

VARIABLES
    present,         \* folders that exist
    notified,        \* a directoryChanged signal is to be delivered
    watching,        \* the watcher was given the folder by initialize()
    deviceMap,       \* m_deviceMap: the device of a folder, 0 for none
    devices,         \* devices created so far
    deleted,         \* devices deleted so far
    attached,        \* models that are connected
    rows,            \* m_deviceList of a model
    timers,          \* folders whose files are given time to appear
    wired,           \* MediaPlugin has connected indexer, player, discovery
    folderQueue,     \* m_folderQueue
    scan,            \* the operation in the worker thread
    begun,           \* it has begun to work
    pending,         \* the tracks it has yet to remove or to add
    running,         \* its future is running
    result,          \* the value of the last future
    state,           \* m_state of the indexer
    events,          \* queued events on their way to the GUI thread
    library,         \* the table track
    queue,           \* the table queue: qindex of the tracks in it
    playerJobs,      \* rows the player's thread is to remove
    control,         \* QIviMediaIndexerControl is connected
    shownState,      \* m_state of the control
    counts,          \* changes, edits, failures and connections so far
    wanted,          \* history: tracks of the queue no user or scan takes out
    off              \* history: what the simulator does not account for

diskVars == <<present, notified>>
deviceVars == <<watching, deviceMap, devices, deleted, rows>>
indexerVars == <<folderQueue, scan, begun, pending, running, result, state>>
playerVars == <<queue, playerJobs, wanted, off>>
controlVars == <<control, shownState>>
vars == <<diskVars, deviceVars, attached, timers, wired, indexerVars, events, library,
          playerVars, controlVars, counts>>

Scan == [op : {"Add"}, folder : Folders] \cup [op : {"Remove"}, folder : Paths]
            \cup [op : {"Verify"}, folder : {None}]
NoScan == [op |-> "None", folder |-> None]
Event == [kind : {"state"}, state : {"Active", "Error"}]
            \cup [kind : {"removeFromQueue"}, index : Nat] \cup [kind : {"finished"}]

TypeOK ==
    /\ present \subseteq Folders /\ notified \in BOOLEAN /\ watching \in BOOLEAN
    /\ deviceMap \in [Folders -> 0 .. devices] /\ deleted \subseteq 1 .. devices
    /\ attached \subseteq Models /\ rows \in [Models -> Seq(1 .. devices)]
    /\ timers \in Seq(Folders) /\ wired \in BOOLEAN
    /\ folderQueue \in Seq(Scan) /\ scan \in Scan \cup {NoScan}
    /\ begun \in BOOLEAN /\ pending \subseteq Track
    /\ running \in BOOLEAN /\ result \in BOOLEAN
    /\ state \in {"Idle", "Active", "Error"} /\ events \in Seq(Event)
    /\ library \subseteq Track
    /\ DOMAIN queue \subseteq Track /\ \A t \in DOMAIN queue : queue[t] \in Nat
    /\ playerJobs \in Seq(Nat)
    /\ control \in BOOLEAN /\ shownState \in {"Idle", "Active", "Error"}
    /\ wanted \subseteq Track
    /\ off \subseteq {"unseen", "dangling", "unheard", "several", "stale"}

(* The plugin is being constructed: the backend has found the folders there  *)
(* are and the worker begins to verify the database the last run has left.   *)
Init ==
    /\ present \in SUBSET Folders /\ notified = FALSE /\ watching = FALSE
    /\ deviceMap = [f \in Folders |->
                      IF f \in present
                      THEN Cardinality({g \in present : Rank[g] <= Rank[f]}) ELSE 0]
    /\ devices = Cardinality(present) /\ deleted = {}
    /\ attached = {} /\ rows = [m \in Models |-> <<>>]
    /\ timers = <<>> /\ wired = FALSE
    /\ folderQueue = <<>> /\ scan = [op |-> "Verify", folder |-> None]
    /\ begun = FALSE /\ pending = {} /\ running = TRUE /\ result = TRUE /\ state = "Idle"
    /\ events = <<>>
    /\ library = Track
    /\ \E s \in InitialQueues :
          queue = [t \in ToSet(s) |-> (CHOOSE i \in DOMAIN s : s[i] = t) - 1]
    /\ playerJobs = <<>> /\ control = FALSE /\ shownState = "Idle"
    /\ counts = [changes |-> 0, edits |-> 0, failures |-> 0, control |-> 0,
                 models |-> 0]
    /\ wanted = DOMAIN queue /\ off = {}

------------------------------------------------------------------------------
(* The discovery model owns the devices it shows.  Every signal of the       *)
(* backend reaches all attached models.                                      *)
Devices == {deviceMap[f] : f \in {g \in Folders : deviceMap[g] # 0}}

\* m_deviceMap.values(), sorted by folder
Values(map) ==
    LET used == InOrder({f \in Folders : map[f] # 0}, Rank) IN
    [i \in DOMAIN used |-> map[used[i]]]

\* resetModel(): qDeleteAll(m_deviceList), then the list it was given
ResetModels(models) ==
    /\ deleted' = deleted \cup UNION {ToSet(rows[m]) : m \in models}
    /\ rows' = [m \in Models |-> IF m \in models THEN Values(deviceMap) ELSE rows[m]]

\* A model connects: initialize() begins to watch and tells of the devices.
AttachModel(m) ==
    /\ wired /\ m \notin attached /\ counts.models < MaxConnects
    /\ counts' = [counts EXCEPT !.models = @ + 1]
    /\ attached' = attached \cup {m}
    /\ watching' = TRUE
    /\ ResetModels(attached')
    /\ UNCHANGED <<diskVars, deviceMap, devices, timers, wired, indexerVars, events,
                   library, playerVars, controlVars>>

\* clearServiceObject(): clearToDefaults()
DetachModel(m) ==
    /\ m \in attached
    /\ attached' = attached \ {m}
    /\ deleted' = deleted \cup ToSet(rows[m])
    /\ rows' = [rows EXCEPT ![m] = <<>>]
    /\ UNCHANGED <<diskVars, watching, deviceMap, devices, timers, wired, indexerVars,
                   events, library, playerVars, controlVars, counts>>

------------------------------------------------------------------------------
\* A device is plugged in or pulled out: unseen, if the backend thought so anyway.
ChangeDisk(f) ==
    /\ counts.changes < MaxChanges
    /\ counts' = [counts EXCEPT !.changes = @ + 1]
    /\ present' = IF f \in present THEN present \ {f} ELSE present \cup {f}
    /\ notified' = (notified \/ watching)
    /\ off' = IF (deviceMap[f] # 0) = (f \in present') THEN off \cup {"unseen"} ELSE off
    /\ UNCHANGED <<deviceVars, attached, timers, wired, indexerVars, events, library,
                   queue, playerJobs, wanted, controlVars>>

\* scanNext() starts the next operation unless the future is running.  The
\* watcher forgets a finished() signal of the last one not delivered yet.
Forgotten == Only(events, {i \in DOMAIN events : events[i].kind # "finished"})

ScanNext(queued) ==
    IF running \/ queued = <<>>
    THEN /\ folderQueue' = queued
         /\ UNCHANGED <<scan, begun, pending, running, events>>
    ELSE /\ folderQueue' = Tail(queued)
         /\ scan' = Head(queued) /\ running' = TRUE /\ begun' = FALSE /\ pending' = {}
         /\ events' = Forgotten

\* removeMediaFolder() for each of the folders that are gone
Removals(gone, path) ==
    LET inRank == InOrder(gone, Rank) IN
    [i \in DOMAIN inRank |-> [op |-> "Remove", folder |-> path[inRank[i]]]]

\* one operation for each of the folders
Scans(op, folders) ==
    LET inRank == InOrder(folders, Rank) IN
    [i \in DOMAIN inRank |-> [op |-> op, folder |-> inRank[i]]]

\* onDeviceRemoved(), onDeviceAdded()
WithoutNone(list, gone) == list

Without(list, gone) == Only(list, {i \in DOMAIN list : list[i] \notin gone})

(* onDirectoryChanged().  It takes entries out of the map it iterates, so    *)
(* the iterator is dangling after the first: the others may be missed.  The  *)
(* reference to a folder's name is dangling, too, once its entry is taken:   *)
(* any path may be announced as removed.                                     *)
OnDirectoryChanged ==
    /\ notified
    /\ notified' = FALSE
    /\ LET missing == {f \in Folders : deviceMap[f] # 0 /\ f \notin present}
           added == {f \in present : deviceMap[f] = 0}
           ids == [f \in added |->
                    devices + Cardinality({g \in added : Rank[g] <= Rank[f]})]
           new == Values([f \in Folders |-> IF f \in added THEN ids[f] ELSE 0])
       IN  \E gone \in SUBSET missing : \E path \in [gone -> Paths] :
            LET removed == {deviceMap[f] : f \in gone} IN
            /\ missing # {} => gone # {}
            /\ deviceMap' = [f \in Folders |->
                              IF f \in gone THEN 0
                              ELSE IF f \in added THEN ids[f] ELSE deviceMap[f]]
            /\ devices' = devices + Cardinality(added)
            /\ rows' = [m \in Models |->
                          IF m \in attached
                          THEN Without(rows[m], removed) \o new ELSE rows[m]]
            /\ deleted' = IF attached # {} THEN deleted \cup removed ELSE deleted
            /\ timers' = timers \o InOrder(added, Rank)
            /\ ScanNext(folderQueue \o Removals(gone, path))
            /\ off' = IF \A f \in gone : path[f] = f THEN off
                                                       ELSE off \cup {"dangling"}
    /\ UNCHANGED <<present, watching, attached, wired, result, state, library, queue,
                   playerJobs, wanted, controlVars, counts>>

\* Two seconds later the files of a new device are scanned.
MediaDirectoryAdded ==
    /\ timers # <<>>
    /\ timers' = Tail(timers)
    /\ ScanNext(Append(folderQueue, [op |-> "Add", folder |-> Head(timers)]))
    /\ UNCHANGED <<diskVars, deviceVars, attached, wired, result, state, library,
                   playerVars, controlVars, counts>>

\* The rest of the constructor of MediaPlugin.
Wire ==
    /\ ~wired
    /\ wired' = TRUE
    /\ ScanNext(folderQueue \o Scans("Add", {f \in Folders : deviceMap[f] # 0}))
    /\ UNCHANGED <<diskVars, deviceVars, attached, timers, result, state, library,
                   playerVars, controlVars, counts>>

------------------------------------------------------------------------------
(* The worker thread.                                                        *)
\* what stateChanged() posts: nothing without a connected control
StateEvent(st) == IF control THEN <<[kind |-> "state", state |-> st]>> ELSE <<>>

\* without the wildcard no file has the path of a folder
BelowExactly(f) == {}

\* the files a pattern that begins with path f matches
Below(f) == UNION {Files[g] : g \in {h \in Folders : h = f \/ <<f, h>> \in PrefixOf}}

FilesPresent == UNION {Files[f] : f \in present}

Found ==
    CASE scan.op = "Verify" -> library \ FilesPresent
      [] scan.op = "Remove" -> library \cap Below(scan.folder)
      [] scan.op = "Add"    -> Files[scan.folder] \cap FilesPresent

\* indices of rows are on their way to the player's thread
Outstanding ==
    playerJobs # <<>> \/ \E i \in DOMAIN events : events[i].kind = "removeFromQueue"

\* scanWorker(): Active; what it works on; the rows it has the player remove
BeginScan ==
    /\ running /\ ~begun
    /\ begun' = TRUE
    /\ state' = "Active"
    /\ pending' = Found
    /\ LET queued == IF scan.op = "Add" THEN {} ELSE Found \cap DOMAIN queue IN
        /\ \E order \in SetToSeqs(queued) :
            events' = events \o StateEvent("Active")
                        \o IF wired THEN [i \in DOMAIN order |->
                                            [kind |-> "removeFromQueue",
                                             index |-> queue[order[i]]]] ELSE <<>>
        /\ wanted' = wanted \ queued
        /\ off' = off \cup (IF queued # {} /\ ~wired THEN {"unheard"} ELSE {})
                      \cup (IF Cardinality(queued) > 1 THEN {"several"} ELSE {})
                      \cup (IF queued # {} /\ Outstanding THEN {"stale"} ELSE {})
    /\ UNCHANGED <<diskVars, deviceVars, attached, timers, wired, folderQueue, scan,
                   running, result, library, queue, playerJobs, controlVars, counts>>

EndScan(res, posted) ==
    /\ running' = FALSE /\ begun' = FALSE /\ scan' = NoScan /\ pending' = {}
    /\ result' = res
    /\ events' = events \o posted \o <<[kind |-> "finished"]>>

RowsLeft(gone) == [t \in DOMAIN queue \ gone |-> queue[t]]

\* removeDataFunc(): the rows of queue, then those of track
DeleteFound ==
    /\ begun /\ scan.op # "Add"
    /\ queue' = RowsLeft(pending)
    /\ library' = library \ pending
    /\ EndScan(TRUE, <<>>)
    /\ UNCHANGED <<diskVars, deviceVars, attached, timers, wired, folderQueue, state,
                   playerJobs, wanted, off, controlVars, counts>>

\* INSERT OR IGNORE of the next file
InsertFile ==
    /\ begun /\ scan.op = "Add"
    /\ \E t \in pending :
        /\ pending' = pending \ {t}
        /\ library' = library \cup {t}
    /\ UNCHANGED <<diskVars, deviceVars, attached, timers, wired, folderQueue, scan,
                   begun, running, result, state, events, playerVars, controlVars,
                   counts>>

AllInserted ==
    /\ begun /\ scan.op = "Add" /\ pending = {}
    /\ EndScan(TRUE, <<>>)
    /\ UNCHANGED <<diskVars, deviceVars, attached, timers, wired, folderQueue, state,
                   library, playerVars, controlVars, counts>>

\* The database reports an error; the rows of queue may be gone already.
FailScan ==
    /\ begun /\ counts.failures + counts.edits < MaxMishaps
    /\ counts' = [counts EXCEPT !.failures = @ + 1]
    /\ state' = "Error"
    /\ EndScan(FALSE, StateEvent("Error"))
    /\ \/ UNCHANGED queue
       \/ scan.op # "Add" /\ queue' = RowsLeft(pending)
    /\ UNCHANGED <<diskVars, deviceVars, attached, timers, wired, folderQueue, library,
                   playerJobs, wanted, off, controlVars>>

------------------------------------------------------------------------------
\* The GUI thread handles the next queued event.
Received(kind) == wired /\ events # <<>> /\ Head(events).kind = kind

OnStateChanged ==
    /\ Received("state")
    /\ shownState' = Head(events).state
    /\ events' = Tail(events)
    /\ UNCHANGED <<diskVars, deviceVars, attached, timers, wired, indexerVars, library,
                   playerVars, control, counts>>

OnRemoveFromQueue ==
    /\ Received("removeFromQueue")
    /\ playerJobs' = Append(playerJobs, Head(events).index)
    /\ events' = Tail(events)
    /\ UNCHANGED <<diskVars, deviceVars, attached, timers, wired, indexerVars, library,
                   queue, wanted, off, controlVars, counts>>

(* onScanFinished(): the next operation, or Idle, but Error stays.           *)
StateAfterAlways == "Idle"

StateAfter == IF result THEN "Idle" ELSE state

OnScanFinished ==
    /\ Received("finished")
    /\ IF folderQueue # <<>>
       THEN /\ folderQueue' = Tail(folderQueue)
            /\ scan' = Head(folderQueue)
            /\ running' = TRUE /\ begun' = FALSE /\ pending' = {}
            /\ UNCHANGED <<state, shownState>>
       ELSE /\ state' = StateAfter
            /\ shownState' = IF control /\ StateAfter = "Idle" THEN "Idle"
                                                               ELSE shownState
            /\ UNCHANGED <<folderQueue, scan, running, begun, pending>>
    /\ events' = Tail(events)
    /\ UNCHANGED <<diskVars, deviceVars, attached, timers, wired, result, library,
                   playerVars, control, counts>>

\* MediaPlayerBackend::remove() in the player's thread
RemovedShiftsAll(i) ==
    [t \in {u \in DOMAIN queue : queue[u] # i} |-> queue[t] - 1]

Removed(i) == [t \in {u \in DOMAIN queue : queue[u] # i} |->
                IF queue[t] >= i THEN queue[t] - 1 ELSE queue[t]]

PlayerRemoves ==
    /\ playerJobs # <<>>
    /\ playerJobs' = Tail(playerJobs)
    /\ queue' = Removed(Head(playerJobs))
    /\ UNCHANGED <<diskVars, deviceVars, attached, timers, wired, indexerVars, events,
                   library, wanted, off, controlVars, counts>>

\* The user takes a row out of the queue.
UserRemoves(t) ==
    /\ wired /\ t \in DOMAIN queue /\ counts.failures + counts.edits < MaxMishaps
    /\ counts' = [counts EXCEPT !.edits = @ + 1]
    /\ playerJobs' = Append(playerJobs, queue[t])
    /\ wanted' = wanted \ {t}
    /\ off' = IF Outstanding THEN off \cup {"stale"} ELSE off
    /\ UNCHANGED <<diskVars, deviceVars, attached, timers, wired, indexerVars, events,
                   library, queue, controlVars>>

\* QIviMediaIndexerControl: initialize() tells it the state.
ConnectControl ==
    /\ wired /\ ~control /\ counts.control < MaxConnects
    /\ counts' = [counts EXCEPT !.control = @ + 1]
    /\ control' = TRUE /\ shownState' = state
    /\ UNCHANGED <<diskVars, deviceVars, attached, timers, wired, indexerVars, events,
                   library, playerVars>>

\* clearServiceObject(): clearToDefaults()
DisconnectControl ==
    /\ control
    /\ control' = FALSE /\ shownState' = "Idle"
    /\ UNCHANGED <<diskVars, deviceVars, attached, timers, wired, indexerVars, events,
                   library, playerVars, counts>>

Work == BeginScan \/ DeleteFound \/ InsertFile \/ AllInserted \/ FailScan
Deliver == OnStateChanged \/ OnRemoveFromQueue \/ OnScanFinished

Next ==
    \/ Wire
    \/ \E f \in Folders : ChangeDisk(f)
    \/ OnDirectoryChanged
    \/ MediaDirectoryAdded
    \/ \E m \in Models : AttachModel(m) \/ DetachModel(m)
    \/ Work
    \/ Deliver
    \/ PlayerRemoves
    \/ \E t \in Track : UserRemoves(t)
    \/ ConnectControl \/ DisconnectControl

Spec == Init /\ [][Next]_vars

------------------------------------------------------------------------------
\* Nothing is under way.
Settled == /\ wired /\ ~notified /\ timers = <<>>
           /\ ~running /\ folderQueue = <<>> /\ events = <<>> /\ playerJobs = <<>>

(* An attached model shows the devices the backend has, each once and none   *)
(* that has been deleted, although it deletes those it no longer shows.      *)
ShowsLiveDevices ==
    \A m \in attached :
        /\ ToSet(rows[m]) = Devices /\ Len(rows[m]) = Cardinality(Devices)
        /\ ToSet(rows[m]) \cap deleted = {}

(* When all is quiet and the backend has a device for each of the folders    *)
(* that are plugged in, the library holds their files and no others:         *)
(* removals overtake neither each other nor the scans of new devices, which  *)
(* start late and run while devices go.  Left out are folders that came back *)
(* or went again unnoticed, removals announced for another path, errors, and *)
(* folders whose path begins with that of another, whose tracks go with it.  *)
LibraryMatches ==
    Settled /\ off \cap {"unseen", "dangling"} = {} /\ counts.failures = 0
            /\ present = {f \in Folders : deviceMap[f] # 0} =>
        \A f \in Folders :
            /\ f \notin present => Files[f] \cap library = {}
            /\ f \in present /\ (\A g \in Folders : <<g, f>> \notin PrefixOf)
                => Files[f] \subseteq library

(* The tracks left in the play queue are those no one meant to go, numbered  *)
(* without a gap, as long as a removal finds one row at most and its index   *)
(* reaches the player before another is looked up.                           *)
QueueKept ==
    Settled /\ off \subseteq {"unseen", "dangling"} =>
        /\ DOMAIN queue = wanted
        /\ {queue[t] : t \in DOMAIN queue} = 0 .. Cardinality(DOMAIN queue) - 1

\* Not checked: the removals announced for another path violate it.
LibraryMatchesAnyway ==
    Settled /\ "unseen" \notin off /\ counts.failures = 0
            /\ present = {f \in Folders : deviceMap[f] # 0} =>
        \A f \in Folders \ present : Files[f] \cap library = {}

(* Devices that come and go take exactly their own tracks along, in the      *)
(* library and in the play queue.                                            *)
TracksFollowDevices == LibraryMatches /\ QueueKept

(* The control shows the indexer's state: Error if the last run failed, Idle *)
(* otherwise, whatever order worker and GUI thread announced it in.          *)
StateShown ==
    Settled /\ control =>
        /\ shownState = state
        /\ state = IF result THEN "Idle" ELSE "Error"

(* No call that finds the worker busy is forgotten: operations wait only     *)
(* while the future runs, or its finished() signal is still to come.         *)
NothingForgotten ==
    folderQueue # <<>> =>
        running \/ \E i \in DOMAIN events : events[i].kind = "finished"

IndexerServes == NothingForgotten /\ StateShown

(* A device a model shows has not been deleted: "The implementation should   *)
(* inform about the current state after every call" of initialize(), which   *)
(* is called once for each feature that connects.                            *)
ShownDevicesLive ==
    \A m \in Models : ToSet(rows[m]) \cap deleted = {}
==============================================================================
