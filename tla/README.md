# Qt IVI in TLA+

A verification development for the Qt IVI module (`src/src/ivicore`,
`ivimedia`, the plugins, and the code that `tools/ivigenerator` writes): TLA+
modules of its stateful core, TLC configurations that check them on small
instances, and theorems, checked by TLAPS, for all instances. All paths below are
relative to the repository; its own root is the directory `src/`, so the
library sources are in `src/src/...`.

## 1. The system

Qt IVI splits a car function into a *feature* (front end, used from C++ or
QML) and a *backend* (plugin), joined by a *service object*. All of it is
callbacks: a feature calls slots of the backend's interface object and the
backend answers with signals, in the same call, later from the event loop, from
a worker thread, or from another process over QtRemoteObjects.

```
 application / QML
      |  properties, methods, then()                    signals
      v                                                    ^
 feature: QIviAbstractFeature, QIviPagingModel, ...        |
      |  setServiceObject / autodiscovery                  |
      v                                                    |
 QIviServiceObject  --interfaceInstance-->  backend interface
      ^                                        |          ^
      |  service objects by interface name     | calls    | signals
 QIviServiceManager (plugins)                  v          |
            simulation backend | QtRemoteObjects replica -> server, adapter, service
```

### Components

State, operations and hard behaviour of each part, what makes it correct, and
where it is modelled. "-" means that it is not (section 8 says why).

| Component (source) | State | Operations | Hard behaviour | Correct when | Module |
|---|---|---|---|---|---|
| Feature life cycle (`qiviabstractfeature.cpp`, generated `interface.cpp.tpl`) | service object, connected and initialized flags, discovery mode and result, signal connections, mirrored property | `setServiceObject`, `startAutoDiscovery`, `setDiscoveryMode`, slots for `initializationDone`, property changes, `destroyed` | switches between service objects, shared backends, asynchronous initialization, deletion by the owner, partial failure of discovery | an initialized feature shows its own backend's state and no other; no dangling pointer; every accepted backend initializes it | AbstractFeature |
| Paging model (`qivipagingmodel.cpp`) | item list, fetched count, more-available flag, chunk bits, session identifier, loading type | `fetchMore`, `data`, `reload`, `setChunkSize`, `setLoadingType`, `onDataFetched`, `onCountChanged`, `onDataChanged` | asynchronous pages, old sessions, range edits, partial last chunk | the rows are the backend's items at their places, and all arrive | PagingModel |
| Pending replies (`qivipendingreply.{h,cpp}`) | value, available and success flags, connected functors, JavaScript callbacks | `setSuccess`, `setFailed`, `then`, copies | `then` before, during or after the emission of a result; several setters; refused values | set once, right functor once | PendingReply, RemoteReplies, Reply |
| Remote calls (`helper/remoteobjects/*.h`) | reply counter, `m_pendingReplies` by id | `fromPendingReply`, `toQIviPendingReply`, `onPendingResultAvailable` | ids announced to all clients, broken links, restarts | each caller gets its own result once | RemoteReplies |
| Search and browse model (`qivisearchandbrowsemodel.cpp`) | content type, query, navigation flags | `setContentType`, `setQuery`, `goBack`, `goForward`, `insert`, `remove`, `move`, `indexOf` | asynchronous navigation racing with a newer choice | list, query and content type belong together | SearchAndBrowse |
| Service manager (`qiviservicemanager.cpp`, `qiviproxyserviceobject.cpp`) | list of backends with their loaded objects, interface names | `searchPlugins`, `registerService`, `findServiceByInterface`, `data`, `unloadAllBackends` | builds and links of a plugin in any order, lazy loading, failed loads | no plugin is listed twice, one with a fitting build in that build, each with one object | ServiceManager |
| Zoned features (`qiviabstractzonedfeature.cpp`, `backend.cpp.tpl` with zones, the simulated server) | zone features, zone objects, properties and zones not yet synchronised; the server's zones | `initializeZones`, `syncZones`, `onZoneSyncDone`, setters, changes | answers of many getters, which changes overtake, lost links, a server back with other zones | who is initialized shows the zones' values, and all get initialized | ZonedSync |
| Play queue, media player (`qiviplayqueue.cpp`, `qivimediaplayer.cpp`) and simulator (`mediaplayerbackend.cpp`) | queue, current index, play state; database worker | `insert`, `remove`, `move`, `next`, `previous`, ... | worker and GUI thread share index and count; a second receiver of the backend's signals | the queue shows the table, the index names the current track, that track plays | MediaPlayer |
| Simulator browse, indexer, discovery backends, with the device discovery model and the indexer control | per-instance state; devices, folders to scan, library, state of the indexer; rows of devices | `fetchData`, `goForward`, ...; `onDirectoryChanged`, `scanWorker`, `onScanFinished`, `removeFromQueue` | worker threads, devices coming and going, row indices sent from one thread to another | the model shows live devices, tracks go with their device, no operation is forgotten | browse: PagingModel, SearchAndBrowse; player: MediaPlayer; others: MediaDevices |
| Tuner (`qiviamfmtuner.cpp`, simulator) | band, frequency and station of each band, scan | `tune`, `setBand`, stepping, seeking, scanning | two features of one backend, band edges, a band without stations, a scan that goes on alone | all features show one consistent place | AmFmTuner |
| Simulation engine and proxy (`qivisimulation*.cpp`) | QML overrides of backend functions and properties | call forwarding | recursion between the override and the base call | | - |
| Property overrider, DLT registration, query parser, media item classes, QML plugins, generator | data classes, debugging aids, build tools | | | | - |

### How they interact in the models

* *Feature and backend* run in one thread: each call is one step. What
  interleaves is the order of calls on several features and the moment an
  asynchronous backend answers `initialize()`.
* *Paging model and backend* are joined by two FIFO queues: calls one way and
  signals the other. Queued connections to a thread and a QtRemoteObjects link both
  keep the order. A backend that answers within the call is the interleaving in which its step
  and the delivery follow at once.
* *Search and browse model, backend and worker* are joined by the same two queues,
  and by a third one, of searches, between the backend's GUI thread and its
  one worker thread. The worker's signals reach the model as queued events, in
  order with those of the GUI thread once both are on the link.
* *Media player, play queue and simulator* are in one process. The GUI thread calls the
  simulator directly; the simulator's one worker thread takes its operations from a queue
  and its signals reach the GUI thread as queued events. Both threads
  read and write the current index.
* *Clients and server* have one ordered link for each client, in each
  direction. A link may break, and what is on it is lost. In ZonedSync the
  server may have restarted by the time it is back. Signals of a replica are handled as they
  are read off the link; the answer to a call, once read, waits for the event
  loop to emit its watcher's `finished()`, and signals behind it come first.
* *Discovery, indexer and player backends* live in the GUI thread, the indexer's
  scans in a worker thread and the player's queue in the player's own; they
  talk through queued signals, and the disk changes when it likes.
* *Tuner features* share one backend in one thread: calls are steps, the scan
  timer is one more caller.

## 2. Modules

| Module | What it is |
|---|---|
| `AbstractFeature` | features, service objects, backends: the life cycle |
| `MCAbstractFeature` | its instances for TLC |
| `PagingModel` | the paging model and its backend |
| `PagingModelProofs` | theorems about it: its types and rows, and that no instance is left |
| `MCPagingModel` | its instances for TLC |
| `SearchAndBrowse` | the search and browse model, the simulator's browse backend and its worker |
| `SearchAndBrowseProofs` | theorems about it |
| `MCSearchAndBrowse` | its instances for TLC |
| `MediaPlayer` | the media player, its play queue and the simulator's player backend |
| `MediaPlayerProofs` | theorems about it |
| `MCMediaPlayer` | its instances for TLC |
| `Reply` | what a pending reply promises: the abstract specification |
| `PendingReply` | one reply, its copies, setters and functors |
| `PendingReplyProofs` | theorems about it, with the refinement of `Reply` |
| `MCPendingReply` | its instances for TLC |
| `RemoteReplies` | pending replies over QtRemoteObjects |
| `RemoteRepliesProofs` | theorems about it, with the refinement of `Reply` |
| `MCRemoteReplies` | its instances for TLC |
| `ZonedSync` | zoned features, the remote backend they share, and its server |
| `MCZonedSync` | its instances for TLC |
| `ServiceManager` | the list of backends and their objects |
| `ServiceProofs` | theorems about `ServiceManager` and `ZonedSync` |
| `MCServiceManager` | its instances for TLC |
| `MediaDevices` | device discovery, indexer, play queue and control, with the disk |
| `MediaDevicesProofs` | theorems about it |
| `MCMediaDevices` | its instances for TLC |
| `Ordering` | sequences made of sets and of sequences, for `MediaPlayer` and `MediaDevices` |
| `AmFmTuner` | tuner features and the simulator's backend |
| `FeatureProofs` | theorems about `AbstractFeature` and `AmFmTuner` |
| `MCAmFmTuner` | its instances for TLC |

### AbstractFeature

The state of each feature is the code's: `serviceObject`, `isInitialized`,
`isConnected`, `discoveryMode`, `discoveryResult`. Qt's signal connections are
state too, for most of what can go wrong is a connection that is left or missing:
`watched` (objects whose `destroyed()` reaches the feature), `baseLinks`
(backends whose `initializationDone` arrives) and `propertyLinks` (backends whose
property signal arrives). The last two differ because `disconnect(backend,
feature)` is what disconnects, and the option `disablePrivateIVI` (`PrivateIVI
= FALSE`) makes another object the receiver of the property signals.
`property` stands for the generated property that mirrors the backend's
`state`; `announcedValid` is the argument of the last `isValidChanged()`.

Actions: `SetServiceObject` (a switch to a null or a rejected object is
`Clear`, to an accepted one `Attach`; `Attach` is the whole of disconnect,
connect and `initialize()`, answered within the call or owed),
`SetDiscoveryMode`, `StartAutoDiscovery` (with all its attempts),
`BackendChange`, `InitializationDone`, `Destroy`.

A service object may have no instance of the interface it lists (`BackendOf[so]
= None`): `connectToServiceObject` of a generated feature then returns early,
which is a partial failure with its own state.

### PagingModel

Variables follow the members (`itemList`, `fetchedCount`, `moreAvailable`,
`availableChunks` with the size `chunkCount` of the bit array, `chunkSize`,
`loadingType`, `identifier`). A `QUuid` is a number that grows with each
session; `Everyone` is the null one, for signals to all models. Actions are the
application's (`Connect`, `Disconnect`, `Reload`, `SetLoadingType`,
`SetChunkSize`), the view's (`FetchMore`, `View`, which is `data(row)`), one for each slot
(`OnInitializationDone`, `OnCapabilitiesChanged`, `OnCountChanged`,
`OnDataFetched`, `OnDataChanged`), `SignalLost`, and the backend's: one for each
call it takes off the queue, a second announcement, and the edits of its
content. The backend is that of the media plugins (`searchandbrowsebackend.cpp`
of `media_simulator`, reached directly or through `media_qtro`) with the
edits of the generated simulation (`pagingmodel_simulation.cpp.tpl`). Both ways those
backends compute `moreAvailable` are allowed.

`ChangedRows` does what `onDataChanged()` does, row by row, including the
offset `updateCount + 1` and the loop that calls `removeAt(i)` for increasing
`i` (`Survivors`).

### SearchAndBrowse

The model's variables follow the members (`contentType`, `requested` for
`m_contentTypeRequested`, `query` and the `queryTerm` it was parsed to,
`canGoBack`, `canGoForward`, and the paging model's `itemList` and `moreAvailable`).
The backend keeps `instances` (the keys of `m_state`), their `state` and the `jobs`
of its worker. A content type is a path of browsing, as in the code, where it holds the
items that were selected on the way.

Actions are the user's (`SetContentType`, `SetQuery`, `GoBack`, `GoForward` in
and out of the model, `Connect`, `Disconnect`), the view's `FetchMore`, one
for each slot (`OnContentTypeChanged` with `parseQuery()` and the reset it
does; `OnReply` for the functors of `goBack()` and `goForward()`), one for
each call the backend serves, and two for the worker's `search()`: `Search`
emits the page, `Record` then writes the rows to `m_state` and emits the flags. In
between, the GUI thread may serve a call.

A content type or query is only *asked for*: `resetModel()` of this class calls the
backend's `setContentType()`, and the list is reset when `contentTypeChanged()`
comes back. All that the properties are about lies in between.

`stale` is a history variable. It gets `"rows"` when the list is reset, and
`"flags"` when the flags are cleared, with a page of the same session under way;
nothing in the code notices that (section 4). The properties
about rows and flags except exactly this case, and `RowsOfContentType`, which
does not, is violated.

### MediaPlayer

`loadingType`, `itemList`, `fetchedCount`, `moreAvailable`, `shownIndex` and
`identifier` are the play queue's members, `shownTrack`, `shownMode` and `shownState`
the player's current track, mode and state;
`queue` is the table of the simulator's database, as a function from tracks to
their `qindex`; `count`, `currentIndex`, `playMode`, `playState` and `requested` are the
simulator's members; `media`, `playing` and `mediaStatus` are what it reads of
`QMediaPlayer`. `jobs` are the operations in the thread pool, which has one
thread, and `events` the signals queued for the GUI thread.

Actions: the user's calls, in the GUI thread (`Insert`, `Remove`, `Move`,
`SetCurrentIndex`, `NextTrack`, `Previous`, `Request` for `play()`, `pause()` and
`stop()`, `SetPlayMode`, `SetLoadingType`, `Connect`, `Disconnect`), the view's
`FetchMore`, the slots, two steps of `QMediaPlayer`, and the worker's. One operation of the worker
(`doSqlOperation()`) is two steps: `Execute` runs the queries and counts the
rows, a `Finish...` action sees to the current index and emits. In between the GUI
thread may skip to another track.

`links` counts how often the simulator's signals are connected to the play queue:
each queued signal is there that many times. Connecting adds one, and
disconnecting takes none away, which section 4 comes back to.

`off` is a history variable. It gets `"race"` when the GUI thread chooses a track while
an edit is under way, or an empty queue's index while anything is, or the worker
takes the current track away with a track to play under way; `"move"` when the current
track is moved by more than one row or a later one is moved onto it, which
`doSqlOperation()` computes wrongly; `"album"` when an album is inserted at or before
it, for which the index moves by one; and `"first"` when the current first track is
removed and leaves one or two others, where `setCurrentIndex(-1)` does nothing. Properties of index and
track except exactly these.

### RemoteReplies

One record of state for each remote call: `status`, `result` (the call
whose value it holds, so that a mix-up is visible), `functors`, `ran`. For
each client `pendingReplies`, a set of pairs of id and call with `insert`'s replacing, and
the link: `linked`, `requests`, `inbox`, and `finished`, the answers that were read
and whose watchers have yet to emit. For the server `replyCounter`, the
`replyId` each late answer was given, and `service`, the service's own reply.
Actions: `Call`, `Then`, `GiveUp` (a caller who shares the reply sets it
failed), `Serve` (`fromPendingReply` with its three kinds of answer), `Finish`
(`pendingResultAvailable` emitted to all), `Arrive` (an answer is read off the
link), `OnReturned` (its watcher's `finished()`), `OnPendingResultAvailable` (an
announcement, read and handled at once), `LoseLink`, `Relink`, `ReportError`,
`RestartServer`.

`overtaken` is a history variable: the calls whose result was announced while the id it
comes under was still in `finished`. The code finds no entry and drops the
result for good (section 4); `EventuallyAnswered` excepts these calls.

`Told` is all a caller can tell of its reply; with it as `outcome` the module
implements `Reply` (`OneOutcome == INSTANCE Reply WITH ...`, `SingleOutcome`).

### Reply and PendingReply

`Reply` has one action: a reply whose result is not set is settled, with one of the
outcomes its own call may have. It is what `qivipendingreply.cpp:171-172` promises.

`PendingReply` is one watcher. `available`, `success` and `data` are its
members; `connected` are the functors `then()` of the template has connected to its
signals, `callback` the pair a JavaScript `then()` has left in `m_successFunctor`
and `m_failedFunctor`; `copies` the `QIviPendingReply` objects that share it.
Setting a result is several steps, because slots run in between: `SetSuccess` or
`SetFailed` and the emission of `valueChanged`, `EmitResult` for `replySuccess`
or `replyFailed`, `CallConnected` for each functor, `CallCallback` for the
JavaScript one. `Then...`, `Copy` and `Drop` may come at any stage. `ran` counts.

### ZonedSync

`zoneMap`, `cached`, `toSync` and `synced` are the backend's zone objects and
`m_synced`; `children` the keys of a feature's `m_zoneFeatureMap`, and `shown`
the properties of a feature and of all its zone features. A feature made for a
zone (`ZoneOf`) hears its zone's signals only and has no zone features.
`requests` and `replies` are the two directions of the link: calls one way,
answers and changed signals, in order, the other. `finished` are the answers that
were read and whose watchers have yet to emit.

Actions: `Attach` (`initializeZones()` with the zones the backend has at that
moment, then `initialize()`), `Detach`, `Set`; the server's `ServerChange`,
`AnotherClientAsks` and `Serve`; `LinkUp` (`initialized()` of the replica starts
`syncZones()`), `LinkDown` (`Suspect`; nothing but `m_synced` is taken back); and what
the client does with what arrives: `OnChanged` passes a change on as it is read,
synchronised or not; `Arrive` reads an answer; `OnZones` and `OnValue`, later, are the
slots of its `finished()`. The one creates the missing zone objects and features and asks for
everything, the other ends the synchronisation with the last answer.

`OnValue` and `OnChanged` write the same `cached` value, and a change read behind an answer
is handled before it: the answer then undoes the change. Two history variables
name what goes wrong that way (section 4). `crossed` has the properties whose last
change overtook an answer. `lateSync` says that answers read before the connection broke
have ended the synchronisation without one: the next connection finds the backend synchronised and
asks for nothing. `ZonesAgree` excepts exactly these, and `AlwaysAgrees` does not.

### ServiceManager

`backends` is `m_backends`, each with the object it has been loaded to; objects
are numbered as they are made, so that two are never the same. `todo` and
`statics` are what `searchPlugins()` has still to come to: any sequence of files, for
directories are listed in no order and hold links. `Register` is `addBackend()`
with its three ways: a new row, one that replaces another build, one that is dropped.
`findServiceByInterface()` and `data()` load what they find
(`CreateServiceObjects`). `seen` are the files found since the last unload.

### MediaDevices

`present` is the disk and `notified` the watcher's signal to come; `deviceMap` is the
discovery backend's, with the devices numbered; `rows` and `deleted` are the discovery
model's list and the objects it has deleted. `folderQueue`, `running`,
`result` and `state` are the indexer's; `scan`, `begun` and `pending` its worker's; `events`
the signals on their way from the worker to the GUI thread, where `finished` is the future
watcher's. `library` and `queue` are the tables; `playerJobs` the removals the player's
worker has yet to do. `Wire` is the rest of `MediaPlugin`'s constructor: before it nobody
hears the indexer, which is verifying already.

The worker's scan is `BeginScan` (it looks up what goes and posts
`removeFromQueue` with row indices), then `DeleteFound` for what it found or
`InsertFile` file by file, or `FailScan`. In between, the GUI thread may take
events and the player remove rows.

`onDirectoryChanged()` uses an iterator and a reference to the folder's name after `take()` has
destroyed the entry they point to. So `OnDirectoryChanged` removes any non-empty part of what is
gone, and announces each removal for any of `Paths`: a folder, or `Elsewhere`.

`wanted` and `off` are history variables: the tracks nobody has removed, and
what has happened that the code does not cope with: a change of the disk that takes a folder
back to what the backend has of it (`"unseen"`), a removal announced for another path
(`"dangling"`), one nobody hears (`"unheard"`), one of several rows
at once (`"several"`), one with another index under way (`"stale"`).

### AmFmTuner

`band`, `frequency` (of each band, `m_frequency` of both band objects) and
`scanning` are the backend's; `shown` is what each feature shows. Each
operation of `qiviamfmtuner.cpp` is an action with the backend's function it calls.
`initialize()` announces the first station of the band whatever the
frequency; `stepDown()` works out where to wrap around and goes on without it. Both are
translated as they are.

## 3. Runs

All bounds are chosen so that each kind of interference has room to happen, and
no larger.

| Run | Checks | Bounds, and why they suffice |
|---|---|---|
| `feature_lifecycle` | TypeOK, InitializedHoldsBackendState, AnnouncedValidity | two features (one to be disturbed, one to disturb), two backends, five service objects: production, a proxy of the same backend, simulation, one without an instance, one not accepted; two values. No deletions. Features are symmetric |
| `feature_deletion` | LinkedOnlyToCurrentBackend, NoDanglingServiceObject, DiscoveryResultIsTrue, EventuallyInitialized | two features, a production and a simulation service object that may be deleted at any time, and in both lists a hollow one ahead of them, so that discovery falls back and in the end has nothing but that one; one value, for these properties read none |
| `paging` | TypeOK, ListTrue, NoInstanceLeft, EveryRowShown | three items with chunks of 2 or 3: a partial last page, and a length that is a multiple of the chunk size; content of 2 or 3 items after edits; two sessions, so that pages of the first arrive in the second; one reset |
| `paging_reset` | ListIsPrefixOfContent is violated | removals of 1 or 3 rows: `reset()` takes out the whole list |
| `search_browse` | TypeOK, ListHangsTogether, InAgreement, EventuallyLoaded | two artists, each with a track: one level to go forward and back; two content types to choose from; one query that filters, one that does not parse; pages of one row, so that a list takes several; two sessions; two requests of the user after the choices made before the connection: enough for a request to overtake another or a navigation reply |
| `player` | TypeOK, QueueShown, PlayerAgrees, EventuallyShown | one or three tracks in the queue, and a track and an album of two to insert, so that tracks are before, at and behind the current one and the queue can become empty; pages of two; one connection; three requests: choose, play and edit, or an edit crossed by two choices |
| `remote_replies` | TypeOK, OwnResult, FunctorFitsOutcome, SingleOutcome, EventuallyAnswered | two clients with one call each: each hears the other's announcement, before or after its own answer, and ids collide if they can |
| `pending_reply` | TypeOK, FunctorRunsOnce, SingleOutcome | three `then()` calls, so that one is before, one in the middle of and one after the emission, or one replaces another; two copies; one value accepted, one refused |
| `zoned` | TypeOK, ZonesAgree, EventuallyInitialized | one feature without a zone and one made for it; a server with the zone or without, so that it is there from the start, turns up or disappears with a restart; two properties, so that one answer is never the last; any two (`MaxEvents`) of lost connections, setter calls, changes in the server and questions of another client: a change on each side of a break, or two that cross |
| `services` | ManagerTypeOK, RightBuildListed, OneObjectEach | up to four files of five plugins, two of them builds of one; one static plugin, one object of the application; two interfaces; everything unloaded once and searched again |
| `devices` | TypeOK, ShowsLiveDevices, TracksFollowDevices, IndexerServes | two folders, the path of one the beginning of the other's, with a file each, and one path that is no folder's; both in the queue; two changes of the disk: out and in again, or both out; one error of the database or one removal by the user; the discovery model and the control connect once and may go |
| `tuner` | TunerTypeOK, TunerAgrees, StationFollows | two features; a band with two stations, one at its lower end and room above, and one without stations whose step is its width; frequencies in, between, at and beyond the limits. No bound: the state space is finite |

Two properties with parts of their own are one property of a run where the parts
are about one thing; the definitions name them: `ListTrue` of PagingModel is
`ListIsPrefixOfContent`, `RowsInPlace`, `AvailableChunksArrive` and
`ChunkLookupInRange`; `ListHangsTogether` of SearchAndBrowse `RowsBelong`,
`FlagsWithinList`, `FlagsFitRows` and `GoesWhereShown`; `PlayerAgrees` of MediaPlayer
`IndexAgrees`, `TrackAtIndex`, `PlaysWhatIsShown`, `KeepsPlaying` and `ModeAndStateShown`; and so on.

What the passing runs show:

* `feature_lifecycle`: an initialized feature has a backend and shows its value,
  through any sequence of switches and any timing of answers; a signal
  `isValidChanged` always tells what `isValid` returns.
* `feature_deletion`: with objects deleted at any time no feature hears a foreign
  backend or keeps a pointer to a deleted object, and one that keeps its
  service object gets initialized. Each result of discovery
  describes the state it leaves, whatever the failed attempts before did: a success leaves a
  backend of the kind reported, an error none. There are two exceptions (section 4): an error may
  leave a service object without a backend, and so may a success once the
  feature's last object was deleted.
* `paging`: the list shows the backend's items at their places, whatever is
  still under way; chunk bits neither lie nor overrun; registrations are undone
  under the identifier they were made with; each row gets shown in the end.
* `search_browse`: with all quiet, model and backend agree on content type and filter, in every
  order of requests, confirmations and navigation replies, across a reconnection; the rows are
  the first ones of the content type that match the filter; each row is flagged as leading on if
  it does, and leads where the user saw it lead, though the backend looks the row up in a list
  of its own; the rest of the list is loaded in the end.
* `player`: whatever is edited and skipped, the play queue shows the rows of the
  table in their order, and all of them in the end; the rows stay numbered; when all is
  quiet the index shown is the simulator's, names the track that is shown as the
  current one, and that is what `QMediaPlayer` has; it plays if `play()` was the last request, in
  whichever order track and request came; the player shows the mode, and the state while it is
  not stopped.
* `remote_replies`: no caller is given another's result or a second one, no late answer goes to
  the wrong functor, and a call on its way is answered unless its link breaks or the
  announcement of its result overtakes the answer. What the callers see is what `Reply` allows.
* `pending_reply`: whenever `then()` is called, its functor for the outcome runs once and
  the other never; only callbacks that a later JavaScript `then()` replaces may stay
  unused. Setting, refusing and copying in any order implements `Reply`.
* `zoned`: as soon as the backend calls itself synchronised, every feature is initialized, has
  its zones and shows what the zone objects hold, nothing of it a default; new
  features get it at once; when nothing is under way that is what the server has, after
  any change, lost link or restart, but for what `crossed` and `lateSync` name; and every
  feature that stays gets initialized, without exception.
* `services`: in whatever order builds, links and other plugins turn up, a plugin
  is listed once at most, and in the build that fits if that was found (a build that does not fit may be
  listed without it, section 4); `hasInterface()` is true to the list; no
  search makes a second object, and none outlives its entry.
* `devices`: the model's rows are the backend's devices, none of them deleted; when all is
  quiet, library and play queue have lost the tracks of the devices that went and no others,
  both devices gone at once included, if the path announced was the right one; whatever it was,
  the rows of the queue stay numbered; no folder is left waiting, and control and indexer agree
  on a state that fits the last scan.
* `tuner`: both features show the band, its limits, frequency and a station of that band,
  and each step to a new place shows the station there, or none.

`CHECK_DEADLOCK FALSE` in `paging`: with the sessions and the reset used up, a
disconnected model with an exhausted backend really stops. In `search_browse`,
`player`, `pending_reply` and `devices` too: what is loaded or delivered waits for a user
whose requests are bounded. In `tuner` a feature that connects while the backend is on the band
without stations ends the process (`amfmtunerbackend.cpp:91`): nothing follows.

### Environment of the passing runs

Some uses of the code are not safe. The models can express them, and a constant
keeps them out of the passing runs, so that the restriction has a name:

* `Patient = TRUE` (PagingModel): the application resets the model and edits reach it only
  when no call or signal is under way, edits come to completely
  loaded lists, and the chunk size is not changed in a DataChanged list. Without
  it the code fails in known ways: two requests of one session both append
  their pages (`reload()` does not renew the identifier), an edit does not move
  `m_fetchedDataCount`, and `data()` indexes bits cut for another chunk size.
  Reconnecting and the second session are *not* restricted this way, except
  that an edit is not on its way at that moment (its null identifier reaches every model).
* `Removals = {1}` in `paging`: edits remove one row at a time. Removing
  several at once is the finding of `paging_reset`.
* `Lengths = {2, 3}` in `paging` fit the chunks (`LengthsFit` of `PagingModelProofs`): whatever
  length a DataChanged list was cut into chunks at, there are chunks for the others.
  `onDataChanged()` inserts rows and leaves `m_availableChunks` as it is, so that with one more
  chunk of rows, or with rows for a list that was empty when it was loaded, `data()` looks up a
  bit that does not exist; five `Items` and `Lengths = {4, 5}` make `ChunkLookupInRange` fail.
* `Offered` (SearchAndBrowse): the application asks for content types the
  backend supports. The backend stores an unsupported one before it refuses it, and
  searches it for the next page.
* `MayEdit` and `Patient` (MediaPlayer): the user edits a completely loaded FetchMore
  list, one edit at a time, and changes the loading type with no page under way. The
  simulator counts the rows after *every* operation, and a DataChanged list whose length differs
  appends that many rows again (`qiviplayqueue.cpp:144`). Skipping tracks is not
  restricted.
* `MaxSession = 1` in `player`: one connection (section 4). In a second one the player also
  shows the default mode: `initialize()` does not announce mode, state, index and track.
* `AbruptRestart = FALSE` (RemoteReplies): the server restarts only while no
  client waits under an id. A restarted server counts from the beginning, and
  nothing clears `m_pendingReplies`; `OwnResult` fails otherwise.
* `FunctorSets` in `remote_replies` always has a success functor. The generated
  remote backends call `then()` with an empty one, on replies that still
  wait, where it does no harm (section 4). The same holds for `pending_reply`.
* `NestedJs = FALSE` (PendingReply): no slot of `valueChanged` calls the
  JavaScript `then()`: its callback would run at once and again when the emission goes on.
* `Forgetful = FALSE` (ZonedSync): the server keeps its zones. `availableZones()` of
  the generated simulation makes new zone objects each time a client asks, which loses their
  values for the others without a word; `ZonesAgree` fails with it.
* `MaxConnects = 1` and one model (MediaDevices): a second connection or model is
  given devices that the first has deleted (section 4).
* `ManagerAssumption` (ServiceManager): builds of one plugin have the same interfaces.
  The comparison that is meant to check this compares a backend with itself
  (`qiviservicemanager.cpp:314`). An object is registered once: a second registration is
  accepted, and unloading deletes the object twice.
* `Misfits = {}`: no value of a type the reply refuses.
* `PrivateIVI = TRUE`: with `disablePrivateIVI` the property signals of the old
  backend stay connected after a switch, and LinkedOnlyToCurrentBackend fails.
* `Destroyable = {}` in `feature_lifecycle`, and no deletable proxy in
  `feature_deletion`: see section 4 and the hazards on
  `serviceObjectDestroyed()`.
* In `feature_deletion` every service object that may be deleted has an instance; a feature
  does not watch a hollow one, which could dangle.

### Fairness

* AbstractFeature: `WF(InitializationDone(b))`: a backend that was asked to
  `initialize()` answers, which `qivifeatureinterface.cpp` demands of every
  backend. Nothing is assumed about users, discovery or deletion.
* PagingModel: the backend takes calls off its queue and the model's event loop
  delivers signals; a view that can fetch more does so, and a row that is on
  view is asked for again while its chunk is missing (this is what `QListView` and QML's
  `ListView` do with `canFetchMore`/`data`). Edits and user calls are not
  fair.
* SearchAndBrowse: the model's event loop delivers signals, the backend serves calls,
  its thread pool runs the searches, an initialization that is owed comes, and a view loads
  what there is. The user owes nothing.
* MediaPlayer: the worker goes on with its operations, the GUI thread takes its events, a view loads
  what there is. Neither the user nor `QMediaPlayer` owes anything.
* ZonedSync: the server's event loop goes on (`Serve`), the client reads its connection (`Read`) and
  delivers what waits (`Deliver`), and QtRemoteObjects connects a replica to a source
  that is there (`LinkUp`). Lost links are among the `MaxEvents` events.
* PendingReply, ServiceManager, MediaDevices and AmFmTuner state safety only, and need none.
* RemoteReplies: the source serves requests, the service completes each call it
  has accepted, each client reads its link, and its event loop delivers `finished()`. Links need not
  recover.

## 4. Findings

Each was met while translating the code. One has a run. The others are kept out of the passing runs
by a named constant, or happen in them and are excepted by name: the table says which value, or which
property without the exception, brings them to light.

1. `onDataChanged()` that removes several rows skips every other one. Run
   `paging_reset`; `PROJECT.json` has the lines and the text they disagree with.

| Where | What the code does | To see it |
|---|---|---|
| `qiviabstractfeature.cpp:795` | `serviceObjectDestroyed()` leaves `m_isInitialized` and `m_isConnected` set: the feature is initialized without a backend (docs: `:774`, `:751`) | AbstractFeature, `Destroyable = {prod1}`: InitializedHoldsBackendState |
| `qiviabstractfeature.cpp:795` | the same stale `m_isConnected` makes the next discovery take an object without an instance for a success: it reports `ProductionBackendLoaded`, no backend is there, and the simulation is never tried (docs: `:218`, `:533`) | AbstractFeature, the constants of `feature_deletion`: SuccessHasBackend |
| `qiviabstractfeature.cpp:576` | a discovery whose last object has no instance ends in `ErrorWhileLoading` and leaves that object set: `isValid()` is true, and the next discovery answers `NoResult` (docs: `:141`) | AbstractFeature, the constants of `feature_deletion`: ErrorLeavesInvalid |
| `qiviabstractfeature.cpp:715` | with `disablePrivateIVI` the property signals go to another receiver, which nothing disconnects (docs: `:704`) | `PrivateIVI = FALSE`: LinkedOnlyToCurrentBackend |
| `qivipagingmodel.cpp:123` | `setChunkSize()` with a page on its way makes the assertions of `onDataFetched()` fail | PagingModel, `ChunkSizes = {2, 3}`: PageFitsChunk |
| `qivipendingreply.h:148` | `then()` on a successful reply runs the failed functor if there is no success functor (docs: `qivipendingreply.cpp:843`) | RemoteReplies, `FunctorSets` with `{"failed"}`: FunctorFitsOutcome |
| `qivipendingreply.h:153` | a functor given to `then()` holds the watcher it is connected to: the reply is never freed (docs: `qivipendingreply.cpp:338`) | PendingReply: FreedWhenUnused |
| `qivipendingreply.cpp:531` | a JavaScript `then()` in a slot of `valueChanged` has its callback run twice | PendingReply, `NestedJs = TRUE`: FunctorRunsOnce |
| `qiviremoteobjectreplicahelper.h:69` | the id of a late result is written down in a queued slot; an announcement read before that finds no entry (`qiviremoteobjectreplicahelper.cpp:62`) and is dropped: the reply is never set | RemoteReplies: AnsweredInAnyOrder |
| `qivisearchandbrowsemodel.cpp:185` | the new list starts under the old identifier: a page of the previous content type that is still under way is appended to it (docs: `:698`, `:550`) | SearchAndBrowse: RowsOfContentType |
| `qivimediaplayer.cpp:585` | a player connected again has its play queue connected twice: it resets, asks and appends twice (docs: `qiviabstractfeature.cpp:699`, `:706`) | MediaPlayer, `MaxSession = 2`: QueueShown |
| `mediaplayerbackend.cpp:356` | an album inserted before the current track moves the index by one row, whatever its length: the comment says only single items are supported, `insert()` supports albums and artists (`:198`) | MediaPlayer, `off` without `"album"`: PlayerAgrees |
| `mediaplayerbackend.cpp:460` | a stop is not passed on: the player shows Playing or Paused after `stop()` (docs: `qivimediaplayer.cpp:285`) | MediaPlayer: StopShown |
| `interface.cpp.tpl:132` | a feature made for a zone keeps its values without a service object (docs: `qiviabstractfeature.cpp:242`) | ZonedSync: ClearedShowsDefaults |
| `backend_simulation.cpp.tpl:139` | every client that asks for the zones resets them for all | ZonedSync, `Forgetful = TRUE`: ZonesAgree |
| `backend.cpp.tpl:92` | a getter's answer waits in a queued slot, a change is stored as it is read (`:324`): a change that overtakes an answer is undone by it | ZonedSync: AlwaysAgrees |
| `backend.cpp.tpl:192` | answers that were read before a connection broke can end the synchronisation after it broke; the next connection finds `m_synced` set and asks for nothing (`:205`) | ZonedSync: AlwaysAgrees, QuietAgrees without `lateSync` |
| `qiviservicemanager.cpp:345` | a build that does not fit is listed as long as no other one of the plugin turns up (docs: `:416`) | ServiceManager: OnlyFittingBuilds |
| `qivimediadevicediscoverymodel.cpp:81` | the model deletes devices the backend goes on announcing (docs: `qivimediadevicediscoverymodelbackendinterface.cpp:81`) | MediaDevices, two `Models` or `MaxConnects = 2`: ShowsLiveDevices, ShownDevicesLive |
| `mediadiscoverybackend.cpp:92` | `folder` refers to the key of an entry that `take(folder)` destroys: the path announced as removed (`:97`) is read from freed memory, and the tracks of the folder may stay | MediaDevices: LibraryMatchesAnyway |
| `mediaindexerbackend.cpp:202` | removing `usb1` removes the tracks of `usb10` | MediaDevices: LibraryMatches without its last exception |

Read off the code, without a property: `stepDown()` of the simulated tuner does not
wrap around (`amfmtunerbackend.cpp:143`); `initialize()` of the tuner reads the first
station of a band that has none (`:91`) and does not tell of a running scan, which
a feature that connects then cannot stop (docs: `qiviamfmtuner.cpp:288`); the comparison
of `qiviservicemanager.cpp:314`; `backend.cpp.tpl:284` remembers the URL of a connection that
failed, so the next call goes on with a null replica; a zoned interface without properties is never
initialized, for only the last answer to a getter says that its zones are synchronized
(`backend.cpp.tpl:75`, `:342`), which `ZonedAssumption` (`Property # {}`) leaves out.

## 5. Proofs

TLAPS checks the theorems for every value of the constants that satisfies the named assumptions
of the modules (`FeatureAssumption`, `PagingAssumption`, `RemoteAssumption`,
`PendingReplyAssumption`, `ManagerAssumption`, `TunerAssumption`, `BrowseAssumption`,
`ZonedAssumption`, `PlayerAssumption`, `DevicesAssumption`): any number of features, backends,
clients, calls, plugins, bands, zones, tracks, folders, rows and values. There are eight proof
modules for ten components: two of them hold the proofs of two components each. A component that
shares one gives its base definitions its own names (`TunerSpec`, `ManagerTypeOK`), for a module
cannot extend two that define `Spec`.

`FeatureProofs`, on AbstractFeature

* `TypeCorrect`: `Spec => []TypeOK`. The work is in discovery, which attaches
  to one of the objects it found (`DiscoveryAttaches`); each way to attach
  is then one lemma.
* `OnlyCurrentBackendHeard`: a feature hears only its current service object's backend,
  for `PrivateIVI` and no deletable proxies. By itself the
  property is not inductive: `Destroy(so)` clears the pointer of the features
  that *watch* `so`, so one must know that a feature watches its current object
  only. `LinkInv` adds `WatchesOnlyCurrent`.
* `InitializedIsTruthful`: an initialized feature shows its backend's value, without deletions. Needs
  `LinkedExactly` (the feature is linked to its backend by both kinds of links,
  and to nothing else): otherwise a backend could change without the feature hearing of it, or an
  answer meant for another feature could initialize it.
* `NeverDangling`: no feature points to a deleted object, if each accepted
  object has an instance. Needs `WatchesExactly`.
* `ValidityIsAnnounced`: `AnnouncedValidity`, without deletions, which are not announced.
  Discovery can change a feature only by attaching (`DiscoveryAttaches`), and a rejected object
  is announced if there was one to lose.
* `DiscoveryResultsAreTrue`: the action property `DiscoveryResultIsTrue`, with deletions and
  hollow objects anywhere. An object that discovery takes for a success is connected
  (`SuccessConnects`), it has a backend unless the flag was left over from a deleted object
  (`StaysConnected`), and if all fail none of them has a backend. It does not say that an error
  leaves no object, nor that a success has a backend after a deletion (`SuccessHasBackend`), for
  both are false (section 4).

`RemoteRepliesProofs`

* `RepliesTyped`: `Spec => []TypeOK`.
* `ResultsAreOwn`: no caller gets another call's result, if `~AbruptRestart`. The invariant
  `AnswersMatch` follows an id along its way: the server gives one id to one call
  (`IdsNameOneCall`) and serves each call once (`ServedOnce`), messages carry the id of their
  call (`MessagesTrue`), on the link and once they are read, and clients file calls under their
  ids (`PendingTrue`); only then is the call found under an announced id the announced one.
  `RestartMatches` is where the assumption is used: no id is written down or about to be
  (`Unwritten`).
* `RepliesSetOnce`: no step changes a reply that is set.
* `RightFunctorRuns`: the functor that ran fits the outcome, if a failed functor never comes without a
  success one.
* `RepliesImplementReply`: with `Told` as the outcome, every step is a step of `Reply` or a stutter, if
  `~AbruptRestart`. It takes `AnswersMatch`: only since the announced id is the call's own is the value
  it is settled with one of *its* outcomes.

`PendingReplyProofs`

* `ReplyTyped`, and `ReplyImplementsReply`: the value a copy shows is settled once. `data` must
  be known to be set with `success`, and nothing to be emitted before a result is there
  (`EmissionInv`).
* `FunctorsRunOnce`, if no JavaScript `then()` comes in the middle of an emission and a failed
  functor never without a success one (`Disciplined`). The invariant `Fine(t)` says of each
  `then()` where its run is: not there yet, connected and to be called, waiting as the callback,
  or done; each stage of the emission hands it on to exactly one of the next.

`ServiceProofs`, on ServiceManager

* `ManagerTyped`: the numbering of new objects stays within what was made.
* `RightBuilds`: `RightBuildListed`: one row for a plugin at most, and a fitting build's if
  there is one. Not inductive alone: that a plugin has one row does not say that the row is a
  build that was *seen*; with that (`ListedInv`) a row gives way to a fitting build only.
* `OneObjectForEach`: `OneObjectEach`. A search numbers its new objects by a bijection
  (`Numbering`), and a build can only be replaced while no object is made at all (`ObjectsInv`),
  which is why none leaks.

`PagingModelProofs`

* `AlwaysTyped`: what `TypeOK` says but for the range of the chunk bits (and of the settings),
  whatever the caller does: one who changes the chunk size in DataChanged mode leaves bits
  beyond the array. It adds that an announced change replaces rows by no more than there were,
  or only inserts (`Sized`), for `onDataChanged()` reads past the list otherwise.
* `NoInstanceIsLeft`: `NoInstanceLeft`. The invariant is over the whole queue (`LetGoInv`): whatever
  identifier the backend knows, or a queued call will tell it, is the present session's or has its
  `unregisterInstance` behind it in the queue. That queue order is what makes it inductive.
* `EditApplied`: an edit that replaces rows one for one, inserts or takes out one is what
  `onDataChanged()` makes of it, for rows of any kind. Removing several is not; the run
  `paging_reset` shows it.
* `RowsArePrefix`: `ListIsPrefixOfContent`, for any content, chunk sizes, sessions and resets,
  if `Careful`: resets and edits come when nothing is under way, and rows are removed one at a
  time. The rows alone say nothing of the pages to come, so the invariant (`ListInv`) adds that
  at most one page of this session is asked for or arriving, that it begins where the rows end
  and holds what follows them (`OnePage`), and that an announced edit meets a model that holds
  all (`EditMeetsList`). A page counts as asked for (`Asked`) only if the instance is known by
  the time its call is served. `SessionInv` says why: identifiers are new with each session, and
  before the first announcement nothing of the session is registered. The second announcement,
  which `isInitialized` discards, is the step that would break it.
* `RowsFindTheirPlace`: `RowsInPlace` and `AvailableChunksArrive`, if `Careful`. The invariant
  `FillInv` knows two kinds of lists. One that has shown everything since its reset (`Complete`)
  needs no chunk any more, so an edit may shift its rows against the chunks. Any other is empty
  or was cut into just the chunks its length demands (`Cut`), and its pages begin where chunks
  do (`PagesAligned`): a page then fills its chunk, down to the end of the list (`ChunkRows`,
  `PageAt`). Pages are slices of the *present* content (`PagesTrue`) and an edit is heard before
  all that is sent after it (`SignalsFresh`). That a page which is asked for comes at all needs
  the instance to be known until the session ends (`Enrolled`).
* `ListsTrue` and `TypeCorrect`: `ListTrue` and `TypeOK` as a whole, if `Careful` and
  `LengthsFit` (section 4). `ChunkInv`: the bits lie within the array, and the array was made
  for one of the list's lengths.

`FeatureProofs`, on AmFmTuner

* `TunerTyped`: with the frequency of every band within its limits, for which the stations must be.
* `TunersShowOne`: `TunerAgrees`. It needs that no feature that is not connected shows a scan
  (`NoScanLeft`).
* `StationsFollow`: the action property `StationFollows`, from the same invariant: `tune()`
  compares with what the feature shows, which must be the backend's place.

`ServiceProofs`, on ZonedSync

* `TypeCorrect`: `Spec => []TypeOK`.
* `SyncedAreShown`: `SyncedIsShown`. `SyncInv` follows the synchronisation: without a connection
  nothing is on it, and who is synchronised is so by a late answer (`Offline`); with one the
  zones are asked for or all zone objects have been (`Going`), the backend knows the zones that
  were announced to it (`ZonesKnown`), and a property a zone object misses is asked for or
  answered (`SyncComes`). Only the last makes "complete" mean anything when the connection is
  lost and comes back between two answers.
* `ZonesAgreeAlways`: `ZonesAgree`, if `~Forgetful`. `MirrorInv`: the last message about a
  property on the way back carries the server's value (`LastTells`), so does the last answer
  that waits (`FinishedTells`), and a value a zone object holds is the server's or an answer
  that waits will change it (`NothingStale`). The last two hold as long as nothing else about
  the property is asked for or on the link, and for properties not `crossed`, connections
  without `lateSync`: there alone is what is handled last what was sent last.

`SearchAndBrowseProofs`

* `TypeCorrect`: `Spec => []TypeOK`, for any content, queries and searches.
* `AgreeInTheEnd`: `InAgreement`. `SessionInv`: nothing carries an identifier still to come,
  before the first announcement the backend has heard nothing of the session but a content type
  (`Unheard`), without a connection not even that (`Unused`). `AgreeInv` is about the *last*
  message of each kind in a queue: the last content type on its way to the backend is the one
  asked for last; without one the backend has that type, and its last confirmation on the way
  back carries it or the model shows it (`TypeAgrees`, with the same for the way back); so for
  the filter (`TermAgrees`), which the registration on its way resets. A late reply asks for its
  content type anew, at the end of that order, which is why it does no harm here.
* `ListHangsTogetherAlways`: `ListHangsTogether`, all four parts, of a session whose list no
  page under way has spoiled. Five invariants carry it, on top of those above. `RowsInv` gives
  `RowsBelong` and `FlagsWithinList`: one page at a time is asked for, searched or on its way
  back (`OnePage`); it starts where the list ends and is of the content type and term shown,
  unless a content type confirmed ahead of it will reset the list anyway (`PagesFit`); flags are
  about rows that are there or come in a page ahead of them (`FlagsFollow`). That a page is
  *searched for* with what the model shows needs the order of the calls: no term is set up
  behind a fetch, and the backend has the last content type the model has heard of or will hear
  of (`ShownInv`). `WorkInv`: the worker has one search in its hands, and a session that is not
  initialized yet has not been served. `RecordInv`: the page in the worker's hands is the last
  one shown or the next one to be (`BegunFit`), and the backend's own list has every row the
  model shows, but those of that page (`Mirrored`). `FlagInv` gives `FlagsFitRows`: flags, and
  pages no new content type is on its way ahead of, are of a content type that is the one asked
  for and stays it (`FlagsSteady`); rows that lead on have their flags, or a search or signal
  that brings them (`FlagsComplete`). `ForwardInv` gives `GoesWhereShown`: a call to go forward
  has nothing ahead of it that changes the row it is about. That holds when the call is made
  because of `Mirrored` (the backend has the row) and `FlagsSteady` (no other content type is
  under way), and the order of the calls keeps it.

`MediaDevicesProofs`

* `TypeCorrect`: `Spec => []TypeOK`. Positions are looked up in the queue's table, so what
  `Ordering` makes of a set must be a sequence of its members; `OnlyKeeps` and its neighbours say so.
* `FirstModelShowsLive`: `ShowsLiveDevices` while at most one model has been attached
  (`counts.models <= 1`; a second is a finding, section 4). `RowsInv`: no two folders have one
  device, a model that is attached is the only one, lists each device of the backend once, and
  nothing the backend has is deleted.
* `NoScanForgotten` and `IndexerServesAlways`: the two parts of `IndexerServes`, the second on
  the control's first connection (`counts.control <= 1`). `ServeInv` ties the indexer's state to
  what its worker and the queued events will still make of it: nothing from the worker follows
  its `finished` (`FinishedLast`), the state is `Active` as long as one is to come
  (`StateFits`), and the last state on its way to the control is the present one (`Announced`).
* `QueueKeptAlways`: `QueueKept`. Rows of the queue are removed by an index that was looked up
  in one thread and is used in another. `RowsAgree` follows it: a removal is on its way or with
  the player but not both, it is the only one, and its index is the one row the table has to
  lose (`GapAt`); with none the table is numbered without a gap.
* `TracksFollowAlways`: `TracksFollowDevices`. `LibraryInv` says of each folder what the scans
  to come will do: a folder that is there is in the library or a scan that adds it is coming and
  no removal after it (`AddComing`), one that is gone is absent or its removal is coming
  (`RemovalComing`). It is about queue order: the two kinds of scans of one folder must come in
  the order in which the folder came and went. `PathsInv` carries the case that all removals
  were announced for the folders that are gone: until a reference was found dangling, every
  removal that waits or runs is one of a folder.

`MediaPlayerProofs`

* `TypeCorrect`: `Spec => []TypeOK`, for any number of connections. `TypeInv` adds what the
  types need: `Moved` renumbers through a row of its own (`Top`), which exists only in a finite
  table without two tracks in a row.
* `QueueShownAlways`: `QueueShown`, on the first connection (`links <= 1`). On a second one the
  signals reach the play queue twice (section 4), and TLC shows the property violated with
  `MaxSession = 2`. The rows alone are not inductive. `NumberInv`: one request at a time is
  asked for, in the worker's hands or on its way back (`OneRequest`); an edit is of rows the
  table will still have when the worker comes to it (`EditsInv`); and the rows are numbered from
  0 (`RowsNumbered`), which each of the queries of `insert`, `remove` and `move` keeps.
  `ViewInv`: what is on its way fits the list: a page begins where the list ends, a change that
  the worker has made is what the list lacks to be the table's first rows (`JobsFit`,
  `EventsFit`, `ListFits`). That `InOrder` lists a set by rank, each member once, takes two
  counting lemmas (`PlacesDiffer`, `InOrderLists`); the rest of the proof is about row numbers
  only (`FromRow`).
* `PlayerAgreesAlways`: `PlayerAgrees`, on the first connection: on a second the mode shown is
  the default. Two threads write the current index, and what they announce crosses what the user
  chooses. Five invariants carry it, on top of those above. `IndexInv`: the index last chosen,
  or else last announced, or else shown, is the current one, and an edit is the worker's last
  job. `TrackInv`: the track that will be shown when all is heard is the one that will be
  played, for the two signals go side by side. `NameInv`: with no choice before the worker, the
  current index names that track; between the two steps of an edit, the index it is about to get
  does (`AfterEdit`), or it is the current track that was taken away and another is to be
  announced. `GoingInv` and `StateInv` are of `QMediaPlayer`: what is loaded and wanted plays,
  and a state that is not Stopped is the one shown. The cases in `off` (section 2) are where
  `NameInv` and `IndexInv` break; the proof uses each exception where the code needs it and
  nowhere else.

Only model-checked: every liveness property (`EventuallyInitialized`, `EveryRowShown` and so
on), for liveness under fairness and `ENABLED` are out of the prover's reach, as is induction
over data. `ShowsLiveDevices`, `IndexerServes`, `QueueShown` and `PlayerAgrees` are proved for
the first connection, which is what their runs allow; neither `devices` nor `player` has a
second one.

## 6. Abstractions

* Properties of a generated feature: one stands for all; they have independent signals
  and the same code. Setters are `BackendChange` (the value
  comes back from the backend, `interface.cpp.tpl`).
* Errors of features (`m_error`), translations, logging, QML attachment and item
  roles change nothing the properties speak of.
* Items of a list are numbers. What is fetched depends on position
  only.
* The threads within the simulator's browse backend are one queue in PagingModel and two
  threads in SearchAndBrowse; a torn `m_state` (it is not locked) is
  not modelled, only listed as a hazard.
* SearchAndBrowse lists load with FetchMore only (the DataChanged mode is PagingModel's), where
  `countChanged()` is ignored. Terms of a query are the set of rows that match;
  sort orders, which go along with the term, are left out. `m_queryIdentifiers` is too: a query
  either parses or does not.
* MediaPlayer: a track is in the queue at most once, so that a row can be told from another; an
  item of an unsupported type and what fails in the database are left out. `QMediaPlayer` is
  external: no media, loading, loaded, at the end; it does not leave Stopped without media.
  Volume, position and duration are passed through and have no part in the properties. The play
  queue is connected when the loading type is set.
* In process, the backend's GUI-thread signals are direct calls and overtake the worker's queued
  ones. For the model that is the interleaving in which the worker was later.
* QtRemoteObjects is an ordered, breakable link. `QRemoteObjectPendingCallWatcher::finished` is
  queued: an answer that has been read waits, in the order of the answers among themselves,
  while signals behind it may be handled before it or after it, and it survives the connection.
  By the time a replica has its connection back, which takes a timer to try again, what was read
  from the last one has been delivered (`LinkUp` of ZonedSync).
* PendingReply: a nested event loop in a slot is the same as the steps between two stages of
  the emission. Conversions of values are whether a value is accepted.
* ZonedSync: a zone feature is the part of its parent's `shown` for that zone. Values of all
  properties come from one set. A feature made for a zone does not ask for zones of its own.
* ServiceManager: class name, file base name and build are what metadata and file names are
  for; the reading of JSON and the environment (`QTIVI_PLUGIN_DEBUG` and such) is not modelled.
* MediaDevices: a track is a file and in the queue once; what is playing is MediaPlayer's.
  Progress of the indexer and the content of the device's own browse model are left out.
  The files of a folder do not change while it is there.
* AmFmTuner: frequencies are small numbers; a station is its band and frequency.
* Bounds named as constants: `MaxEvents`, `MaxChanges`, `MaxFiles`, `MaxUnloads`, `MaxMishaps`,
  `MaxConnects`, `MaxCopies`, `MaxSession`, `MaxResets`, `Lengths`, `Removals`, `MaxUses`. Other
  counters are bounded by the calls, each made once.

## 7. Plan

What would come next, in this order.

1. An abstract specification of a list that grows along its content, implemented by PagingModel
   and by the play queue.
2. A direct switch of a paging model between two service objects, and `setServiceObject()`
   called from a slot of `serviceObjectChanged`.
3. `insert`, `remove`, `move` and `indexOf` of the search and browse model, with a backend that
   supports them (the generated simulation, not the media simulator).

## 8. Not modelled

The generator itself and its build files, the DLT wrapper (an external library's contexts), the
query language's grammar and term classes (generated parser and data), value classes of media
items, QML registration, and the vehicle functions (entirely generated: AbstractFeature and
ZonedSync are their life cycle) have no behaviour of their own that a state machine would add
to. List model features forward each call to a feature they contain. The simulation engine and
its proxy run QML code in place of a backend's functions through meta-objects: what they do is
what that code says. The property overrider is a debugging aid for setting values by hand. The
browse backend of a USB device reads its folder once. The remote player, discovery and indexer
backends pass calls and signals on and keep nothing.
