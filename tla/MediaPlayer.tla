----------------------------- MODULE MediaPlayer -----------------------------
(***************************************************************************)
(* QIviMediaPlayer with its QIviPlayQueue, and the player of the media     *)
(* simulator in the same process.  The simulator keeps the queue in a      *)
(* database that a single worker thread reads and edits; the worker shares *)
(* the current index and the number of tracks with the GUI thread, which   *)
(* goes on skipping tracks meanwhile.  What the worker emits reaches the   *)
(* GUI thread as queued events, once for each connection.                  *)
(***************************************************************************)
EXTENDS Ordering, Integers

CONSTANTS
    Track,          \* all tracks; each is in the queue at most once
    Item,           \* what can be inserted: the tracks of one, in the order of their ids
    None,           \* no track: an empty row, an empty player
    InitialQueues,  \* the queues the database may hold at the start
    ChunkSize,      \* m_chunkSize
    MaxSession,     \* bound on the connections made
    MaxUses         \* bound on the requests of the user

ASSUME PlayerAssumption ==
    /\ None \notin Track /\ IsFiniteSet(Track)
    /\ InitialQueues \subseteq Seq(Track) /\ Item \subseteq Seq(Track) \ {<<>>}
    /\ \A s \in InitialQueues \cup Item :
          \A i, j \in DOMAIN s : s[i] = s[j] => i = j
    /\ ChunkSize \in Nat \ {0} /\ MaxSession \in Nat \ {0} /\ MaxUses \in Nat

VARIABLES
    connected,      \* the player has the simulator's service object
    links,          \* connections of the simulator's signals to the play queue
    identifier,     \* m_identifier of the play queue
    loadingType,    \* m_loadingType
    itemList,       \* m_itemList
    fetchedCount,   \* m_fetchedDataCount
    moreAvailable,  \* m_moreAvailable
    shownIndex,     \* m_currentIndex of the play queue
    shownTrack,     \* m_currentTrackData of the player
    shownMode,      \* m_playMode of the player
    shownState,     \* m_playState of the player
    queue,          \* the table queue: the qindex of each track in it
    count,          \* m_count of the simulator
    currentIndex,   \* m_currentIndex of the simulator
    playMode,       \* m_playMode of the simulator
    playState,      \* m_state of the simulator
    requested,      \* m_requestedState
    media,          \* what QMediaPlayer has been given to play
    playing,        \* its state
    mediaStatus,    \* its media status
    jobs,           \* operations in the worker's queue
    events,         \* queued signals on their way to the GUI thread
    uses,           \* requests of the user so far
    off             \* history: what went on that the simulator does not account for

viewVars == <<loadingType, itemList, fetchedCount, moreAvailable>>
shownVars == <<shownIndex, shownTrack>>
sessionVars == <<connected, links, identifier>>
stateVars == <<playState, shownState>>
mediaVars == <<media, playing, mediaStatus, stateVars>>
modeVars == <<playMode, shownMode>>
vars == <<viewVars, shownVars, sessionVars, mediaVars, queue, count, currentIndex,
          modeVars, requested, jobs, events, uses, off>>

Mode == {"Normal", "RepeatTrack", "RepeatAll", "Shuffle"}
PlayState == {"Playing", "Paused", "Stopped"}
Edits == {"Insert", "Remove", "Move"}
Row == Track \cup {None}
Session == 1..MaxSession + 1
Index == Nat \cup {-1}

Job == [kind : Edits \cup {"Select", "SetIndex"}, id : Session, start : Nat,
        count : Nat, tracks : Seq(Track), done : BOOLEAN, list : Seq(Track)]

Event == [kind : {"countChanged"}, length : Nat]
            \cup [kind : {"dataFetched"}, id : Session, items : Seq(Track), start : Nat,
                  more : BOOLEAN]
            \cup [kind : {"dataChanged"}, items : Seq(Track), start : Nat, count : Nat]
            \cup [kind : {"currentIndexChanged"}, index : Index]
            \cup [kind : {"currentTrackChanged"}, track : Row]
            \cup [kind : {"playTrack"}, track : Track]
            \cup [kind : {"stateChanged"}]

TypeOK ==
    /\ connected \in BOOLEAN /\ links \in 0..MaxSession /\ identifier \in Session
    /\ loadingType \in {"FetchMore", "DataChanged"} /\ itemList \in Seq(Row)
    /\ fetchedCount \in Nat /\ moreAvailable \in BOOLEAN
    /\ DOMAIN queue \subseteq Track /\ \A t \in DOMAIN queue : queue[t] \in Nat
    /\ count \in Nat /\ {currentIndex, shownIndex} \subseteq Index /\ shownTrack \in Row
    /\ {playMode, shownMode} \subseteq Mode
    /\ {requested, playState, shownState} \subseteq PlayState
    /\ media \in Row /\ playing \in PlayState
    /\ mediaStatus \in {"NoMedia", "Loading", "Loaded", "EndOfMedia"}
    /\ jobs \in Seq(Job) /\ events \in Seq(Event)
    /\ uses \in 0..MaxUses /\ off \subseteq {"race", "move", "first", "album"}

Init ==
    /\ connected = FALSE /\ links = 0 /\ identifier = 1
    /\ loadingType = "FetchMore" /\ itemList = <<>> /\ fetchedCount = 0
    /\ moreAvailable = FALSE /\ shownIndex = -1 /\ shownTrack = None
    /\ \E s \in InitialQueues :
          queue = [t \in {s[i] : i \in DOMAIN s} |->
                       (CHOOSE i \in DOMAIN s : s[i] = t) - 1]
    /\ count = 0 /\ currentIndex = -1 /\ playMode = "Normal" /\ shownMode = "Normal"
    /\ requested = "Stopped" /\ playState = "Stopped" /\ shownState = "Stopped"
    /\ media = None /\ playing = "Stopped" /\ mediaStatus = "NoMedia"
    /\ jobs = <<>> /\ events = <<>>
    /\ uses = 0 /\ off = {}

------------------------------------------------------------------------------
(* The table: rows in the order of their qindex, and the updates of it.      *)
Rows(q) == InOrder(DOMAIN q, q)

Between(q, low, high) == InOrder({t \in DOMAIN q : q[t] \in low..high}, q)

Numbered(tracks, i) ==
    [t \in {tracks[k] : k \in DOMAIN tracks} |->
        i - 1 + CHOOSE k \in DOMAIN tracks : tracks[k] = t]

Inserted(q, i, tracks) ==
    LET new == Numbered(tracks, i) IN
    [t \in DOMAIN q \cup DOMAIN new |->
        IF t \notin DOMAIN q THEN new[t]
        ELSE IF q[t] >= i THEN q[t] + Len(tracks) ELSE q[t]]

Removed(q, i) ==
    [t \in {u \in DOMAIN q : q[u] # i} |-> IF q[t] >= i THEN q[t] - 1 ELSE q[t]]

Lowest(i, j) == IF i < j THEN i ELSE j
Highest(i, j) == IF i < j THEN j ELSE i

Top(q) == CHOOSE n \in {q[t] : t \in DOMAIN q} : \A t \in DOMAIN q : q[t] <= n

Aside(q, from) == [t \in DOMAIN q |-> IF q[t] = from THEN Top(q) + 1 ELSE q[t]]

GiveWay(q, from, to) ==
    [t \in DOMAIN q |-> IF q[t] \in Lowest(from, to)..Highest(from, to)
                        THEN IF to > from THEN q[t] - 1 ELSE q[t] + 1
                        ELSE q[t]]

\* aside, to the end; the rows in between give way; from the end to its place
Moved(q, from, to) ==
    LET shifted == GiveWay(Aside(q, from), from, to) IN
    [t \in DOMAIN q |-> IF shifted[t] = Top(shifted) THEN to ELSE shifted[t]]

NewJob(kind, start, n, tracks) ==
    [kind |-> kind, id |-> identifier, start |-> start, count |-> n, tracks |-> tracks,
     done |-> FALSE, list |-> <<>>]

Pending(kinds) == \E i \in DOMAIN jobs : jobs[i].kind \in kinds
Queued(kinds) == \E i \in DOMAIN events : events[i].kind \in kinds

Use == uses < MaxUses /\ uses' = uses + 1

(* The user waits for pages and edits under way, and edits a completely      *)
(* loaded list that is not laid out by countChanged().                       *)
Patient == /\ ~Pending(Edits \cup {"Select"})
           /\ ~Queued({"countChanged", "dataFetched", "dataChanged"})
MayEdit == /\ connected /\ Patient
           /\ loadingType = "FetchMore" /\ ~moreAvailable

------------------------------------------------------------------------------
(* QMediaPlayer gets to a state.  onStateChanged() hears of it and tells the  *)
(* player what it makes of it: stops are not passed on.                      *)
Passed(state) == IF state = "Stopped" THEN playState ELSE state

OnPlayStateChanged(heard) ==
    shownState' = IF connected /\ heard THEN playState' ELSE shownState

Reaches(state, heard) ==
    /\ playing' = state
    /\ playState' = Passed(state)
    /\ OnPlayStateChanged(heard)

Plays(state) == Reaches(state, state # playing)

------------------------------------------------------------------------------
(* setCurrentIndex() of the simulator, in the GUI thread or in the worker.   *)

\* The index is another one and in range.
SetsUnchecked(index) == currentIndex # index

Sets(index) == currentIndex # index /\ index \in 0..count - 1

\* The queue is empty and the index is none.
Empties(index) == currentIndex # index /\ count = 0 /\ index = -1

SetIndexJob(index) == NewJob("SetIndex", index, 0, <<>>)

(* The GUI thread does not know of the edits the worker still has to do: the  *)
(* index it sets counts on the queue as it is.                               *)
Choose(index) ==
    IF Sets(index)
    THEN /\ currentIndex' = index
         /\ jobs' = Append(jobs, SetIndexJob(index))
         /\ off' = IF Pending(Edits) THEN off \cup {"race"} ELSE off
    ELSE UNCHANGED <<currentIndex, jobs, off>>

Empty(index) ==
    /\ currentIndex' = index
    /\ media' = None /\ Plays("Stopped") /\ mediaStatus' = "NoMedia"
    /\ shownIndex' = index /\ shownTrack' = None
    /\ off' = IF jobs # <<>> \/ events # <<>> THEN off \cup {"race"} ELSE off
    /\ UNCHANGED jobs

Skip(index) ==
    /\ connected /\ Use
    /\ IF Empties(index) THEN Empty(index)
                         ELSE Choose(index) /\ UNCHANGED <<mediaVars, shownVars>>
    /\ UNCHANGED <<viewVars, sessionVars, queue, count, modeVars, requested, events>>

\* The indexes next() or previous() may choose; Shuffle divides by the count.
Choices(step) ==
    CASE playMode = "Shuffle" -> 0..count - 1
      [] playMode = "RepeatTrack" -> {currentIndex}
      [] playMode = "RepeatAll" /\ currentIndex + step >= count /\ step > 0 -> {0}
      [] playMode = "RepeatAll" /\ currentIndex + step < 0 /\ step < 0 -> {count - 1}
      [] OTHER -> {currentIndex + step}

SetCurrentIndex(index) == Skip(index)
NextTrack == \E index \in Choices(1) : Skip(index)
Previous == \E index \in Choices(-1) : Skip(index)

------------------------------------------------------------------------------
(* The user's edits are queued for the worker.                               *)
Edit(job) ==
    /\ MayEdit /\ Use
    /\ jobs' = Append(jobs, job)
    /\ UNCHANGED <<viewVars, shownVars, sessionVars, mediaVars, queue, count,
                   currentIndex, modeVars, requested, events, off>>

Insert(i, tracks) == /\ \A k \in DOMAIN tracks : tracks[k] \notin DOMAIN queue
                     /\ Edit(NewJob("Insert", i, 0, tracks))
Remove(i) == Edit(NewJob("Remove", i, 1, <<>>))
Move(i, j) == i # j /\ Edit(NewJob("Move", i, j, <<>>))

OnPlayModeChanged(mode) == shownMode' = mode

SetPlayMode(mode) ==
    /\ connected /\ Use
    /\ playMode' = mode /\ OnPlayModeChanged(mode)
    /\ UNCHANGED <<viewVars, shownVars, sessionVars, mediaVars, queue, count,
                   currentIndex, requested, jobs, events, off>>

\* play(), pause(), stop(): QMediaPlayer does not leave Stopped without media.
Request(state) ==
    /\ connected /\ Use
    /\ requested' = state
    /\ Plays(IF media = None THEN "Stopped" ELSE state)
    /\ mediaStatus' = IF mediaStatus = "EndOfMedia" /\ state = "Playing"
                      THEN "Loaded" ELSE mediaStatus
    /\ UNCHANGED <<viewVars, shownVars, sessionVars, media, queue, count, currentIndex,
                   modeVars, jobs, events, off>>

SelectJob(start) == NewJob("Select", start, ChunkSize, <<>>)

\* resetModel(): fetchMore() asks for the first page.
ResetModel(selects) ==
    /\ itemList' = <<>> /\ fetchedCount' = 0 /\ moreAvailable' = FALSE
    /\ jobs' = jobs \o selects

FetchMore ==
    /\ connected /\ moreAvailable
    /\ moreAvailable' = FALSE
    /\ jobs' = Append(jobs, SelectJob(fetchedCount))
    /\ UNCHANGED <<loadingType, itemList, fetchedCount, shownVars, sessionVars,
                   mediaVars, queue, count, currentIndex, modeVars, requested, events,
                   uses, off>>

SetLoadingType(type) ==
    /\ connected /\ Use /\ Patient /\ type # loadingType
    /\ loadingType' = type
    /\ ResetModel(<<SelectJob(0)>>)
    /\ UNCHANGED <<shownVars, sessionVars, mediaVars, queue, count, currentIndex,
                   modeVars, requested, events, off>>

(* Connecting adds a connection of each signal to the play queue, and the     *)
(* initialization, which the simulator announces at once, resets the queue   *)
(* once for each of them.                                                    *)
Connect ==
    /\ ~connected /\ identifier <= MaxSession
    /\ connected' = TRUE /\ links' = links + 1
    /\ ResetModel([i \in 1..links + 1 |-> SelectJob(0)])
    /\ UNCHANGED <<identifier, loadingType, shownVars, mediaVars, queue, count,
                   currentIndex, modeVars, requested, events, uses, off>>

(* Disconnecting severs what is connected to the player.  The play queue is  *)
(* another receiver: it stays linked.                                        *)
ClearQueue ==
    /\ identifier' = identifier + 1
    /\ loadingType' = "FetchMore" /\ shownIndex' = -1
    /\ ResetModel(<<>>)

\* not the state it shows
ClearPlayer == OnPlayModeChanged("Normal") /\ shownTrack' = None

Disconnect ==
    /\ connected /\ Use
    /\ connected' = FALSE
    /\ ClearQueue /\ ClearPlayer
    /\ UNCHANGED <<links, mediaVars, queue, count, currentIndex, playMode, requested,
                   events, off>>

------------------------------------------------------------------------------
(* The worker: doSqlOperation() first changes or reads the table and counts  *)
(* its rows ...                                                              *)
Times(n, e) == [i \in 1..n |-> e]
ToQueue(e) == Times(links, e)
ToPlayer(e) == IF connected THEN <<e>> ELSE <<>>

Table(job) == CASE job.kind = "Insert" -> Inserted(queue, job.start, job.tracks)
                [] job.kind = "Remove" -> Removed(queue, job.start)
                [] job.kind = "Move" -> Moved(queue, job.start, job.count)
                [] OTHER -> queue

Result(job, q) ==
    CASE job.kind = "Select" ->
             SubSeq(Rows(q), job.start + 1,
                    Lowest(job.start + job.count, Cardinality(DOMAIN q)))
      [] job.kind = "Insert" -> Between(q, job.start, job.start + Len(job.tracks) - 1)
      [] job.kind = "SetIndex" -> Between(q, job.start, job.start)
      [] job.kind = "Move" -> Between(q, Lowest(job.start, job.count),
                                         Highest(job.start, job.count))
      [] OTHER -> <<>>

Execute ==
    LET job == Head(jobs) IN
    /\ jobs # <<>> /\ ~job.done
    /\ queue' = Table(job) /\ count' = Cardinality(DOMAIN queue')
    /\ events' = events \o ToQueue([kind |-> "countChanged", length |-> count'])
    /\ jobs' = <<[job EXCEPT !.done = TRUE, !.list = Result(job, queue')]>> \o Tail(jobs)
    /\ UNCHANGED <<viewVars, shownVars, sessionVars, mediaVars, currentIndex, modeVars,
                   requested, uses, off>>

(* ... and then sees to the current index and tells of the change.           *)
Done(kind) == jobs # <<>> /\ Head(jobs).done /\ Head(jobs).kind = kind

DataChanged(start, n) ==
    ToQueue([kind |-> "dataChanged", items |-> Head(jobs).list, start |-> start,
             count |-> n])
IndexChangedBefore(index) ==
    ToQueue([kind |-> "currentIndexChanged", index |-> currentIndex])

IndexChanged(index) == ToQueue([kind |-> "currentIndexChanged", index |-> index])

\* There may be more if the page is full.
HasMoreStrict(job) == Len(job.list) > job.count

HasMore(job) == Len(job.list) >= job.count

FinishSelect ==
    LET job == Head(jobs) IN
    /\ Done("Select")
    /\ jobs' = Tail(jobs)
    /\ events' = events \o ToQueue([kind |-> "dataFetched", id |-> job.id,
                                    items |-> job.list, start |-> job.start,
                                    more |-> HasMore(job)])
    /\ UNCHANGED <<viewVars, shownVars, sessionVars, mediaVars, queue, count,
                   currentIndex, modeVars, requested, uses, off>>

\* The track to play first, then index and track; nothing for an empty row.
FinishSetIndex ==
    LET job == Head(jobs) IN
    /\ Done("SetIndex")
    /\ jobs' = Tail(jobs)
    /\ events' = IF job.list = <<>> THEN events
                 ELSE events \o <<[kind |-> "playTrack", track |-> job.list[1]]>>
                      \o IndexChanged(job.start)
                      \o ToPlayer([kind |-> "currentTrackChanged",
                                   track |-> job.list[1]])
    /\ UNCHANGED <<viewVars, shownVars, sessionVars, mediaVars, queue, count,
                   currentIndex, modeVars, requested, uses, off>>

\* Where the current track has gone.
AfterInsert(job) == IF job.start <= currentIndex THEN currentIndex + 1 ELSE currentIndex
AfterRemove(job) == IF job.start < currentIndex THEN currentIndex - 1 ELSE currentIndex
AfterMove(job) ==
    CASE \/ job.start < currentIndex /\ job.count >= currentIndex
         \/ job.start = currentIndex /\ job.count < job.start -> currentIndex - 1
      [] \/ job.start > currentIndex /\ job.count < currentIndex
         \/ job.start = currentIndex /\ job.count > job.start -> currentIndex + 1
      [] OTHER -> currentIndex

(* An edit that leaves the current track in the queue.  AfterMove() takes it  *)
(* one place further than it went, or misses that it gave way.               *)
FinishEdit(kind, index, start, n) ==
    /\ Done(kind)
    /\ jobs' = Tail(jobs)
    /\ currentIndex' = index
    /\ events' = events \o (IF index = currentIndex THEN <<>> ELSE IndexChanged(index))
                        \o DataChanged(start, n)
    /\ UNCHANGED <<viewVars, shownVars, sessionVars, mediaVars, queue, count, modeVars,
                   requested, uses>>

\* Of an album only one track is counted.
FinishInsert == LET job == Head(jobs) IN
    /\ FinishEdit("Insert", AfterInsert(job), job.start, 0)
    /\ off' = IF job.start <= currentIndex /\ Len(job.tracks) > 1
              THEN off \cup {"album"} ELSE off

FinishRemove == LET job == Head(jobs) IN
    /\ Done("Remove") /\ job.start # currentIndex
    /\ FinishEdit("Remove", AfterRemove(job), job.start, 1)
    /\ UNCHANGED off

FinishMove == LET job == Head(jobs) IN
    /\ FinishEdit("Move", AfterMove(job), Lowest(job.start, job.count),
                  Highest(job.start, job.count) - Lowest(job.start, job.count) + 1)
    /\ off' = IF \/ job.start = currentIndex /\ job.count \notin {job.start - 1, job.start + 1}
                 \/ job.count = currentIndex /\ job.start > job.count
              THEN off \cup {"move"} ELSE off

(* The current track is removed: the worker itself calls setCurrentIndex(),  *)
(* with the index before, or the one after if more than two tracks are left. *)
Fallback == IF currentIndex = 0 /\ count > 2 THEN 1 ELSE currentIndex - 1

FinishRemoveCurrent ==
    /\ Done("Remove") /\ Head(jobs).start = currentIndex
    /\ currentIndex' = IF Sets(Fallback) \/ Empties(Fallback) THEN Fallback
                       ELSE currentIndex
    /\ jobs' = Tail(jobs) \o (IF Sets(Fallback) THEN <<SetIndexJob(Fallback)>> ELSE <<>>)
    /\ IF Empties(Fallback)
       THEN /\ media' = None /\ playing' = "Stopped" /\ mediaStatus' = "NoMedia"
            /\ events' = events \o (IF playing = "Stopped" THEN <<>>
                                     ELSE <<[kind |-> "stateChanged"]>>)
                                \o ToPlayer([kind |-> "currentTrackChanged",
                                             track |-> None])
                                \o IndexChanged(-1) \o DataChanged(Head(jobs).start, 1)
            /\ UNCHANGED stateVars
       ELSE /\ events' = events \o DataChanged(Head(jobs).start, 1)
            /\ UNCHANGED mediaVars
    /\ off' = off \cup (IF currentIndex = 0 /\ count \in 1..2 THEN {"first"} ELSE {})
                  \cup (IF Queued({"playTrack"}) THEN {"race"} ELSE {})
    /\ UNCHANGED <<viewVars, shownVars, sessionVars, queue, count, modeVars, requested,
                   uses>>

------------------------------------------------------------------------------
(* The GUI thread takes a queued signal.  It arrives although its connection *)
(* may be gone by now.                                                       *)
Hear(kind) == /\ events # <<>> /\ Head(events).kind = kind
              /\ events' = Tail(events)
              /\ UNCHANGED <<sessionVars, queue, count, currentIndex, modeVars,
                             requested, jobs, uses, off>>

OnCurrentIndexChanged ==
    /\ Hear("currentIndexChanged")
    /\ shownIndex' = Head(events).index
    /\ UNCHANGED <<viewVars, mediaVars, shownTrack>>

OnCurrentTrackChanged ==
    /\ Hear("currentTrackChanged")
    /\ shownTrack' = Head(events).track
    /\ UNCHANGED <<viewVars, mediaVars, shownIndex>>

\* in DataChanged lists: rows for the whole new length are added
OnCountChanged ==
    LET length == Head(events).length IN
    /\ Hear("countChanged")
    /\ itemList' = IF loadingType = "DataChanged" /\ Len(itemList) # length
                   THEN itemList \o Times(length, None) ELSE itemList
    /\ UNCHANGED <<loadingType, fetchedCount, moreAvailable, shownVars, mediaVars>>

\* a page is appended, or put in its place
PlacedFirst(e) == [i \in DOMAIN itemList |->
    IF i <= Len(e.items) THEN e.items[i] ELSE itemList[i]]

Placed(e) == [i \in DOMAIN itemList |->
    IF i > e.start /\ i <= e.start + Len(e.items) THEN e.items[i - e.start]
                                                  ELSE itemList[i]]

OnDataFetched ==
    LET e == Head(events) IN
    /\ Hear("dataFetched")
    /\ IF e.id # identifier \/ e.items = <<>>
       THEN UNCHANGED viewVars
       ELSE /\ moreAvailable' = e.more
            /\ CASE loadingType = "FetchMore" ->
                        /\ itemList' = itemList \o e.items
                        /\ fetchedCount' = Len(itemList')
                 [] loadingType = "DataChanged" /\ Len(itemList) >= e.start + Len(e.items) ->
                        /\ itemList' = Placed(e)
                        /\ fetchedCount' = e.start + Len(e.items)
                 [] OTHER -> UNCHANGED <<itemList, fetchedCount>>
            /\ UNCHANGED loadingType
    /\ UNCHANGED <<shownVars, mediaVars>>

\* The simulator replaces rows by as many, inserts rows or removes one.
Changed(e) ==
    LET n == Len(e.items) IN
    CASE n = e.count -> [i \in DOMAIN itemList |->
                            IF i > e.start /\ i <= e.start + n
                            THEN e.items[i - e.start] ELSE itemList[i]]
      [] e.count = 0 /\ n > 0 ->
                        SubSeq(itemList, 1, e.start) \o e.items
                            \o SubSeq(itemList, e.start + 1, Len(itemList))
      [] OTHER -> SubSeq(itemList, 1, e.start)
                      \o SubSeq(itemList, e.start + 2, Len(itemList))

OnDataChanged ==
    LET e == Head(events) IN
    /\ Hear("dataChanged")
    /\ itemList' = IF e.start + e.count <= Len(itemList) THEN Changed(e) ELSE itemList
    /\ UNCHANGED <<loadingType, fetchedCount, moreAvailable, shownVars, mediaVars>>

(* onPlayTrack(): a player that plays, or has played to the end, goes on.    *)
GoesOn == playing = "Playing" \/ mediaStatus = "EndOfMedia"

OnPlayTrack ==
    /\ Hear("playTrack")
    /\ media' = Head(events).track /\ mediaStatus' = "Loading"
    /\ Reaches(IF GoesOn THEN "Playing" ELSE "Stopped", GoesOn \/ playing # "Stopped")
    /\ UNCHANGED <<viewVars, shownVars>>

\* the worker has taken the media away: its receiver is in the GUI thread
OnStateChanged ==
    /\ Hear("stateChanged")
    /\ UNCHANGED <<viewVars, shownVars, media, playing, mediaStatus, playState>>
    /\ OnPlayStateChanged(TRUE)

------------------------------------------------------------------------------
(* QMediaPlayer's status: a loaded track starts if the user wants it to, the *)
(* end of one leads to the next.                                             *)
Starts == IF requested = "Playing" THEN "Playing" ELSE playing

OnLoadedMedia ==
    /\ mediaStatus = "Loading"
    /\ mediaStatus' = "Loaded"
    /\ Plays(Starts)
    /\ UNCHANGED <<viewVars, shownVars, sessionVars, media, queue, count, currentIndex,
                   modeVars, requested, jobs, events, uses, off>>

OnEndOfMedia ==
    /\ mediaStatus = "Loaded" /\ playing = "Playing"
    /\ \E index \in Choices(1) : Choose(index)
    /\ Plays("Stopped") /\ mediaStatus' = "EndOfMedia"
    /\ UNCHANGED <<viewVars, shownVars, sessionVars, media, queue, count, modeVars,
                   requested, events, uses>>
------------------------------------------------------------------------------
User ==
    \/ Connect \/ Disconnect \/ NextTrack \/ Previous
    \/ \E index \in -1..Len(itemList) - 1 : SetCurrentIndex(index)
    \/ \E i \in 0..Len(itemList), item \in Item : Insert(i, item)
    \/ \E i \in 0..Len(itemList) - 1 : Remove(i)
    \/ \E i, j \in 0..Len(itemList) - 1 : Move(i, j)
    \/ \E mode \in Mode \ {playMode} : SetPlayMode(mode)
    \/ \E state \in PlayState : Request(state)
    \/ \E type \in {"FetchMore", "DataChanged"} : SetLoadingType(type)

Worker == \/ Execute \/ FinishSelect \/ FinishSetIndex \/ FinishInsert
          \/ FinishRemove \/ FinishMove \/ FinishRemoveCurrent

Gui == \/ OnCurrentIndexChanged \/ OnCurrentTrackChanged \/ OnCountChanged
       \/ OnDataFetched \/ OnDataChanged \/ OnPlayTrack
       \/ OnStateChanged

Next == User \/ FetchMore \/ Worker \/ Gui \/ OnLoadedMedia \/ OnEndOfMedia

\* Both threads keep going, and a view loads what there is.
Fairness == WF_vars(FetchMore) /\ WF_vars(Worker) /\ WF_vars(Gui)

Spec == Init /\ [][Next]_vars
FairSpec == Spec /\ Fairness

------------------------------------------------------------------------------
Settled == jobs = <<>> /\ events = <<>> /\ mediaStatus # "Loading"

(* Through every sequence of edits, pages and skips the play queue shows the *)
(* rows of the table in order, from the first one on, or in their places.    *)
RowsShown ==
    (connected /\ ~Pending(Edits) /\ ~Queued({"dataChanged"})) =>
        \A i \in DOMAIN itemList :
            \/ i <= Cardinality(DOMAIN queue) /\ itemList[i] = Rows(queue)[i]
            \/ loadingType = "DataChanged" /\ itemList[i] = None

(* The updates of the table keep its rows numbered without gap or duplicate, *)
(* on which every later operation relies.                                    *)
RowsNumbered ==
    {queue[t] : t \in DOMAIN queue} = 0..Cardinality(DOMAIN queue) - 1

(* The play queue and the table it shows stay in step.                       *)
QueueShown == RowsShown /\ RowsNumbered

(* The index the play queue shows is the one the simulator counts from: two  *)
(* threads announce it, in different orders of decision and announcement.    *)
IndexAgrees ==
    Settled /\ connected /\ "race" \notin off => shownIndex = currentIndex

(* The current index names the current track, after edits before, behind and *)
(* at it, if none of them is one the simulator gets wrong (see off).         *)
TrackAtIndex ==
    (Settled /\ connected /\ off = {}) =>
        IF currentIndex = -1 THEN shownTrack = None
        ELSE /\ currentIndex < Cardinality(DOMAIN queue)
             /\ shownTrack = Rows(queue)[currentIndex + 1]

\* QMediaPlayer has the track that is shown as the current one.
PlaysWhatIsShown ==
    Settled /\ connected /\ "race" \notin off => media = shownTrack

(* Once the user wants to hear something, whatever becomes the current track *)
(* gets played: chosen before or after play(), or following one that ended.  *)
KeepsPlaying ==
    (Settled /\ requested = "Playing" /\ media # None /\ mediaStatus # "EndOfMedia") =>
        playing = "Playing"

(* The player shows the mode that will choose the next track, and the state   *)
(* QMediaPlayer is in, whoever has brought it there, unless it has stopped.  *)
ModeAndStateShown ==
    connected => /\ shownMode = playMode
                 /\ playing # "Stopped" => shownState = playing

(* "Holds the current playback state" (qivimediaplayer.cpp:285) also once     *)
(* QMediaPlayer has stopped: not so, the simulator does not pass stops on.   *)
StopShown == Settled /\ connected /\ playing = "Stopped" => shownState = "Stopped"

(* Index, track, mode and state, each announced by a thread or an object of   *)
(* its own, come to agree with each other and with what the user wants.      *)
PlayerAgrees == /\ IndexAgrees /\ TrackAtIndex /\ PlaysWhatIsShown /\ KeepsPlaying
                /\ ModeAndStateShown

(* The whole queue gets shown, unless the player is disconnected.            *)
EventuallyShown == <>[](connected => itemList = Rows(queue))
==============================================================================
