----------------------------- MODULE PagingModel -----------------------------
(***************************************************************************)
(* QIviPagingModel: a list model that loads the content of a backend page  *)
(* by page.  The calls to the backend and the signals it answers with are  *)
(* two FIFO queues, as they are when the backend works in another thread   *)
(* (media_simulator) or process (media_qtro); a backend that answers       *)
(* within the call is the interleaving that serves and delivers at once.   *)
(* FetchMore appends each page at the end; DataChanged fills a list of     *)
(* blank rows chunk by chunk, as the view asks for the rows.               *)
(***************************************************************************)
EXTENDS Naturals, Sequences

CONSTANTS
    Items,             \* what a backend may list
    InitialContent,    \* what it lists at first
    Lengths,           \* the lengths edits may give its list
    Removals,          \* how many rows an edit may take out at once
    ChunkSizes,        \* arguments of setChunkSize()
    DefaultChunkSize,  \* 30 in the code
    Blank,             \* an invalid QVariant
    Patient,           \* resets and edits come only when nothing is under way
    MaxSession,        \* bound on the identifiers created
    MaxResets          \* bound on the calls to reload() and setLoadingType()

LoadingType == {"FetchMore", "DataChanged"}

ASSUME PagingAssumption ==
    /\ InitialContent \in Seq(Items) /\ Blank \notin Items
    /\ Lengths \cup Removals \subseteq Nat /\ Patient \in BOOLEAN
    /\ ChunkSizes \subseteq Nat \ {0} /\ DefaultChunkSize \in Nat \ {0}
    /\ MaxSession \in Nat \ {0} /\ MaxResets \in Nat

VARIABLES
    isConnected,      \* a service object with a backend is set
    isInitialized,    \* isInitialized()
    identifier,       \* m_identifier, a fresh QUuid for each session
    itemList,         \* m_itemList
    fetchedCount,     \* m_fetchedDataCount
    moreAvailable,    \* m_moreAvailable
    chunkCount,       \* m_availableChunks.count()
    availableChunks,  \* the bits set in m_availableChunks
    chunkSize,        \* m_chunkSize
    loadingType,      \* m_loadingType
    canGetSize,       \* SupportsGetSize is in m_capabilities
    resets,           \* reload() and setLoadingType() calls so far
    requests,         \* calls on their way to the backend
    signals,          \* signals on their way to the model
    content,          \* what the backend lists
    registered        \* the instances it knows

listVars == <<itemList, fetchedCount, moreAvailable, chunkCount, availableChunks>>
sessionVars == <<isConnected, isInitialized, identifier>>
settingVars == <<chunkSize, loadingType, canGetSize, resets>>
backendVars == <<content, registered>>
vars == <<listVars, sessionVars, settingVars, requests, signals, backendVars>>

Everyone == 0   \* the null QUuid: a signal for all models

Signal ==
    [kind : {"initializationDone"}]
        \cup [kind : {"capabilitiesChanged"}, id : Nat]
        \cup [kind : {"countChanged"}, id : Nat, length : Nat]
        \cup [kind : {"dataFetched"}, id : Nat, items : Seq(Items), start : Nat,
              more : BOOLEAN]
        \cup [kind : {"dataChanged"}, id : Nat, items : Seq(Items), start : Nat,
              count : Nat]
Request ==
    [kind : {"initialize"}]
        \cup [kind : {"registerInstance", "unregisterInstance"}, id : Nat]
        \cup [kind : {"fetchData"}, id : Nat, start : Nat, count : Nat]

TypeOK ==
    /\ isConnected \in BOOLEAN /\ isInitialized \in BOOLEAN
    /\ identifier \in 1..MaxSession
    /\ itemList \in Seq(Items \cup {Blank})
    /\ fetchedCount \in Nat /\ moreAvailable \in BOOLEAN
    /\ chunkCount \in Nat /\ availableChunks \subseteq 0..chunkCount - 1
    /\ chunkSize \in ChunkSizes \cup {DefaultChunkSize}
    /\ loadingType \in LoadingType /\ canGetSize \in BOOLEAN
    /\ resets \in 0..MaxResets
    /\ requests \in Seq(Request) /\ signals \in Seq(Signal)
    /\ content \in Seq(Items) /\ registered \subseteq 1..MaxSession

Init ==
    /\ isConnected = FALSE /\ isInitialized = FALSE /\ identifier = 1
    /\ itemList = <<>> /\ fetchedCount = 0 /\ moreAvailable = FALSE
    /\ chunkCount = 0 /\ availableChunks = {}
    /\ chunkSize = DefaultChunkSize /\ loadingType = "FetchMore"
    /\ canGetSize = FALSE /\ resets = 0
    /\ requests = <<>> /\ signals = <<>>
    /\ content = InitialContent /\ registered = {}

FetchRequest(start) == [kind |-> "fetchData", id |-> identifier, start |-> start,
                        count |-> chunkSize]
Page(list, start, count) ==
    SubSeq(list, start + 1, IF start + count < Len(list) THEN start + count
                                                         ELSE Len(list))

\* Nothing is under way between the model and the backend.
Settled == requests = <<>> /\ signals = <<>>
\* What the code does not ask of its callers, but patient callers observe.
Calm == Patient => Settled

------------------------------------------------------------------------------
(* The application.                                                          *)

\* setServiceObject(): connectToServiceObject() connects and calls initialize()
Connect ==
    /\ ~isConnected
    /\ Patient => \A i \in DOMAIN signals : signals[i].kind # "dataChanged"
    /\ isConnected' = TRUE
    /\ requests' = Append(requests, [kind |-> "initialize"])
    /\ UNCHANGED <<isInitialized, identifier, listVars, settingVars, signals,
                   backendVars>>

\* disconnectFromServiceObject() comes before clearToDefaults() renews the id
UnregisterRenewed == [kind |-> "unregisterInstance", id |-> identifier + 1]

Unregister == [kind |-> "unregisterInstance", id |-> identifier]

(* setServiceObject(nullptr): unregister, disconnect, clear to defaults.  The *)
(* reset in there finds no backend to fetch from: moreAvailable stays true.  *)
Disconnect ==
    /\ isConnected /\ identifier < MaxSession
    /\ requests' = Append(requests, Unregister)
    /\ isConnected' = FALSE /\ isInitialized' = FALSE
    /\ identifier' = identifier + 1
    /\ chunkSize' = DefaultChunkSize /\ loadingType' = "FetchMore"
    /\ canGetSize' = FALSE
    /\ itemList' = <<>> /\ chunkCount' = 0 /\ availableChunks' = {}
    /\ fetchedCount' = 0 /\ moreAvailable' = TRUE
    /\ UNCHANGED <<resets, signals, backendVars>>

\* fetchMore() of resetModel(), which finds moreAvailable just set
FirstFetchForgotten == <<>>

FirstFetch == IF isConnected THEN <<FetchRequest(0)>> ELSE <<>>

(* resetModel(): forget every row and fetch the first page.  Calls that the  *)
(* caller makes before it go to the backend first.                           *)
ResetModel(before) ==
    /\ itemList' = <<>> /\ chunkCount' = 0 /\ availableChunks' = {}
    /\ fetchedCount' = 0
    /\ moreAvailable' = ~isConnected
    /\ requests' = requests \o before \o FirstFetch

\* reload(): nothing in it looks at the page that may be under way
Reload ==
    /\ Calm /\ resets < MaxResets
    /\ resets' = resets + 1
    /\ ResetModel(<<>>)
    /\ UNCHANGED <<sessionVars, chunkSize, loadingType, canGetSize, signals,
                   backendVars>>

SetLoadingType(type) ==
    /\ Calm /\ resets < MaxResets
    /\ type # loadingType
    /\ type = "DataChanged" => canGetSize
    /\ resets' = resets + 1
    /\ loadingType' = type
    /\ ResetModel(<<>>)
    /\ UNCHANGED <<sessionVars, chunkSize, canGetSize, signals, backendVars>>

\* setChunkSize(): a patient caller tunes it before the list is cut into chunks
SetChunkSize(size) ==
    /\ size # chunkSize
    /\ Patient => loadingType = "FetchMore"
    /\ chunkSize' = size
    /\ UNCHANGED <<sessionVars, listVars, loadingType, canGetSize, resets, requests,
                   signals, backendVars>>

\* fetchData(start): the chunk counts as available as soon as it is asked for
FetchData(start) ==
    /\ moreAvailable' = FALSE
    /\ availableChunks' = availableChunks \cup
                              ({start \div chunkSize} \cap 0..chunkCount - 1)
    /\ requests' = Append(requests, FetchRequest(start))
    /\ UNCHANGED <<itemList, fetchedCount, chunkCount>>

CanFetchMore == isConnected /\ moreAvailable

\* A view at the end of the list, or data() near it, calls fetchMore().
FetchMore ==
    /\ CanFetchMore
    /\ FetchData(fetchedCount)
    /\ UNCHANGED <<sessionVars, settingVars, signals, backendVars>>

\* data(row) in DataChanged mode: a row of a missing chunk gets it fetched
View(row) ==
    LET chunk == row \div chunkSize IN
    /\ isConnected /\ loadingType = "DataChanged"
    /\ row < Len(itemList) /\ chunk \notin availableChunks
    /\ FetchData(chunk * chunkSize)
    /\ UNCHANGED <<sessionVars, settingVars, signals, backendVars>>

------------------------------------------------------------------------------
(* The model hears a signal.                                                 *)

Hear(kind) == isConnected /\ signals # <<>> /\ Head(signals).kind = kind
                          /\ signals' = Tail(signals)

AcceptsAnyId(s) == TRUE

\* the identifier a signal carries is this model's, or nobody's in particular
Accepts(s) == s.id \in {Everyone, identifier}

\* onInitializationDone() answers the first announcement only
Starts == ~isInitialized

OnInitializationDone ==
    /\ Hear("initializationDone")
    /\ isInitialized' = TRUE
    /\ IF Starts
       THEN ResetModel(<<[kind |-> "registerInstance", id |-> identifier]>>)
       ELSE UNCHANGED <<listVars, requests>>
    /\ UNCHANGED <<isConnected, identifier, settingVars, backendVars>>

OnCapabilitiesChanged ==
    /\ Hear("capabilitiesChanged")
    /\ canGetSize' = (canGetSize \/ Accepts(Head(signals)))
    /\ UNCHANGED <<sessionVars, listVars, chunkSize, loadingType, resets, requests,
                   backendVars>>

ChunksForWhole(length) == length \div chunkSize

\* one chunk more than the full ones, for the rest
ChunksFor(length) == length \div chunkSize + 1

CountIsNew(s) == /\ loadingType = "DataChanged" /\ Accepts(s)
                 /\ Len(itemList) # s.length

\* onCountChanged(): the new count of blank rows is appended to the list
OnCountChanged ==
    LET s == Head(signals) IN
    /\ Hear("countChanged")
    /\ IF CountIsNew(s)
       THEN /\ itemList' = itemList \o [i \in 1..s.length |-> Blank]
            /\ chunkCount' = ChunksFor(s.length)
            /\ availableChunks' = availableChunks \cap 0..ChunksFor(s.length) - 1
       ELSE UNCHANGED <<itemList, chunkCount, availableChunks>>
    /\ UNCHANGED <<sessionVars, fetchedCount, moreAvailable, settingVars, requests,
                   backendVars>>

\* Where a page of n items that starts at row start goes in DataChanged mode
Placed(items, start) == [i \in DOMAIN itemList |->
    IF i > start /\ i <= start + Len(items) THEN items[i - start] ELSE itemList[i]]

OnDataFetched ==
    LET s == Head(signals)
        end == s.start + Len(s.items) IN
    /\ Hear("dataFetched")
    /\ \/ /\ ~Accepts(s) \/ s.items = <<>>
          /\ UNCHANGED listVars
       \/ /\ Accepts(s) /\ s.items # <<>>
          /\ moreAvailable' = s.more
          /\ \/ /\ loadingType = "FetchMore"
                /\ itemList' = itemList \o s.items
                /\ fetchedCount' = Len(itemList')
                /\ UNCHANGED <<chunkCount, availableChunks>>
             \/ /\ loadingType = "DataChanged"
                /\ Len(itemList) < end \/ chunkCount < end \div chunkSize
                /\ UNCHANGED <<itemList, fetchedCount, chunkCount, availableChunks>>
             \/ /\ loadingType = "DataChanged"
                /\ Len(itemList) >= end /\ chunkCount >= end \div chunkSize
                /\ itemList' = Placed(s.items, s.start)
                /\ fetchedCount' = end
                /\ availableChunks' = availableChunks \cup {s.start \div chunkSize}
                /\ UNCHANGED chunkCount
    /\ UNCHANGED <<sessionVars, settingVars, requests, backendVars>>

(* onDataChanged(): overwrite the overlap, then remove or insert the rest.   *)
(* The removal calls removeAt(i) for every i of the range while the list     *)
(* shrinks under it, so that of the rows from first on every other one goes, *)
(* count of them or as many as there are; an index past the end removes      *)
(* nothing.                                                                  *)
Survivors(list, first, count) ==
    LET others == (Len(list) - first + 1) \div 2
        gone == IF count < others THEN count ELSE others
        Old(i) == IF i <= first THEN i
                  ELSE IF i <= first + count THEN 2 * i - first ELSE i + count
    IN [i \in 1..Len(list) - gone |-> list[Old(i)]]

ChangedRows(data, start, count) ==
    LET overlap == IF Len(data) < count THEN Len(data) ELSE count
        rest == start + (IF overlap > 0 THEN overlap + 1 ELSE 0)
        updated == [i \in DOMAIN itemList |->
                        IF i > start /\ i <= start + overlap THEN data[i - start]
                                                             ELSE itemList[i]]
    IN CASE Len(data) < count -> Survivors(updated, rest, count - Len(data))
         [] Len(data) = count -> updated
         [] Len(data) > count ->
                SubSeq(updated, 1, rest)
                    \o SubSeq(data, rest - start + 1, rest - start + Len(data) - overlap)
                    \o SubSeq(updated, rest + 1, Len(updated))

OnDataChanged ==
    LET s == Head(signals) IN
    /\ Hear("dataChanged")
    /\ itemList' = IF s.start + s.count <= Len(itemList)
                   THEN ChangedRows(s.items, s.start, s.count) ELSE itemList
    /\ UNCHANGED <<sessionVars, fetchedCount, moreAvailable, chunkCount,
                   availableChunks, settingVars, requests, backendVars>>

\* No connection: the signal reaches nobody.
SignalLost ==
    /\ ~isConnected /\ signals # <<>>
    /\ signals' = Tail(signals)
    /\ UNCHANGED <<sessionVars, listVars, settingVars, requests, backendVars>>

------------------------------------------------------------------------------
(* The backend (QIviPagingModelInterface) takes a call off the queue.        *)

Take(kind) == requests # <<>> /\ Head(requests).kind = kind
                              /\ requests' = Tail(requests)

Initialize ==
    /\ Take("initialize")
    /\ signals' = Append(signals, [kind |-> "initializationDone"])
    /\ UNCHANGED <<sessionVars, listVars, settingVars, backendVars>>

RegisterInstance ==
    /\ Take("registerInstance")
    /\ registered' = registered \cup {Head(requests).id}
    /\ UNCHANGED <<sessionVars, listVars, settingVars, signals, content>>

UnregisterInstance ==
    /\ Take("unregisterInstance")
    /\ registered' = registered \ {Head(requests).id}
    /\ UNCHANGED <<sessionVars, listVars, settingVars, signals, content>>

(* An instance it knows is told the count and sent the page.  Whether there  *)
(* is more is known exactly, or guessed from the page being full.            *)
ServeFetchData ==
    LET r == Head(requests)
        page == Page(content, r.start, r.count)
        Told(more) ==
            <<[kind |-> "countChanged", id |-> r.id, length |-> Len(content)],
              [kind |-> "dataFetched", id |-> r.id, items |-> page,
               start |-> r.start, more |-> more]>>
    IN
    /\ Take("fetchData")
    /\ \E more \in BOOLEAN :
          /\ more = (r.start + r.count < Len(content)) \/ more = (Len(page) >= r.count)
          /\ signals' = Append(signals, [kind |-> "capabilitiesChanged", id |-> r.id])
                            \o (IF r.id \in registered THEN Told(more) ELSE <<>>)
    /\ UNCHANGED <<sessionVars, listVars, settingVars, backendVars>>

\* Another feature on the backend has it announce its initialization again.
AnnounceAgain ==
    /\ \A i \in DOMAIN signals : signals[i].kind # "initializationDone"
    /\ signals' = Append(signals, [kind |-> "initializationDone"])
    /\ UNCHANGED <<sessionVars, listVars, settingVars, requests, backendVars>>

\* The model holds the whole list and wants nothing more.
HoldsAll == itemList = content /\ (loadingType = "FetchMore" => ~moreAvailable)

\* An edit of the list in the backend: count items from start give way to data.

Edit(start, count, data) ==
    /\ Patient => Settled /\ (isConnected => HoldsAll)
    /\ content' = SubSeq(content, 1, start) \o data
                      \o SubSeq(content, start + count + 1, Len(content))
    /\ Len(content') \in Lengths
    /\ signals' = Append(signals, [kind |-> "dataChanged", id |-> Everyone,
                          items |-> data, start |-> start, count |-> count])
    /\ UNCHANGED <<sessionVars, listVars, settingVars, requests, registered>>

\* an item not in the list yet
New == {x \in Items : \A i \in DOMAIN content : content[i] # x}
Fresh == CHOOSE x \in New : TRUE

Insert(index) == New # {} /\ index <= Len(content) /\ Edit(index, 0, <<Fresh>>)
Update(index) == New # {} /\ index < Len(content) /\ Edit(index, 1, <<Fresh>>)

\* remove(index), or reset(), which takes out all rows
Remove(index, count) ==
    /\ index + count <= Len(content)
    /\ count = 1 \/ count = Len(content)
    /\ Edit(index, count, <<>>)

\* move the item at index to target: the rows from one to the other are sent
Move(index, target) ==
    LET others == SubSeq(content, 1, index)
                      \o SubSeq(content, index + 2, Len(content))
        moved == SubSeq(others, 1, target) \o <<content[index + 1]>>
                     \o SubSeq(others, target + 1, Len(others))
        from == IF index < target THEN index ELSE target
        to == IF index < target THEN target ELSE index
    IN
    /\ index < Len(content) /\ target < Len(content)
    /\ Edit(from, to - from + 1, SubSeq(moved, from + 1, to + 1))

Rows == 0..Len(content)

Next ==
    \/ Connect \/ Disconnect \/ Reload \/ FetchMore
    \/ \E type \in LoadingType : SetLoadingType(type)
    \/ \E size \in ChunkSizes : SetChunkSize(size)
    \/ \E row \in Rows : View(row)
    \/ OnInitializationDone \/ OnCapabilitiesChanged \/ OnCountChanged
    \/ OnDataFetched \/ OnDataChanged \/ SignalLost
    \/ Initialize \/ RegisterInstance \/ UnregisterInstance \/ ServeFetchData
    \/ AnnounceAgain
    \/ \E row \in Rows : Insert(row) \/ Update(row)
    \/ \E row \in Rows, count \in Removals \ {0} : Remove(row, count)
    \/ \E row, target \in Rows : Move(row, target)

\* Both queues are served, and a view that lacks rows keeps asking for them.
Fairness ==
    /\ WF_vars(Initialize \/ RegisterInstance \/ UnregisterInstance \/ ServeFetchData)
    /\ WF_vars(OnInitializationDone \/ OnCapabilitiesChanged \/ OnCountChanged
                   \/ OnDataFetched \/ OnDataChanged \/ SignalLost)
    /\ WF_vars(FetchMore)
    /\ \A row \in 0..Len(InitialContent) : WF_vars(View(row))

Spec == Init /\ [][Next]_vars
FairSpec == Spec /\ Fairness

------------------------------------------------------------------------------
\* No edit is on its way to the model.
NoEditPending == \A i \in DOMAIN signals : signals[i].kind # "dataChanged"

(* The rows of a FetchMore list are the first items of the content, in order *)
(* and each once, whatever pages of this or of an earlier session are still  *)
(* under way.                                                                *)
ListIsPrefixOfContent ==
    isConnected /\ loadingType = "FetchMore" /\ NoEditPending =>
        /\ Len(itemList) <= Len(content)
        /\ itemList = SubSeq(content, 1, Len(itemList))

(* A DataChanged list has a row for every item, and each row is blank or     *)
(* shows the item of its place.                                              *)
RowsInPlace ==
    isConnected /\ loadingType = "DataChanged" /\ NoEditPending =>
        /\ Len(itemList) \in {0, Len(content)}
        /\ \A i \in DOMAIN itemList : itemList[i] \in {Blank, content[i]}

\* a page for this chunk has been asked for and has not arrived
Awaited(chunk) ==
    \/ \E i \in DOMAIN requests : /\ requests[i].kind = "fetchData"
                                  /\ requests[i].id = identifier
                                  /\ requests[i].start \div chunkSize = chunk
    \/ \E i \in DOMAIN signals : /\ signals[i].kind = "dataFetched"
                                 /\ signals[i].id = identifier
                                 /\ signals[i].start \div chunkSize = chunk

(* A chunk marked available is loaded or on its way: data() never asks for   *)
(* it again, so a bit set too early or too widely leaves its rows blank.     *)
AvailableChunksArrive ==
    loadingType = "DataChanged" =>
        \A row \in 0..Len(itemList) - 1 :
            row \div chunkSize \in availableChunks =>
                itemList[row + 1] # Blank \/ Awaited(row \div chunkSize)

(* data() looks a row's chunk up unchecked: every row there is, however it   *)
(* came, falls into a chunk the bit array has.                               *)
ChunkLookupInRange ==
    loadingType = "DataChanged" =>
        \A row \in 0..Len(itemList) - 1 : row \div chunkSize < chunkCount

(* What a view sees is true, in both loading types: the rows it has, where   *)
(* they are, and what the chunk bits promise it of the rows still missing.   *)
ListTrue ==
    /\ ListIsPrefixOfContent /\ RowsInPlace
    /\ AvailableChunksArrive /\ ChunkLookupInRange

(* The backend keeps no instance the model has let go of: what is registered *)
(* is unregistered under the same identifier.                                *)
NoInstanceLeft ==
    Settled => registered \subseteq (IF isConnected THEN {identifier} ELSE {})

(* The assertions of onDataFetched(): a page is no longer than a chunk and   *)
(* lies within one.                                                          *)
PageFitsChunk ==
    LET s == Head(signals) IN
    (isConnected /\ signals # <<>>) =>
        (s.kind = "dataFetched" /\ s.items # <<>> =>
            (Accepts(s) =>
                /\ Len(s.items) <= chunkSize
                /\ (s.start + Len(s.items) - 1) \div chunkSize = s.start \div chunkSize))

(* Every item of the backend gets shown to a view that stays connected: no   *)
(* reset, reconnection, second announcement or dropped page ends the loading *)
(* early.                                                                    *)
Shown(row) == row < Len(itemList) /\ itemList[row + 1] = content[row + 1]

EveryRowShown ==
    \A row \in 0..Len(InitialContent) :
        (isConnected /\ row < Len(content))
            ~> (~isConnected \/ row >= Len(content) \/ Shown(row))
==============================================================================
