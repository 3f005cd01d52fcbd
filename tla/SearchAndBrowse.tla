--------------------------- MODULE SearchAndBrowse ---------------------------
(***************************************************************************)
(* QIviSearchAndBrowseModel browsing through content types, with the media *)
(* simulator's browse backend behind a connection (media_qtro).  The model *)
(* asks for a content type; the backend agrees; the model then applies its *)
(* query and loads the content page by page (FetchMore).  The backend      *)
(* searches its database in a worker thread, so that a page may arrive     *)
(* when content type and query are others already.  In process, calls are  *)
(* served and their signals delivered at once.                             *)
(***************************************************************************)
EXTENDS Naturals, Sequences

CONSTANTS
    Types,        \* content types the backend supports, as paths of browsing
    Offered,      \* arguments of setContentType()
    NoType,       \* the empty content type, which no backend supports
    Browsable,    \* paths that end in artist or album: their rows lead on
    Child,        \* where a row of a browsable path leads to
    Parent,       \* where goBack() leads to, NoType at the root
    Content,      \* the rows of each path
    Queries,      \* queries that parse
    Unparsable,   \* queries that do not
    NoQuery,      \* the empty query
    Matching,     \* the rows of each path that match a query, in their order
    ChunkSize,    \* m_chunkSize
    MaxSession,   \* bound on the identifiers created
    MaxUses       \* bound on the requests of the user

Paths == Types \cup {NoType}
Rows == UNION {{Content[t][i] : i \in DOMAIN Content[t]} : t \in Paths}

ASSUME BrowseAssumption ==
    /\ NoType \notin Types /\ Browsable \subseteq Types /\ Offered \subseteq Types
    /\ \A t \in Paths : Content[t] \in Seq(Rows)
    /\ Child \in [Browsable -> [Rows -> Types]] /\ Parent \in [Types -> Paths]
    /\ NoQuery \notin Queries \cup Unparsable /\ Queries \cap Unparsable = {}
    /\ Matching \in [Queries -> [Paths -> Seq(Rows)]]
    /\ ChunkSize \in Nat \ {0} /\ MaxSession \in Nat \ {0} /\ MaxUses \in Nat

VARIABLES
    connected,      \* a service object with a backend is set
    initialized,    \* isInitialized()
    identifier,     \* m_identifier, a fresh QUuid for each session
    contentType,    \* m_contentType
    requested,      \* m_contentTypeRequested
    query,          \* m_query
    queryTerm,      \* the query m_queryTerm was parsed from
    canFilter,      \* SupportsFiltering is in m_capabilities
    canGoBack,      \* m_canGoBack
    canGoForward,   \* m_canGoForward
    itemList,       \* m_itemList; m_fetchedDataCount is its length
    moreAvailable,  \* m_moreAvailable
    calls,          \* calls on their way to the backend
    signals,        \* signals and replies on their way to the model
    instances,      \* keys of m_state
    state,          \* values of m_state
    jobs,           \* searches in the worker's queue
    uses,           \* requests of the user so far
    stale           \* history: what a page under way has spoiled in this session

modelVars == <<contentType, requested, query, queryTerm, canFilter, canGoBack,
               canGoForward, itemList, moreAvailable>>
sessionVars == <<connected, initialized, identifier>>
backendVars == <<instances, state, jobs>>
vars == <<modelVars, sessionVars, backendVars, calls, signals, uses, stale>>

Session == 1..MaxSession
Terms == Queries \cup {NoQuery}
State == [contentType : Paths, term : Terms, items : Seq(Rows)]
Fresh == [contentType |-> NoType, term |-> NoQuery, items |-> <<>>]

Signal ==
    [kind : {"dataFetched"}, id : Session, items : Seq(Rows), start : Nat, more : BOOLEAN]
        \cup [kind : {"canGoForwardChanged"}, id : Session, start : Nat, count : Nat]
        \cup [kind : {"contentTypeChanged"}, id : Session, type : Types]
        \cup [kind : {"canGoBackChanged"}, id : Session, can : BOOLEAN]
        \cup [kind : {"supportedCapabilitiesChanged"}, id : Session]
        \cup [kind : {"reply"}, type : Paths, expected : Paths, inModel : BOOLEAN]
Call ==
    [kind : {"setContentType"}, id : Session, type : Paths]
        \cup [kind : {"setupFilter"}, id : Session, term : Terms]
        \cup [kind : {"fetchData"}, id : Session, start : Nat]
        \cup [kind : {"goForward"}, id : Session, index : Nat, inModel : BOOLEAN,
              expected : Paths]
        \cup [kind : {"goBack", "registerInstance", "unregisterInstance"}, id : Session]
Job ==
    [id : Session, type : Paths, term : Terms, start : Nat, fetched : BOOLEAN]

TypeOK ==
    /\ connected \in BOOLEAN /\ initialized \in BOOLEAN /\ identifier \in Session
    /\ contentType \in Paths /\ requested \in Paths
    /\ query \in Terms \cup Unparsable /\ queryTerm \in Terms
    /\ canFilter \in BOOLEAN /\ canGoBack \in BOOLEAN
    /\ canGoForward \in Seq(BOOLEAN) /\ itemList \in Seq(Rows)
    /\ moreAvailable \in BOOLEAN
    /\ calls \in Seq(Call) /\ signals \in Seq(Signal)
    /\ jobs \in Seq(Job)
    /\ instances \subseteq Session /\ state \in [Session -> State]
    /\ uses \in 0..MaxUses /\ stale \subseteq {"flags", "rows"}

\* The user may choose content type and query before there is a connection.
Init ==
    /\ connected = FALSE /\ initialized = FALSE /\ identifier = 1
    /\ contentType = NoType /\ requested \in Offered \cup {NoType}
    /\ query \in Terms /\ queryTerm = NoQuery
    /\ canFilter = FALSE /\ canGoBack = FALSE /\ canGoForward = <<>>
    /\ itemList = <<>> /\ moreAvailable = FALSE
    /\ calls = <<>> /\ signals = <<>>
    /\ instances = {} /\ state = [s \in Session |-> Fresh]
    /\ jobs = <<>>
    /\ uses = 0 /\ stale = {}

------------------------------------------------------------------------------
\* a page of this session is asked for and not completely delivered
OfSession(e) == e.kind \in {"fetchData", "dataFetched", "canGoForwardChanged"}
                  /\ e.id = identifier
PageUnderWay ==
    \/ \E i \in DOMAIN calls : OfSession(calls[i])
    \/ \E i \in DOMAIN jobs : jobs[i].id = identifier
    \/ \E i \in DOMAIN signals : OfSession(signals[i])

Settled == /\ calls = <<>> /\ jobs = <<>> /\ signals = <<>>
           /\ connected => initialized

SetContentTypeCall(type) ==
    [kind |-> "setContentType", id |-> identifier, type |-> type]
FetchCallFirst(start) == [kind |-> "fetchData", id |-> identifier, start |-> 0]
FetchCall(start) == [kind |-> "fetchData", id |-> identifier, start |-> start]
SetupFilterCall(term) == [kind |-> "setupFilter", id |-> identifier, term |-> term]

(* resetModel() of the search and browse model only asks for the content type *)
(* again: the rest follows when contentTypeChanged() comes.                   *)
AskFor(type) == calls' = IF connected THEN Append(calls, SetContentTypeCall(type))
                                      ELSE calls

\* updateContentType()
UpdateContentType(type) ==
    /\ stale' = stale \cup (IF PageUnderWay THEN {"flags"} ELSE {})
    /\ query' = NoQuery /\ requested' = type
    /\ canGoForward' = <<>> /\ canGoBack' = FALSE
    /\ AskFor(type)
    /\ UNCHANGED <<contentType, queryTerm, canFilter, itemList, moreAvailable>>

Use == uses < MaxUses /\ uses' = uses + 1

SetContentType(type) ==
    /\ Use /\ type # requested
    /\ UpdateContentType(type)
    /\ UNCHANGED <<sessionVars, backendVars, signals>>

\* setQuery(): the query is parsed when the content type is confirmed
SetQuery(new) ==
    /\ Use /\ new # query
    /\ query' = new
    /\ AskFor(requested)
    /\ UNCHANGED <<contentType, requested, queryTerm, canFilter, canGoBack,
                   canGoForward, itemList, moreAvailable, sessionVars, backendVars,
                   signals, stale>>

GoBack ==
    /\ Use /\ connected /\ canGoBack
    /\ calls' = Append(calls, [kind |-> "goBack", id |-> identifier])
    /\ UNCHANGED <<modelVars, sessionVars, backendVars, signals, stale>>

(* goForward(i): out of the model, the reply goes to a new model.  What the   *)
(* user can expect is noted when the row is completely loaded.               *)
GoForward(i, inModel) ==
    /\ Use /\ connected
    /\ inModel \/ canFilter   \* all capabilities come at once
    /\ i < Len(itemList) /\ i < Len(canGoForward) /\ canGoForward[i + 1]
    /\ calls' = Append(calls,
           [kind |-> "goForward", id |-> identifier, index |-> i, inModel |-> inModel,
            expected |-> IF stale # {} \/ PageUnderWay \/ contentType \notin Browsable
                         THEN NoType ELSE Child[contentType][itemList[i + 1]]])
    /\ UNCHANGED <<modelVars, sessionVars, backendVars, signals, stale>>

FetchMore ==
    /\ connected /\ moreAvailable
    /\ moreAvailable' = FALSE
    /\ calls' = Append(calls, FetchCall(Len(itemList)))
    /\ UNCHANGED <<contentType, requested, query, queryTerm, canFilter, canGoBack,
                   canGoForward, itemList, sessionVars, backendVars, signals, uses,
                   stale>>

\* setServiceObject(): the backend initializes each feature that connects
Connect ==
    /\ ~connected
    /\ connected' = TRUE
    /\ UNCHANGED <<initialized, identifier, modelVars, backendVars, calls, signals,
                   uses, stale>>

(* setServiceObject(nullptr): unregister, disconnect, clear to defaults.     *)
Disconnect ==
    /\ Use /\ connected /\ identifier < MaxSession
    /\ connected' = FALSE /\ initialized' = FALSE /\ identifier' = identifier + 1
    /\ calls' = Append(calls, [kind |-> "unregisterInstance", id |-> identifier])
    /\ contentType' = NoType /\ requested' = NoType
    /\ query' = NoQuery /\ queryTerm' = NoQuery
    /\ canFilter' = FALSE /\ canGoBack' = FALSE /\ canGoForward' = <<>>
    /\ itemList' = <<>> /\ moreAvailable' = TRUE
    /\ stale' = {}
    /\ UNCHANGED <<backendVars, signals>>

------------------------------------------------------------------------------
(* The model hears a signal.                                                 *)

\* onInitializationDone() of the paging model: register, then resetModel()
OnInitializationDone ==
    /\ connected /\ ~initialized
    /\ initialized' = TRUE
    /\ calls' = calls \o <<[kind |-> "registerInstance", id |-> identifier],
                           SetContentTypeCall(requested)>>
    /\ UNCHANGED <<connected, identifier, modelVars, backendVars, signals, uses,
                   stale>>

\* The backend announces its initialization before it answers any call.
Hear(kind) == /\ connected => initialized
              /\ signals # <<>> /\ Head(signals).kind = kind
              /\ signals' = Tail(signals)
              /\ UNCHANGED <<sessionVars, backendVars, uses>>

\* The slot is connected and does not ignore the signal.
Concerned == connected /\ Head(signals).id = identifier

\* The slot is disconnected or ignores the identifier.
OnIgnored ==
    /\ signals # <<>> /\ Head(signals).kind # "reply" /\ ~Concerned
    /\ Hear(Head(signals).kind)
    /\ UNCHANGED <<modelVars, calls, stale>>

OnCapabilitiesChanged ==
    /\ Hear("supportedCapabilitiesChanged") /\ Concerned
    /\ canFilter' = TRUE
    /\ UNCHANGED <<contentType, requested, query, queryTerm, canGoBack, canGoForward,
                   itemList, moreAvailable, calls, stale>>

OnCanGoBackChanged ==
    /\ Hear("canGoBackChanged") /\ Concerned
    /\ canGoBack' = Head(signals).can
    /\ UNCHANGED <<contentType, requested, query, queryTerm, canFilter, canGoForward,
                   itemList, moreAvailable, calls, stale>>

(* parseQuery(): the term it sets up in the backend and keeps.  A query comes *)
(* to nothing before the capabilities are known or if it does not parse: the  *)
(* term stays as it is.                                                       *)
ParsedUnchecked == {query}

Parsed == CASE query = NoQuery -> {NoQuery}
            [] query \in Queries /\ canFilter -> {query}
            [] OTHER -> {}

\* setupFilter() tells the backend of the new term.
FilterCallsNone == <<>>

FilterCalls == IF Parsed = {} THEN <<>>
               ELSE <<SetupFilterCall(CHOOSE term \in Parsed : TRUE)>>

(* onContentTypeChanged(): even an unchanged content type has the query set  *)
(* up and the list fetched again, from the first page.                       *)
OnContentTypeChanged ==
    /\ Hear("contentTypeChanged") /\ Concerned
    /\ contentType' = Head(signals).type
    /\ queryTerm' = IF Parsed = {} THEN queryTerm ELSE CHOOSE term \in Parsed : TRUE
    /\ itemList' = <<>> /\ moreAvailable' = FALSE
    /\ calls' = calls \o FilterCalls \o <<FetchCall(0)>>
    /\ stale' = stale \cup (IF PageUnderWay THEN {"flags", "rows"} ELSE {})
    /\ UNCHANGED <<requested, query, canFilter, canGoBack, canGoForward>>

OnDataFetched ==
    LET s == Head(signals) IN
    /\ Hear("dataFetched") /\ Concerned
    /\ itemList' = itemList \o s.items
    /\ moreAvailable' = IF s.items = <<>> THEN moreAvailable ELSE s.more
    /\ UNCHANGED <<contentType, requested, query, queryTerm, canFilter, canGoBack,
                   canGoForward, calls, stale>>

Longest(m, n) == IF m > n THEN m ELSE n

\* m_canGoForward after its resize, with the flags of a page written to it
Flags(start, count) ==
    [i \in 1..Longest(Len(itemList), count) |->
        \/ i > start /\ i <= start + count
        \/ i <= Len(canGoForward) /\ canGoForward[i]]

(* onCanGoForwardChanged(): flags past the end are written out of bounds, see *)
(* FlagsWithinList; here they are lost.                                       *)
OnCanGoForwardChanged ==
    /\ Hear("canGoForwardChanged") /\ Concerned
    /\ canGoForward' = Flags(Head(signals).start, Head(signals).count)
    /\ UNCHANGED <<contentType, requested, query, queryTerm, canFilter, canGoBack,
                   itemList, moreAvailable, calls, stale>>

(* The reply to goBack() or goForward(): its functor runs whatever has become *)
(* of the connection and of the session it was made in.                       *)
OnReply ==
    LET s == Head(signals) IN
    /\ Hear("reply")
    /\ IF s.type # NoType /\ s.inModel THEN UpdateContentType(s.type)
                                       ELSE UNCHANGED <<modelVars, calls, stale>>

------------------------------------------------------------------------------
(* The backend takes a call off the queue, in its GUI thread.                *)

Take(kind) == /\ calls # <<>> /\ Head(calls).kind = kind
              /\ calls' = Tail(calls)
              /\ UNCHANGED <<modelVars, sessionVars, uses, stale>>

Caller == Head(calls).id

RegisterInstance ==
    /\ Take("registerInstance")
    /\ instances' = instances \cup {Caller}
    /\ state' = [state EXCEPT ![Caller] = Fresh]
    /\ UNCHANGED <<signals, jobs>>

UnregisterInstance ==
    /\ Take("unregisterInstance")
    /\ instances' = instances \ {Caller}
    /\ state' = [state EXCEPT ![Caller] = Fresh]
    /\ UNCHANGED <<signals, jobs>>

\* an unsupported type is an error, yet it is stored
ServeSetContentType ==
    LET type == Head(calls).type IN
    /\ Take("setContentType")
    /\ instances' = instances \cup {Caller}
    /\ state' = [state EXCEPT ![Caller].contentType = type]
    /\ signals' = IF type \in Types
                  THEN signals \o <<[kind |-> "canGoBackChanged", id |-> Caller,
                                     can |-> Parent[type] # NoType],
                                    [kind |-> "contentTypeChanged", id |-> Caller,
                                     type |-> type]>>
                  ELSE signals
    /\ UNCHANGED jobs

ServeSetupFilter ==
    /\ Take("setupFilter")
    /\ instances' = instances \cup {Caller}
    /\ state' = [state EXCEPT ![Caller].term = Head(calls).term]
    /\ UNCHANGED <<signals, jobs>>

\* The search is set up here and queued for the worker.
ServeFetchData ==
    /\ Take("fetchData")
    /\ signals' = Append(signals, [kind |-> "supportedCapabilitiesChanged",
                                   id |-> Caller])
    /\ jobs' = IF Caller \in instances
               THEN Append(jobs, [id |-> Caller, type |-> state[Caller].contentType,
                                  term |-> state[Caller].term,
                                  start |-> Head(calls).start, fetched |-> FALSE])
               ELSE jobs
    /\ UNCHANGED <<instances, state>>

\* Back and forward start from the backend's content type and its own rows.
Back(id) == IF state[id].contentType \in Types THEN Parent[state[id].contentType]
                                               ELSE NoType
Forward(id, i) ==
    IF state[id].contentType \in Browsable /\ i < Len(state[id].items)
    THEN Child[state[id].contentType][state[id].items[i + 1]] ELSE NoType

ServeGoBack ==
    /\ Take("goBack")
    /\ instances' = instances \cup {Caller}
    /\ signals' = Append(signals, [kind |-> "reply", type |-> Back(Caller),
                                   expected |-> NoType, inModel |-> TRUE])
    /\ UNCHANGED <<state, jobs>>

ServeGoForward ==
    LET c == Head(calls) IN
    /\ Take("goForward")
    /\ instances' = instances \cup {Caller}
    /\ signals' = Append(signals, [kind |-> "reply", type |-> Forward(Caller, c.index),
                                   expected |-> c.expected, inModel |-> c.inModel])
    /\ UNCHANGED <<state, jobs>>

Listing(type, term) == IF term = NoQuery THEN Content[type] ELSE Matching[term][type]

Page(job) ==
    LET list == Listing(job.type, job.term) IN
    SubSeq(list, job.start + 1, IF job.start + ChunkSize < Len(list)
                                THEN job.start + ChunkSize ELSE Len(list))

\* There may be more if the page is full.
HasMoreStrict(page) == Len(page) > ChunkSize

HasMore(page) == Len(page) >= ChunkSize

(* search() in the worker thread: it announces the page ...                  *)
Search ==
    LET job == Head(jobs) IN
    /\ jobs # <<>> /\ ~job.fetched
    /\ jobs' = <<[job EXCEPT !.fetched = TRUE]>> \o Tail(jobs)
    /\ signals' = Append(signals,
                        [kind |-> "dataFetched", id |-> job.id, items |-> Page(job),
                         start |-> job.start, more |-> HasMore(Page(job))])
    /\ UNCHANGED <<modelVars, sessionVars, calls, instances, state, uses, stale>>

\* m_state[id].items: what lies past its end is appended, the rest replaced
Kept(items, page, start) ==
    [i \in 1..Longest(Len(items), IF start < Len(items) THEN start + Len(page)
                                                        ELSE Len(items) + Len(page)) |->
        IF start < Len(items)
        THEN IF i > start /\ i <= start + Len(page) THEN page[i - start] ELSE items[i]
        ELSE IF i > Len(items) THEN page[i - Len(items)] ELSE items[i]]

\* the row of the first flag a search sends
FirstFlag(job) == job.start

(* ... and then keeps its rows, under an identifier that may be gone, and    *)
(* says which of them lead on.                                               *)
Record ==
    LET job == Head(jobs)
        page == Page(job) IN
    /\ jobs # <<>> /\ job.fetched
    /\ jobs' = Tail(jobs)
    /\ instances' = instances \cup {job.id}
    /\ state' = [state EXCEPT ![job.id].items = Kept(@, page, job.start)]
    /\ signals' = IF job.type \in Browsable
                  THEN Append(signals,
                            [kind |-> "canGoForwardChanged", id |-> job.id,
                             start |-> FirstFlag(job), count |-> Len(page)])
                  ELSE signals
    /\ UNCHANGED <<modelVars, sessionVars, calls, uses, stale>>

------------------------------------------------------------------------------
User ==
    \/ Connect \/ Disconnect \/ GoBack
    \/ \E type \in Offered : SetContentType(type)
    \/ \E new \in Terms \cup Unparsable : SetQuery(new)
    \/ \E i \in DOMAIN itemList, inModel \in BOOLEAN : GoForward(i - 1, inModel)

Model == \/ OnIgnored \/ OnCapabilitiesChanged \/ OnCanGoBackChanged
         \/ OnContentTypeChanged \/ OnDataFetched \/ OnCanGoForwardChanged \/ OnReply

Backend == \/ RegisterInstance \/ UnregisterInstance \/ ServeSetContentType
           \/ ServeSetupFilter \/ ServeFetchData \/ ServeGoBack \/ ServeGoForward

Next == \/ User \/ OnInitializationDone \/ FetchMore \/ Model \/ Backend
        \/ Search \/ Record

\* Threads, queues and the connection keep going; a view loads what there is.
Fairness == /\ WF_vars(OnInitializationDone) /\ WF_vars(FetchMore)
            /\ WF_vars(Model) /\ WF_vars(Backend)
            /\ WF_vars(Search \/ Record)

Spec == Init /\ [][Next]_vars
FairSpec == Spec /\ Fairness

------------------------------------------------------------------------------
(* The rows are the first ones of the current content type that match the    *)
(* query set up for it, in order and each once, whatever has been asked for  *)
(* since: unless the list was ever reset while a page was under way.         *)
RowsBelong ==
    connected /\ "rows" \notin stale =>
        LET all == Listing(contentType, queryTerm) IN
        Len(itemList) <= Len(all) /\ itemList = SubSeq(all, 1, Len(itemList))

(* "The new content will be loaded into this model and the existing model    *)
(* data will be reset": every row is of the current content type.            *)
RowsOfContentType ==
    connected /\ contentType \in Types =>
        \A i \in DOMAIN itemList : \E j \in DOMAIN Content[contentType] :
            itemList[i] = Content[contentType][j]

(* onCanGoForwardChanged() writes flags by row into a list it sizes by the   *)
(* rows there are: it stays within, if the page came first.                  *)
FlagsWithinList ==
    LET s == Head(signals) IN
    (connected /\ "rows" \notin stale /\ signals # <<>>) =>
        (s.kind = "canGoForwardChanged" /\ s.id = identifier =>
            s.start + s.count <= Longest(Len(itemList), s.count))

(* When all is quiet the flags say of each row whether it leads on, after    *)
(* queries and navigation that reset the rows but not always the flags.      *)
FlagsFitRows ==
    Settled /\ connected /\ stale = {} =>
        \A i \in DOMAIN itemList :
            (i <= Len(canGoForward) /\ canGoForward[i]) <=> contentType \in Browsable

(* goForward() leads into the row the user saw, although the backend looks   *)
(* the row up in its own list, which the worker thread fills.                *)
GoesWhereShown ==
    \A i \in DOMAIN signals :
        (signals[i].kind = "reply" /\ signals[i].expected # NoType) =>
            signals[i].type = signals[i].expected

(* The list hangs together: rows, the flags of the rows, and what the rows    *)
(* lead to, each of which comes by a signal or reply of its own.             *)
ListHangsTogether ==
    RowsBelong /\ FlagsWithinList /\ FlagsFitRows /\ GoesWhereShown

(* Whatever the order of requests, navigation replies, reconnections and     *)
(* confirmations was, in the end model and backend agree on content type and *)
(* filter, it is what was last asked for, back leads back, and without a     *)
(* query nothing is filtered.                                                *)
InAgreement ==
    Settled /\ connected =>
        /\ state[identifier].contentType = requested
        /\ contentType = requested
        /\ state[identifier].term = queryTerm
        /\ query = NoQuery => queryTerm = NoQuery
        /\ canGoBack <=> Back(identifier) # NoType

(* What was asked for last gets shown completely, unless a page overtaken by *)
(* a reset has spoiled the list or the connection is gone.                   *)
EventuallyLoaded ==
    (connected /\ requested # NoType) ~>
        \/ contentType = requested /\ itemList = Listing(contentType, queryTerm)
        \/ ~connected \/ "rows" \in stale
==============================================================================
