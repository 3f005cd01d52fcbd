------------------------ MODULE SearchAndBrowseProofs ------------------------
(***************************************************************************)
(* Theorems about SearchAndBrowse: for any content, types, queries, chunk  *)
(* sizes, sessions and requests of the user.                               *)
(***************************************************************************)
EXTENDS SearchAndBrowse, SequenceTheorems, TLAPS

\* What is in a queue without its head.
LEMMA TailAt ==
    ASSUME NEW S, NEW s \in Seq(S), s # <<>>
    PROVE  /\ 1 \in DOMAIN s /\ Head(s) = s[1] /\ Head(s) \in S
           /\ Tail(s) \in Seq(S)
           /\ \A i \in DOMAIN Tail(s) :
                 i \in Nat /\ i > 0 /\ i + 1 \in DOMAIN s /\ Tail(s)[i] = s[i + 1]
           /\ \A i \in DOMAIN s :
                 /\ i \in Nat /\ i > 0
                 /\ i = 1 \/ (i - 1 \in DOMAIN Tail(s) /\ Tail(s)[i - 1] = s[i])
<1>1. /\ Len(s) \in Nat \ {0} /\ DOMAIN s = 1..Len(s) /\ Head(s) = s[1]
      /\ Tail(s) \in Seq(S) /\ Len(Tail(s)) = Len(s) - 1
      /\ \A i \in 1..Len(Tail(s)) : Tail(s)[i] = s[i + 1]
    BY EmptySeq, LenProperties, HeadTailProperties
<1>2. DOMAIN Tail(s) = 1..Len(s) - 1
    BY <1>1, LenProperties
<1>3. s[1] \in S
    BY <1>1, ElementOfSeq
<1> QED BY <1>1, <1>2, <1>3

\* What is in a queue with one more entry.
LEMMA AppendAt ==
    ASSUME NEW S, NEW s \in Seq(S), NEW e \in S
    PROVE  /\ Append(s, e) \in Seq(S)
           /\ \A i \in DOMAIN s : i \in Nat /\ i < Len(s) + 1
                 /\ i \in DOMAIN Append(s, e) /\ Append(s, e)[i] = s[i]
           /\ \A i \in DOMAIN Append(s, e) :
                 \/ i \in DOMAIN s /\ Append(s, e)[i] = s[i]
                 \/ i = Len(s) + 1 /\ Append(s, e)[i] = e
           /\ Len(s) + 1 \in DOMAIN Append(s, e) /\ Append(s, e)[Len(s) + 1] = e
<1>1. /\ Len(s) \in Nat /\ DOMAIN s = 1..Len(s)
    BY LenProperties
<1>2. /\ Append(s, e) \in Seq(S) /\ Len(Append(s, e)) = Len(s) + 1
      /\ \A i \in 1..Len(s) : Append(s, e)[i] = s[i]
      /\ Append(s, e)[Len(s) + 1] = e
    BY AppendProperties
<1>3. DOMAIN Append(s, e) = 1..Len(s) + 1
    BY <1>2, LenProperties
<1> QED BY <1>1, <1>2, <1>3

\* What is in a queue that another one is added to.
LEMMA ConcatAt ==
    ASSUME NEW S, NEW s \in Seq(S), NEW t \in Seq(S)
    PROVE  /\ s \o t \in Seq(S)
           /\ \A i \in DOMAIN s : i \in DOMAIN (s \o t) /\ (s \o t)[i] = s[i]
           /\ \A i \in DOMAIN t : \E j \in DOMAIN (s \o t) : (s \o t)[j] = t[i]
           /\ \A i \in DOMAIN (s \o t) :
                 \/ i \in DOMAIN s /\ (s \o t)[i] = s[i]
                 \/ \E j \in DOMAIN t : (s \o t)[i] = t[j]
<1>1. /\ Len(s) \in Nat /\ DOMAIN s = 1..Len(s)
      /\ Len(t) \in Nat /\ DOMAIN t = 1..Len(t)
    BY LenProperties
<1>2. /\ s \o t \in Seq(S) /\ Len(s \o t) = Len(s) + Len(t)
      /\ \A i \in 1..Len(s) + Len(t) :
            (s \o t)[i] = IF i <= Len(s) THEN s[i] ELSE t[i - Len(s)]
    BY ConcatProperties
<1>3. DOMAIN (s \o t) = 1..Len(s) + Len(t)
    BY <1>2, LenProperties
<1>4. ASSUME NEW i \in DOMAIN t
      PROVE  \E j \in DOMAIN (s \o t) : (s \o t)[j] = t[i]
  <2>1. /\ i + Len(s) \in 1..Len(s) + Len(t) /\ ~(i + Len(s) <= Len(s))
        /\ (i + Len(s)) - Len(s) = i
      BY <1>1
  <2> QED BY <1>2, <1>3, <2>1
<1>5. ASSUME NEW i \in DOMAIN (s \o t), i \notin DOMAIN s
      PROVE  \E j \in DOMAIN t : (s \o t)[i] = t[j]
  <2>1. i - Len(s) \in DOMAIN t /\ ~(i <= Len(s))
      BY <1>1, <1>3, <1>5
  <2> QED BY <1>2, <1>3, <2>1
<1> QED BY <1>1, <1>2, <1>3, <1>4, <1>5


------------------------------------------------------------------------------
(* Types.                                                                    *)

LEMMA CallFields ==
    ASSUME NEW c \in Call
    PROVE  /\ c.id \in Session
           /\ c.kind = "setContentType" => c.type \in Paths
           /\ c.kind = "setupFilter" => c.term \in Terms
           /\ c.kind = "fetchData" => c.start \in Nat
           /\ c.kind = "goForward" =>
                 c.index \in Nat /\ c.inModel \in BOOLEAN /\ c.expected \in Paths
           /\ c.kind \in {"setContentType", "setupFilter", "fetchData", "goForward",
                          "goBack", "registerInstance", "unregisterInstance"}
    BY DEF Call

LEMMA SignalFields ==
    ASSUME NEW s \in Signal
    PROVE  /\ s.kind # "reply" => s.id \in Session
           /\ s.kind = "dataFetched" =>
                 s.items \in Seq(Rows) /\ s.start \in Nat /\ s.more \in BOOLEAN
           /\ s.kind = "canGoForwardChanged" => s.start \in Nat /\ s.count \in Nat
           /\ s.kind = "contentTypeChanged" => s.type \in Types
           /\ s.kind = "canGoBackChanged" => s.can \in BOOLEAN
           /\ s.kind = "reply" => s.type \in Paths /\ s.expected \in Paths
                                    /\ s.inModel \in BOOLEAN
           /\ s.kind \in {"dataFetched", "canGoForwardChanged", "contentTypeChanged",
                          "canGoBackChanged", "supportedCapabilitiesChanged", "reply"}
    BY DEF Signal

LEMMA CallsTyped ==
    ASSUME NEW id \in Session
    PROVE  /\ \A type \in Paths : [kind |-> "setContentType", id |-> id, type |-> type] \in Call
           /\ \A term \in Terms : [kind |-> "setupFilter", id |-> id, term |-> term] \in Call
           /\ \A start \in Nat : [kind |-> "fetchData", id |-> id, start |-> start] \in Call
           /\ [kind |-> "goBack", id |-> id] \in Call
           /\ [kind |-> "registerInstance", id |-> id] \in Call
           /\ [kind |-> "unregisterInstance", id |-> id] \in Call
    BY DEF Call

\* What the database finds is rows, and a page of it is a part of it.
LEMMA ListingTyped ==
    ASSUME NEW type \in Paths, NEW term \in Terms
    PROVE  Listing(type, term) \in Seq(Rows)
<1>1. Content[type] \in Seq(Rows)
    BY BrowseAssumption
<1>2. term # NoQuery => Matching[term][type] \in Seq(Rows)
    BY BrowseAssumption DEF Terms
<1> QED BY <1>1, <1>2 DEF Listing

PageEnd(start, list) == IF start + ChunkSize < Len(list) THEN start + ChunkSize
                                                         ELSE Len(list)

LEMMA PageIs ==
    ASSUME NEW type \in Paths, NEW term \in Terms, NEW start \in Nat,
           NEW job, job.type = type, job.term = term, job.start = start
    PROVE  LET list == Listing(type, term)
               end == PageEnd(start, list)
           IN  /\ list \in Seq(Rows) /\ Len(list) \in Nat
               /\ end \in Nat /\ end <= Len(list)
               /\ Page(job) = SubSeq(list, start + 1, end)
               /\ Page(job) \in Seq(Rows)
               /\ Len(Page(job)) = IF start + 1 <= end THEN end - start ELSE 0
               /\ \A i \in 1..Len(Page(job)) : Page(job)[i] = list[start + i]
<1> DEFINE list == Listing(type, term)
           end == PageEnd(start, list)
<1>1. list \in Seq(Rows) /\ Len(list) \in Nat /\ ChunkSize \in Nat
    BY ListingTyped, LenProperties, BrowseAssumption
<1> HIDE DEF list
<1>2. end \in Nat /\ end <= Len(list)
    BY <1>1 DEF PageEnd
<1>3. Page(job) = SubSeq(list, start + 1, end)
    BY DEF Page, PageEnd, list
<1> HIDE DEF end
<1>4. \A i \in start + 1..end : list[i] \in Rows
  <2> SUFFICES ASSUME NEW i \in start + 1..end PROVE list[i] \in Rows
      OBVIOUS
  <2>1. i \in 1..Len(list)
      BY <1>1, <1>2
  <2> QED BY <1>1, <2>1, ElementOfSeq
<1>5. start + 1 \in Int /\ end \in Int
    BY <1>2
<1>6. /\ SubSeq(list, start + 1, end) \in Seq(Rows)
      /\ Len(SubSeq(list, start + 1, end)) =
             IF start + 1 <= end THEN end - (start + 1) + 1 ELSE 0
      /\ \A i \in 1..end - (start + 1) + 1 :
             SubSeq(list, start + 1, end)[i] = list[start + 1 + i - 1]
    BY <1>4, <1>5, SubSeqProperties
<1>7. Len(Page(job)) = IF start + 1 <= end THEN end - start ELSE 0
    BY <1>2, <1>3, <1>6
<1>8. \A i \in 1..Len(Page(job)) : Page(job)[i] = list[start + i]
  <2> SUFFICES ASSUME NEW i \in 1..Len(Page(job)) PROVE Page(job)[i] = list[start + i]
      OBVIOUS
  <2>1. i \in 1..end - (start + 1) + 1 /\ start + 1 + i - 1 = start + i
      BY <1>2, <1>7
  <2> QED BY <1>3, <1>6, <2>1
<1> QED BY <1>1, <1>2, <1>3, <1>6, <1>7, <1>8 DEF list, end

LEMMA JobFields ==
    ASSUME NEW job \in Job
    PROVE  /\ job.id \in Session /\ job.type \in Paths /\ job.term \in Terms
           /\ job.start \in Nat /\ job.fetched \in BOOLEAN
           /\ Page(job) \in Seq(Rows) /\ Len(Page(job)) \in Nat
<1>1. /\ job.id \in Session /\ job.type \in Paths /\ job.term \in Terms
      /\ job.start \in Nat /\ job.fetched \in BOOLEAN
    BY DEF Job
<1> QED BY <1>1, PageIs, LenProperties

\* A finite sequence given by its entries.
LEMMA SeqOf ==
    ASSUME NEW S, NEW n \in Nat, NEW s \in [1..n -> S]
    PROVE  s \in Seq(S) /\ Len(s) = n /\ DOMAIN s = 1..n
<1>1. s \in Seq(S)
    BY SeqDef
<1> QED BY <1>1, LenProperties

\* What the backend keeps of a page: it is as long as before at least, and
\* holds the page from its first row on, unless there is a gap.
LEMMA KeptIs ==
    ASSUME NEW items \in Seq(Rows), NEW page \in Seq(Rows), NEW start \in Nat
    PROVE  /\ Kept(items, page, start) \in Seq(Rows)
           /\ Len(Kept(items, page, start)) \in Nat
           /\ Len(Kept(items, page, start)) >= Len(items)
           /\ start <= Len(items) =>
                 /\ Len(Kept(items, page, start)) >= start + Len(page)
                 /\ \A i \in 1..Len(page) : Kept(items, page, start)[start + i] = page[i]
                 /\ \A i \in 1..start : Kept(items, page, start)[i] = items[i]
<1> DEFINE m == Len(items)
           k == Len(page)
           n == Longest(m, IF start < m THEN start + k ELSE m + k)
           At(i) == IF start < m
                    THEN IF i > start /\ i <= start + k THEN page[i - start] ELSE items[i]
                    ELSE IF i > m THEN page[i - m] ELSE items[i]
<1>1. /\ m \in Nat /\ DOMAIN items = 1..m /\ k \in Nat /\ DOMAIN page = 1..k
      /\ \A i \in 1..m : items[i] \in Rows
      /\ \A i \in 1..k : page[i] \in Rows
    BY LenProperties, ElementOfSeq
<1> HIDE DEF m, k
<1>2. n \in Nat /\ n >= m
    BY <1>1 DEF Longest
<1>3. (start <= m => n >= start + k) /\ (start < m => n = m \/ n = start + k)
      /\ (start >= m => n = m + k)
    BY <1>1 DEF Longest
<1>4. ASSUME NEW i \in 1..n
      PROVE  At(i) \in Rows
  <2>1. CASE start < m
    <3>1. CASE i > start /\ i <= start + k
      <4>1. i - start \in 1..k
          BY <1>1, <1>2, <3>1
      <4> QED BY <1>1, <2>1, <3>1, <4>1
    <3>2. CASE ~(i > start /\ i <= start + k)
      <4>1. i \in 1..m
          BY <1>1, <1>2, <1>3, <2>1, <3>2
      <4> QED BY <1>1, <2>1, <3>2, <4>1
    <3> QED BY <3>1, <3>2
  <2>2. CASE ~(start < m)
    <3>1. CASE i > m
      <4>1. i - m \in 1..k
          BY <1>1, <1>2, <1>3, <2>2, <3>1
      <4> QED BY <1>1, <2>2, <3>1, <4>1
    <3>2. CASE ~(i > m)
      <4>1. i \in 1..m
          BY <1>1, <1>2, <3>2
      <4> QED BY <1>1, <2>2, <3>2, <4>1
    <3> QED BY <3>1, <3>2
  <2> QED BY <2>1, <2>2
<1>5. Kept(items, page, start) = [i \in 1..n |-> At(i)]
    BY DEF Kept, m, k
<1> DEFINE kept == [i \in 1..n |-> At(i)]
<1>6. kept \in [1..n -> Rows]
    BY <1>4
<1>7. \A i \in 1..n : kept[i] = At(i)
    OBVIOUS
<1> HIDE DEF kept, n
<1>8. kept \in Seq(Rows) /\ Len(kept) = n
    BY <1>2, <1>6, SeqOf
<1>9. ASSUME start <= m, NEW i \in 1..k PROVE kept[start + i] = page[i]
  <2>1. start + i \in 1..n
      BY <1>1, <1>2, <1>3, <1>9
  <2>2. kept[start + i] = At(start + i)
      BY <1>7, <2>1
  <2>3. CASE start < m
    <3>1. start + i > start /\ start + i <= start + k /\ (start + i) - start = i
        BY <1>1
    <3> QED BY <2>2, <2>3, <3>1
  <2>4. CASE start = m
    <3>1. start + i > m /\ (start + i) - m = i
        BY <1>1, <2>4
    <3> QED BY <2>2, <2>4, <3>1
  <2> QED BY <1>1, <1>9, <2>3, <2>4
<1>10. ASSUME start <= m, NEW i \in 1..start PROVE kept[i] = items[i]
  <2>1. i \in 1..n /\ ~(i > start) /\ ~(i > m)
      BY <1>1, <1>2, <1>10
  <2> QED BY <1>7, <2>1
<1> QED BY <1>2, <1>3, <1>5, <1>8, <1>9, <1>10 DEF m, k, kept

LEMMA TypeInit == Init => TypeOK
<1> SUFFICES ASSUME Init PROVE TypeOK
    OBVIOUS
<1>1. <<>> \in Seq(Call) /\ <<>> \in Seq(Signal) /\ <<>> \in Seq(Job)
      /\ <<>> \in Seq(Rows) /\ <<>> \in Seq(BOOLEAN)
    BY EmptySeq
<1>2. NoType \in Paths /\ NoQuery \in Terms /\ Offered \subseteq Paths
    BY BrowseAssumption DEF Paths, Terms
<1>3. 1 \in Session /\ 0 \in 0..MaxUses
    BY BrowseAssumption DEF Session
<1>4. Fresh \in State
    BY <1>1, <1>2 DEF Fresh, State
<1> QED BY <1>1, <1>2, <1>3, <1>4 DEF Init, TypeOK

\* The parts of the types that most steps leave alone together.
ModelTyped ==
    /\ contentType \in Paths /\ requested \in Paths
    /\ query \in Terms \cup Unparsable /\ queryTerm \in Terms
    /\ canFilter \in BOOLEAN /\ canGoBack \in BOOLEAN
    /\ canGoForward \in Seq(BOOLEAN) /\ itemList \in Seq(Rows)
    /\ moreAvailable \in BOOLEAN

SessionTyped == connected \in BOOLEAN /\ initialized \in BOOLEAN /\ identifier \in Session

BackendTyped ==
    jobs \in Seq(Job) /\ instances \subseteq Session /\ state \in [Session -> State]

OthersTyped == uses \in 0..MaxUses /\ stale \subseteq {"flags", "rows"}

LEMMA TypeParts ==
    TypeOK <=> /\ ModelTyped /\ SessionTyped /\ BackendTyped /\ OthersTyped
               /\ calls \in Seq(Call) /\ signals \in Seq(Signal)
    BY DEF TypeOK, ModelTyped, SessionTyped, BackendTyped, OthersTyped

LEMMA UseTyped == TypeOK /\ Use => uses' \in 0..MaxUses
    BY BrowseAssumption DEF Use, TypeOK

LEMMA AskForTyped ==
    ASSUME TypeOK, NEW type \in Paths, AskFor(type)
    PROVE  calls' \in Seq(Call)
<1>1. SetContentTypeCall(type) \in Call
    BY CallsTyped DEF SetContentTypeCall, TypeOK
<1> QED BY <1>1, AppendAt DEF AskFor, TypeOK

LEMMA UpdateTyped ==
    ASSUME TypeOK, NEW type \in Paths, UpdateContentType(type)
    PROVE  ModelTyped' /\ calls' \in Seq(Call) /\ stale' \subseteq {"flags", "rows"}
<1>1. calls' \in Seq(Call)
    BY AskForTyped DEF UpdateContentType
<1>2. <<>> \in Seq(BOOLEAN) /\ NoQuery \in Terms
    BY EmptySeq DEF Terms
<1> QED BY <1>1, <1>2 DEF UpdateContentType, TypeOK, ModelTyped

\* The term a query is parsed to, if any.
LEMMA ParsedIs ==
    ASSUME TypeOK
    PROVE  /\ Parsed = {} \/ (Parsed = {query} /\ query \in Terms)
           /\ query = NoQuery => Parsed = {NoQuery}
           /\ Parsed # {} => (CHOOSE term \in Parsed : TRUE) = query
<1>1. /\ Parsed = {} \/ (Parsed = {query} /\ query \in Terms)
      /\ query = NoQuery => Parsed = {NoQuery}
    BY DEF Parsed, Terms
<1> QED BY <1>1

LEMMA FilterCallsAre ==
    ASSUME TypeOK
    PROVE  /\ Parsed = {} => FilterCalls = <<>>
           /\ Parsed # {} => FilterCalls = <<SetupFilterCall(query)>>
           /\ FilterCalls \in Seq(Call)
<1>1. /\ Parsed = {} => FilterCalls = <<>>
      /\ Parsed # {} => FilterCalls = <<SetupFilterCall(query)>> /\ query \in Terms
    BY ParsedIs DEF FilterCalls
<1>2. query \in Terms => SetupFilterCall(query) \in Call
    BY CallsTyped DEF SetupFilterCall, TypeOK
<1>3. FilterCalls \in Seq(Call)
  <2>1. CASE Parsed = {}
      BY <1>1, <2>1, EmptySeq
  <2>2. CASE Parsed # {}
    <3>1. SetupFilterCall(query) \in Call /\ FilterCalls = <<SetupFilterCall(query)>>
        BY <1>1, <1>2, <2>2
    <3> HIDE DEF SetupFilterCall
    <3> QED BY <3>1
  <2> QED BY <2>1, <2>2
<1> QED BY <1>1, <1>3

LEMMA HeadSignal ==
    ASSUME TypeOK, NEW kind, Hear(kind)
    PROVE  /\ Head(signals) \in Signal /\ Head(signals).kind = kind
           /\ signals # <<>> /\ signals' = Tail(signals) /\ signals' \in Seq(Signal)
    BY TailAt DEF TypeOK, Hear

LEMMA HeadCall ==
    ASSUME TypeOK, NEW kind, Take(kind)
    PROVE  /\ Head(calls) \in Call /\ Head(calls).kind = kind
           /\ Caller \in Session
           /\ calls # <<>> /\ calls' = Tail(calls) /\ calls' \in Seq(Call)
<1>1. /\ Head(calls) \in Call /\ Head(calls).kind = kind
      /\ calls # <<>> /\ calls' = Tail(calls) /\ calls' \in Seq(Call)
    BY TailAt DEF TypeOK, Take
<1> QED BY <1>1, CallFields DEF Caller

LEMMA TypeUser == TypeOK /\ (User \/ OnInitializationDone \/ FetchMore) => TypeOK'
<1> SUFFICES ASSUME TypeOK, User \/ OnInitializationDone \/ FetchMore PROVE TypeOK'
    OBVIOUS
<1> USE DEF modelVars, sessionVars, backendVars
<1>1. CASE Connect
    BY <1>1 DEF Connect, TypeOK
<1>2. CASE Disconnect
  <2>1. uses' \in 0..MaxUses
      BY <1>2, UseTyped DEF Disconnect
  <2>2. identifier' \in Session
      BY <1>2, BrowseAssumption DEF Disconnect, TypeOK, Session
  <2>3. [kind |-> "unregisterInstance", id |-> identifier] \in Call
      BY CallsTyped DEF TypeOK
  <2>4. calls' \in Seq(Call)
      BY <1>2, <2>3, AppendAt DEF Disconnect, TypeOK
  <2>5. NoType \in Paths /\ NoQuery \in Terms /\ <<>> \in Seq(BOOLEAN)
        /\ <<>> \in Seq(Rows)
      BY EmptySeq DEF Paths, Terms
  <2> QED BY <1>2, <2>1, <2>2, <2>4, <2>5 DEF Disconnect, TypeOK
<1>3. CASE GoBack
  <2>1. uses' \in 0..MaxUses
      BY <1>3, UseTyped DEF GoBack
  <2>2. [kind |-> "goBack", id |-> identifier] \in Call
      BY CallsTyped DEF TypeOK
  <2>3. calls' \in Seq(Call)
      BY <1>3, <2>2, AppendAt DEF GoBack, TypeOK
  <2> QED BY <1>3, <2>1, <2>3 DEF GoBack, TypeOK
<1>4. ASSUME NEW type \in Offered, SetContentType(type) PROVE TypeOK'
  <2>1. uses' \in 0..MaxUses /\ type \in Paths
      BY <1>4, UseTyped, BrowseAssumption DEF SetContentType, Paths
  <2>2. ModelTyped' /\ calls' \in Seq(Call) /\ stale' \subseteq {"flags", "rows"}
      BY <1>4, <2>1, UpdateTyped DEF SetContentType
  <2> QED BY <1>4, <2>1, <2>2 DEF SetContentType, TypeOK, ModelTyped
<1>5. ASSUME NEW new \in Terms \cup Unparsable, SetQuery(new) PROVE TypeOK'
  <2>1. uses' \in 0..MaxUses
      BY <1>5, UseTyped DEF SetQuery
  <2>2. calls' \in Seq(Call)
      BY <1>5, AskForTyped DEF SetQuery, TypeOK
  <2> QED BY <1>5, <2>1, <2>2 DEF SetQuery, TypeOK
<1>6. ASSUME NEW i \in DOMAIN itemList, NEW inModel \in BOOLEAN,
             GoForward(i - 1, inModel)
      PROVE  TypeOK'
  <2> DEFINE x == IF stale # {} \/ PageUnderWay \/ contentType \notin Browsable
                  THEN NoType ELSE Child[contentType][itemList[(i - 1) + 1]]
             c == [kind |-> "goForward", id |-> identifier, index |-> i - 1,
                   inModel |-> inModel, expected |-> x]
  <2>1. uses' \in 0..MaxUses
      BY <1>6, UseTyped DEF GoForward
  <2>2. i \in Nat /\ i >= 1 /\ (i - 1) + 1 = i /\ itemList[i] \in Rows
      BY ElementOfSeq, LenProperties DEF TypeOK
  <2>3. x \in Paths
      BY <2>2, BrowseAssumption DEF Paths
  <2>4. i - 1 \in Nat
      BY <2>2
  <2>5. calls' = Append(calls, c)
      BY <1>6 DEF GoForward
  <2> HIDE DEF x
  <2>6. c \in Call
      BY <2>3, <2>4 DEF Call, TypeOK
  <2>7. calls' \in Seq(Call)
      BY <2>5, <2>6, AppendAt DEF TypeOK
  <2> QED BY <1>6, <2>1, <2>7 DEF GoForward, TypeOK
<1>7. CASE OnInitializationDone
  <2> DEFINE more == <<[kind |-> "registerInstance", id |-> identifier],
                       SetContentTypeCall(requested)>>
  <2>1. /\ [kind |-> "registerInstance", id |-> identifier] \in Call
        /\ SetContentTypeCall(requested) \in Call
      BY CallsTyped DEF TypeOK, SetContentTypeCall
  <2>2. more \in Seq(Call)
      BY <2>1
  <2> HIDE DEF more
  <2>3. calls' \in Seq(Call)
      BY <1>7, <2>2, ConcatAt DEF OnInitializationDone, TypeOK, more
  <2> QED BY <1>7, <2>3 DEF OnInitializationDone, TypeOK
<1>8. CASE FetchMore
  <2>1. FetchCall(Len(itemList)) \in Call
      BY CallsTyped, LenProperties DEF TypeOK, FetchCall
  <2>2. calls' \in Seq(Call)
      BY <1>8, <2>1, AppendAt DEF FetchMore, TypeOK
  <2> QED BY <1>8, <2>2 DEF FetchMore, TypeOK
<1> QED BY <1>1, <1>2, <1>3, <1>4, <1>5, <1>6, <1>7, <1>8 DEF User

\* The flags after a page of them is written, row by row.
LEMMA FlagsTyped ==
    ASSUME TypeOK, NEW start \in Nat, NEW count \in Nat
    PROVE  /\ Flags(start, count) \in Seq(BOOLEAN)
           /\ Len(Flags(start, count)) = Longest(Len(itemList), count)
           /\ \A i \in 1..Longest(Len(itemList), count) :
                 Flags(start, count)[i] <=>
                     \/ i > start /\ i <= start + count
                     \/ i <= Len(canGoForward) /\ canGoForward[i]
<1> DEFINE n == Longest(Len(itemList), count)
<1>1. n \in Nat
    BY LenProperties DEF TypeOK, Longest
<1>2. Flags(start, count) \in [1..n -> BOOLEAN]
    BY Zenon DEF Flags
<1>3. ASSUME NEW i \in 1..n
      PROVE  Flags(start, count)[i] = (\/ i > start /\ i <= start + count
                                       \/ i <= Len(canGoForward) /\ canGoForward[i])
    BY Zenon DEF Flags
<1> HIDE DEF n
<1>4. Flags(start, count) \in Seq(BOOLEAN) /\ Len(Flags(start, count)) = n
    BY <1>1, <1>2, SeqOf
<1> QED BY <1>3, <1>4 DEF n

LEMMA TypeModel == TypeOK /\ Model => TypeOK'
<1> SUFFICES ASSUME TypeOK, Model PROVE TypeOK'
    OBVIOUS
<1> USE DEF modelVars, sessionVars, backendVars
<1>1. CASE OnIgnored
    BY <1>1, HeadSignal DEF OnIgnored, Hear, TypeOK
<1>2. CASE OnCapabilitiesChanged
    BY <1>2, HeadSignal DEF OnCapabilitiesChanged, Hear, TypeOK
<1>3. CASE OnCanGoBackChanged
  <2>1. Head(signals).can \in BOOLEAN /\ signals' \in Seq(Signal)
      BY <1>3, HeadSignal, SignalFields DEF OnCanGoBackChanged
  <2> QED BY <1>3, <2>1 DEF OnCanGoBackChanged, Hear, TypeOK
<1>4. CASE OnContentTypeChanged
  <2>1. Head(signals).type \in Types /\ signals' \in Seq(Signal)
      BY <1>4, HeadSignal, SignalFields DEF OnContentTypeChanged
  <2>2. contentType' \in Paths
      BY <1>4, <2>1 DEF OnContentTypeChanged, Paths
  <2>3. queryTerm' \in Terms
      BY <1>4, ParsedIs DEF OnContentTypeChanged, TypeOK
  <2>4. FetchCall(0) \in Call /\ FilterCalls \in Seq(Call) /\ calls \in Seq(Call)
      BY CallsTyped, FilterCallsAre DEF TypeOK, FetchCall
  <2>5. calls \o FilterCalls \in Seq(Call) /\ <<FetchCall(0)>> \in Seq(Call)
      BY <2>4, ConcatProperties
  <2>6. calls \o FilterCalls \o <<FetchCall(0)>> \in Seq(Call)
      BY <2>5, ConcatProperties
  <2>7. <<>> \in Seq(Rows) /\ stale' \subseteq {"flags", "rows"}
      BY <1>4, EmptySeq DEF OnContentTypeChanged, TypeOK
  <2> QED BY <1>4, <2>1, <2>2, <2>3, <2>6, <2>7 DEF OnContentTypeChanged, Hear, TypeOK
<1>5. CASE OnDataFetched
  <2> DEFINE s == Head(signals)
  <2>1. s.items \in Seq(Rows) /\ s.more \in BOOLEAN /\ signals' \in Seq(Signal)
      BY <1>5, HeadSignal, SignalFields DEF OnDataFetched
  <2>2. itemList' \in Seq(Rows) /\ moreAvailable' \in BOOLEAN
      BY <1>5, <2>1, ConcatProperties DEF OnDataFetched, TypeOK
  <2> QED BY <1>5, <2>1, <2>2 DEF OnDataFetched, Hear, TypeOK
<1>6. CASE OnCanGoForwardChanged
  <2> DEFINE s == Head(signals)
  <2>1. s.start \in Nat /\ s.count \in Nat /\ signals' \in Seq(Signal)
      BY <1>6, HeadSignal, SignalFields DEF OnCanGoForwardChanged
  <2>3. canGoForward' = Flags(s.start, s.count)
      BY <1>6 DEF OnCanGoForwardChanged
  <2>4. canGoForward' \in Seq(BOOLEAN)
      BY <2>1, <2>3, FlagsTyped
  <2> QED BY <1>6, <2>1, <2>4 DEF OnCanGoForwardChanged, Hear, TypeOK
<1>7. CASE OnReply
  <2> DEFINE s == Head(signals)
  <2>1. s.type \in Paths /\ signals' \in Seq(Signal)
      BY <1>7, HeadSignal, SignalFields DEF OnReply
  <2>2. CASE s.type # NoType /\ s.inModel
    <3>1. ModelTyped' /\ calls' \in Seq(Call) /\ stale' \subseteq {"flags", "rows"}
        BY <1>7, <2>1, <2>2, UpdateTyped DEF OnReply
    <3> QED BY <1>7, <2>1, <3>1 DEF OnReply, Hear, TypeOK, ModelTyped
  <2>3. CASE ~(s.type # NoType /\ s.inModel)
    <3>1. UNCHANGED <<modelVars, calls, stale>>
        BY <1>7, <2>3 DEF OnReply
    <3> QED BY <1>7, <2>1, <3>1 DEF OnReply, Hear, TypeOK
  <2> QED BY <2>2, <2>3
<1> QED BY <1>1, <1>2, <1>3, <1>4, <1>5, <1>6, <1>7 DEF Model

\* A call changes what the backend keeps of its caller only.
LEMMA StateTyped ==
    ASSUME TypeOK, NEW id \in Session
    PROVE  /\ Fresh \in State
           /\ [state EXCEPT ![id] = Fresh] \in [Session -> State]
           /\ \A type \in Paths :
                 [state EXCEPT ![id].contentType = type] \in [Session -> State]
           /\ \A term \in Terms : [state EXCEPT ![id].term = term] \in [Session -> State]
           /\ \A items \in Seq(Rows) :
                 [state EXCEPT ![id].items = items] \in [Session -> State]
<1>1. Fresh \in State
    BY EmptySeq DEF Fresh, State, Paths, Terms
<1> QED BY <1>1 DEF TypeOK, State

LEMMA TypeBackend == TypeOK /\ Backend => TypeOK'
<1> SUFFICES ASSUME TypeOK, Backend PROVE TypeOK'
    OBVIOUS
<1> USE DEF modelVars, sessionVars
<1>1. CASE RegisterInstance \/ UnregisterInstance
  <2>1. Caller \in Session /\ calls' \in Seq(Call)
      BY <1>1, HeadCall DEF RegisterInstance, UnregisterInstance
  <2>2. state' \in [Session -> State] /\ instances' \subseteq Session
      BY <1>1, <2>1, StateTyped DEF RegisterInstance, UnregisterInstance, TypeOK
  <2> QED BY <1>1, <2>1, <2>2 DEF RegisterInstance, UnregisterInstance, Take, TypeOK
<1>2. CASE ServeSetContentType
  <2> DEFINE type == Head(calls).type
             told == <<[kind |-> "canGoBackChanged", id |-> Caller,
                        can |-> Parent[type] # NoType],
                       [kind |-> "contentTypeChanged", id |-> Caller, type |-> type]>>
  <2>1. Caller \in Session /\ calls' \in Seq(Call) /\ type \in Paths
      BY <1>2, HeadCall, CallFields DEF ServeSetContentType
  <2>2. state' \in [Session -> State] /\ instances' \subseteq Session
      BY <1>2, <2>1, StateTyped DEF ServeSetContentType, TypeOK
  <2>3. \/ signals' = signals
        \/ type \in Types /\ signals' = signals \o told
      BY <1>2 DEF ServeSetContentType
  <2>4. type \in Types => told \in Seq(Signal)
    <3>1. [kind |-> "canGoBackChanged", id |-> Caller, can |-> Parent[type] # NoType]
            \in Signal
        BY <2>1 DEF Signal
    <3>2. type \in Types =>
              [kind |-> "contentTypeChanged", id |-> Caller, type |-> type] \in Signal
        BY <2>1 DEF Signal
    <3> QED BY <3>1, <3>2
  <2> HIDE DEF told, type
  <2>5. signals' \in Seq(Signal)
      BY <2>3, <2>4, ConcatProperties DEF TypeOK
  <2> QED BY <1>2, <2>1, <2>2, <2>5 DEF ServeSetContentType, Take, TypeOK
<1>3. CASE ServeSetupFilter
  <2>1. Caller \in Session /\ calls' \in Seq(Call) /\ Head(calls).term \in Terms
      BY <1>3, HeadCall, CallFields DEF ServeSetupFilter
  <2>2. state' \in [Session -> State] /\ instances' \subseteq Session
      BY <1>3, <2>1, StateTyped DEF ServeSetupFilter, TypeOK
  <2> QED BY <1>3, <2>1, <2>2 DEF ServeSetupFilter, Take, TypeOK
<1>4. CASE ServeFetchData
  <2> DEFINE job == [id |-> Caller, type |-> state[Caller].contentType,
                     term |-> state[Caller].term, start |-> Head(calls).start,
                     fetched |-> FALSE]
             told == [kind |-> "supportedCapabilitiesChanged", id |-> Caller]
  <2>1. Caller \in Session /\ calls' \in Seq(Call) /\ Head(calls).start \in Nat
      BY <1>4, HeadCall, CallFields DEF ServeFetchData
  <2>2. job \in Job
      BY <2>1 DEF TypeOK, State, Job
  <2>3. told \in Signal
      BY <2>1 DEF Signal
  <2>4. signals' = Append(signals, told) /\ (jobs' = jobs \/ jobs' = Append(jobs, job))
      BY <1>4 DEF ServeFetchData
  <2> HIDE DEF job, told
  <2>5. signals' \in Seq(Signal)
      BY <2>3, <2>4, AppendAt DEF TypeOK
  <2>6. Append(jobs, job) \in Seq(Job)
      BY <2>2, AppendAt DEF TypeOK
  <2>7. jobs' \in Seq(Job)
      BY <2>4, <2>6 DEF TypeOK
  <2> QED BY <1>4, <2>1, <2>5, <2>7 DEF ServeFetchData, Take, TypeOK
<1>5. CASE ServeGoBack
  <2>1. Caller \in Session /\ calls' \in Seq(Call)
      BY <1>5, HeadCall DEF ServeGoBack
  <2>2. Back(Caller) \in Paths /\ NoType \in Paths
      BY <2>1, BrowseAssumption DEF Back, TypeOK, State, Paths
  <2>3. [kind |-> "reply", type |-> Back(Caller), expected |-> NoType, inModel |-> TRUE]
          \in Signal
      BY <2>2 DEF Signal
  <2>4. signals' \in Seq(Signal) /\ instances' \subseteq Session
      BY <1>5, <2>1, <2>3, AppendAt DEF ServeGoBack, TypeOK
  <2> QED BY <1>5, <2>1, <2>4 DEF ServeGoBack, Take, TypeOK
<1>6. CASE ServeGoForward
  <2> DEFINE c == Head(calls)
  <2>1. /\ Caller \in Session /\ calls' \in Seq(Call)
        /\ c.index \in Nat /\ c.expected \in Paths /\ c.inModel \in BOOLEAN
      BY <1>6, HeadCall, CallFields DEF ServeGoForward
  <2>2. Forward(Caller, c.index) \in Paths
    <3>1. CASE state[Caller].contentType \in Browsable
               /\ c.index < Len(state[Caller].items)
      <4>1. state[Caller].items \in Seq(Rows)
          BY <2>1 DEF TypeOK, State
      <4>2. c.index + 1 \in 1..Len(state[Caller].items)
          BY <2>1, <3>1, <4>1, LenProperties
      <4>3. state[Caller].items[c.index + 1] \in Rows
          BY <4>1, <4>2, ElementOfSeq
      <4> QED BY <3>1, <4>3, BrowseAssumption DEF Forward, Paths
    <3>2. CASE ~(state[Caller].contentType \in Browsable
                 /\ c.index < Len(state[Caller].items))
        BY <3>2 DEF Forward, Paths
    <3> QED BY <3>1, <3>2
  <2>3. [kind |-> "reply", type |-> Forward(Caller, c.index), expected |-> c.expected,
         inModel |-> c.inModel] \in Signal
      BY <2>1, <2>2 DEF Signal
  <2>4. signals' \in Seq(Signal) /\ instances' \subseteq Session
      BY <1>6, <2>1, <2>3, AppendAt DEF ServeGoForward, TypeOK
  <2> QED BY <1>6, <2>1, <2>4 DEF ServeGoForward, Take, TypeOK
<1> QED BY <1>1, <1>2, <1>3, <1>4, <1>5, <1>6 DEF Backend

\* The job at the head of the worker's queue, once its page is announced.
Begun(job) == [job EXCEPT !.fetched = TRUE]

LEMMA SearchLeaves ==
    ASSUME TypeOK, Search
    PROVE  /\ Head(jobs) \in Job /\ Head(jobs) = jobs[1] /\ 1 \in DOMAIN jobs
           /\ Begun(Head(jobs)) \in Job
           /\ jobs' \in Seq(Job) /\ DOMAIN jobs' = DOMAIN jobs
           /\ \A i \in DOMAIN jobs : i \in Nat /\ i > 0
           /\ jobs'[1] = Begun(Head(jobs))
           /\ \A i \in DOMAIN jobs : i # 1 => jobs'[i] = jobs[i]
<1> DEFINE b == Begun(Head(jobs))
<1>1. jobs \in Seq(Job) /\ jobs # <<>> /\ jobs' = <<b>> \o Tail(jobs)
    BY DEF TypeOK, Search, Begun
<1>2. /\ Head(jobs) \in Job /\ Head(jobs) = jobs[1] /\ Tail(jobs) \in Seq(Job)
      /\ Len(Tail(jobs)) = Len(jobs) - 1 /\ Len(jobs) \in Nat \ {0}
      /\ \A i \in 1..Len(Tail(jobs)) : Tail(jobs)[i] = jobs[i + 1]
      /\ DOMAIN jobs = 1..Len(jobs)
    BY <1>1, HeadTailProperties, LenProperties, EmptySeq
<1>3. b \in Job
    BY <1>2 DEF Begun, Job
<1> HIDE DEF b
<1>4. <<b>> \in Seq(Job) /\ Len(<<b>>) = 1 /\ <<b>>[1] = b
    BY <1>3
<1>5. /\ jobs' \in Seq(Job) /\ Len(jobs') = 1 + (Len(jobs) - 1)
      /\ \A i \in 1..1 + (Len(jobs) - 1) :
            jobs'[i] = IF i <= 1 THEN <<b>>[i] ELSE Tail(jobs)[i - 1]
    BY <1>1, <1>2, <1>4, ConcatProperties
<1>6. DOMAIN jobs' = 1..Len(jobs)
    BY <1>2, <1>5, LenProperties
<1>7. ASSUME NEW i \in 1..Len(jobs), i # 1 PROVE jobs'[i] = jobs[i]
  <2>1. i - 1 \in 1..Len(Tail(jobs)) /\ ~(i <= 1) /\ i \in 1..1 + (Len(jobs) - 1)
        /\ (i - 1) + 1 = i
      BY <1>2, <1>7
  <2> QED BY <1>2, <1>5, <2>1
<1> QED BY <1>2, <1>3, <1>4, <1>5, <1>6, <1>7 DEF b

LEMMA TypeWorker == TypeOK /\ (Search \/ Record) => TypeOK'
<1> SUFFICES ASSUME TypeOK, Search \/ Record PROVE TypeOK'
    OBVIOUS
<1> USE DEF modelVars, sessionVars
<1> DEFINE job == Head(jobs)
<1>1. job \in Job /\ Tail(jobs) \in Seq(Job)
    BY TailAt DEF TypeOK, Search, Record
<1>2. /\ job.id \in Session /\ job.start \in Nat
      /\ Page(job) \in Seq(Rows) /\ Len(Page(job)) \in Nat
    BY <1>1, JobFields
<1>3. CASE Search
  <2>1. [kind |-> "dataFetched", id |-> job.id, items |-> Page(job), start |-> job.start,
         more |-> HasMore(Page(job))] \in Signal
      BY <1>2 DEF Signal, HasMore
  <2>2. signals' \in Seq(Signal)
      BY <1>3, <2>1, AppendAt DEF Search, TypeOK
  <2>3. jobs' \in Seq(Job)
      BY <1>3, SearchLeaves
  <2> QED BY <1>3, <2>2, <2>3 DEF Search, TypeOK
<1>4. CASE Record
  <2>1. [kind |-> "canGoForwardChanged", id |-> job.id, start |-> FirstFlag(job),
         count |-> Len(Page(job))] \in Signal
      BY <1>2 DEF Signal, FirstFlag
  <2>2. signals' \in Seq(Signal)
      BY <1>4, <2>1, AppendAt DEF Record, TypeOK
  <2>3. Kept(state[job.id].items, Page(job), job.start) \in Seq(Rows)
      BY <1>2, KeptIs DEF TypeOK, State
  <2>4. state' = [state EXCEPT ![job.id].items = Kept(state[job.id].items, Page(job), job.start)]
      BY <1>2, <1>4 DEF Record, TypeOK, State
  <2>5. state' \in [Session -> State] /\ instances' \subseteq Session
      BY <1>2, <1>4, <2>3, <2>4, StateTyped DEF Record, TypeOK
  <2> QED BY <1>1, <1>4, <2>2, <2>5 DEF Record, TypeOK
<1> QED BY <1>3, <1>4

LEMMA TypeNext == TypeOK /\ [Next]_vars => TypeOK'
<1>1. TypeOK /\ UNCHANGED vars => TypeOK'
    BY DEF TypeOK, vars, modelVars, sessionVars, backendVars
<1> QED BY <1>1, TypeUser, TypeModel, TypeBackend, TypeWorker DEF Next

(* In every state the queues hold well formed calls, signals and searches,   *)
(* all of identifiers that have been created, and the rows are rows.         *)
THEOREM TypeCorrect == Spec => []TypeOK
<1> QED BY TypeInit, TypeNext, PTL DEF Spec

------------------------------------------------------------------------------
(* Model and backend agree in the end.                                       *)

(* Identifiers: those in the queues have been created, and only a session    *)
(* that is over is unregistered.  Without a connection the session has not   *)
(* been used; before the initialization nothing of it has been heard.        *)
IdsKnown ==
    /\ \A c \in Range(calls) : c.id <= identifier
    /\ \A c \in Range(calls) : c.kind = "unregisterInstance" => c.id # identifier
    /\ \A j \in Range(jobs) : j.id <= identifier
    /\ \A s \in Range(signals) : s.kind # "reply" => s.id <= identifier
    /\ \A id \in Session : id > identifier => state[id] = Fresh

Unheard ==
    ~initialized =>
        /\ contentType = NoType /\ queryTerm = NoQuery
        /\ canGoForward = <<>> /\ itemList = <<>>

Unused ==
    ~connected =>
        /\ ~initialized /\ state[identifier] = Fresh
        /\ \A c \in Range(calls) : c.id # identifier
        /\ \A j \in Range(jobs) : j.id # identifier
        /\ \A s \in Range(signals) : s.kind # "reply" => s.id # identifier

SessionInv == IdsKnown /\ Unheard /\ Unused

\* e of S is in the queue s, as the last one of S there; none of S is there.
LastIn(s, e, S) ==
    e \in S /\ \E i \in DOMAIN s : s[i] = e /\ \A j \in DOMAIN s : j > i => s[j] \notin S
NoneIn(s, S) == \A i \in DOMAIN s : s[i] \notin S

\* The calls that set the content type or the term the backend has for this
\* session, and the signals that set what the model has.
TypeCalls == {c \in Call : c.id = identifier
                             /\ c.kind \in {"setContentType", "registerInstance"}}
TermCalls == {c \in Call : c.id = identifier
                             /\ c.kind \in {"setupFilter", "registerInstance"}}
TypeSignals == {s \in Signal : s.kind = "contentTypeChanged" /\ s.id = identifier}
BackSignals == {s \in Signal : s.kind = "canGoBackChanged" /\ s.id = identifier}

RegisterCall == [kind |-> "registerInstance", id |-> identifier]
TypeSignal(type) == [kind |-> "contentTypeChanged", id |-> identifier, type |-> type]
LeadsBack(type) == type \in Types /\ Parent[type] # NoType
BackSignal(type) ==
    [kind |-> "canGoBackChanged", id |-> identifier, can |-> LeadsBack(type)]

\* The model has, or will have, the content type asked for, and the term of
\* its query if that is none.
ModelAgrees ==
    \/ LastIn(signals, TypeSignal(requested), TypeSignals)
    \/ /\ NoneIn(signals, TypeSignals)
       /\ contentType = requested
       /\ query = NoQuery => queryTerm = NoQuery

BackAgrees ==
    \/ LastIn(signals, BackSignal(requested), BackSignals)
    \/ NoneIn(signals, BackSignals) /\ (canGoBack <=> LeadsBack(requested))

\* So has, or will have, the backend.
TypeAgrees ==
    initialized =>
        \/ LastIn(calls, SetContentTypeCall(requested), TypeCalls)
        \/ /\ NoneIn(calls, TypeCalls)
           /\ state[identifier].contentType = requested
           /\ ModelAgrees /\ BackAgrees

TermAgrees ==
    initialized =>
        \/ LastIn(calls, SetupFilterCall(queryTerm), TermCalls)
        \/ LastIn(calls, RegisterCall, TermCalls) /\ queryTerm = NoQuery
        \/ NoneIn(calls, TermCalls) /\ state[identifier].term = queryTerm

\* A session that has not asked for a content type has none.
Unasked ==
    requested = NoType =>
        /\ contentType = NoType /\ queryTerm = NoQuery /\ ~canGoBack
        /\ NoneIn(signals, TypeSignals) /\ NoneIn(signals, BackSignals)
        /\ \A c \in Range(calls) : c.kind = "setContentType" /\ c.id = identifier
                                      => c.type = NoType

AgreeInv == TypeAgrees /\ TermAgrees /\ Unasked

\* An entry that is not of S comes or goes: what holds of S stays.
Beside(s, t, S) ==
    (\A e \in S : LastIn(s, e, S) => LastIn(t, e, S)) /\ (NoneIn(s, S) => NoneIn(t, S))

LEMMA AppendBeside ==
    ASSUME NEW T, NEW s \in Seq(T), NEW e \in T, NEW S
    PROVE  /\ e \notin S => Beside(s, Append(s, e), S)
           /\ e \in S => LastIn(Append(s, e), e, S)
           /\ Append(s, e) \in Seq(T)
<1> DEFINE t == Append(s, e)
<1>1. /\ t \in Seq(T) /\ Len(s) \in Nat /\ DOMAIN s = 1..Len(s)
      /\ \A i \in DOMAIN s : i \in Nat /\ i < Len(s) + 1 /\ i \in DOMAIN t /\ t[i] = s[i]
      /\ \A i \in DOMAIN t : \/ i \in DOMAIN s /\ t[i] = s[i]
                             \/ i = Len(s) + 1 /\ t[i] = e
      /\ Len(s) + 1 \in DOMAIN t /\ t[Len(s) + 1] = e
    BY AppendAt, LenProperties
<1> HIDE DEF t
<1>2. ASSUME e \notin S, NEW x \in S, LastIn(s, x, S) PROVE LastIn(t, x, S)
  <2>1. PICK i \in DOMAIN s : s[i] = x /\ \A j \in DOMAIN s : j > i => s[j] \notin S
      BY <1>2 DEF LastIn
  <2>2. i \in DOMAIN t /\ t[i] = x
      BY <1>1, <2>1
  <2>3. \A j \in DOMAIN t : j > i => t[j] \notin S
      BY <1>1, <1>2, <2>1
  <2> QED BY <1>2, <2>2, <2>3 DEF LastIn
<1>3. e \notin S /\ NoneIn(s, S) => NoneIn(t, S)
    BY <1>1 DEF NoneIn
<1>4. e \in S => LastIn(t, e, S)
  <2>1. \A j \in DOMAIN t : ~(j > Len(s) + 1)
      BY <1>1
  <2> QED BY <1>1, <2>1 DEF LastIn
<1> QED BY <1>1, <1>2, <1>3, <1>4 DEF Beside, t

LEMMA TailBeside ==
    ASSUME NEW T, NEW s \in Seq(T), s # <<>>, NEW S
    PROVE  /\ Head(s) \notin S => Beside(s, Tail(s), S)
           /\ \A e \in S : LastIn(s, e, S) =>
                 LastIn(Tail(s), e, S) \/ (Head(s) = e /\ NoneIn(Tail(s), S))
           /\ NoneIn(s, S) => NoneIn(Tail(s), S) /\ Head(s) \notin S
           /\ Tail(s) \in Seq(T)
<1> DEFINE t == Tail(s)
<1>1. /\ t \in Seq(T) /\ 1 \in DOMAIN s /\ Head(s) = s[1]
      /\ \A i \in DOMAIN t : i \in Nat /\ i > 0 /\ i + 1 \in DOMAIN s /\ t[i] = s[i + 1]
      /\ \A i \in DOMAIN s : /\ i \in Nat /\ i > 0
                             /\ i = 1 \/ (i - 1 \in DOMAIN t /\ t[i - 1] = s[i])
    BY TailAt
<1> HIDE DEF t
<1>2. NoneIn(s, S) => NoneIn(t, S) /\ Head(s) \notin S
    BY <1>1 DEF NoneIn
<1>3. ASSUME NEW e \in S, LastIn(s, e, S)
      PROVE  LastIn(t, e, S) \/ (Head(s) = e /\ NoneIn(t, S))
  <2>1. PICK i \in DOMAIN s : s[i] = e /\ \A j \in DOMAIN s : j > i => s[j] \notin S
      BY <1>3 DEF LastIn
  <2>2. CASE i = 1
    <3>1. ASSUME NEW j \in DOMAIN t PROVE t[j] \notin S
      <4>1. j \in Nat /\ j > 0 /\ j + 1 \in DOMAIN s /\ t[j] = s[j + 1]
          BY <1>1
      <4>2. j + 1 > i
          BY <2>2, <4>1
      <4> QED BY <2>1, <4>1, <4>2
    <3> QED BY <1>1, <2>1, <2>2, <3>1 DEF NoneIn
  <2>3. CASE i # 1
    <3>1. i \in Nat /\ i - 1 \in DOMAIN t /\ t[i - 1] = e
        BY <1>1, <2>1, <2>3
    <3>2. ASSUME NEW j \in DOMAIN t, j > i - 1 PROVE t[j] \notin S
      <4>1. j \in Nat /\ j + 1 \in DOMAIN s /\ t[j] = s[j + 1]
          BY <1>1
      <4>2. j + 1 > i
          BY <3>1, <3>2, <4>1
      <4> QED BY <2>1, <4>1, <4>2
    <3> QED BY <1>3, <3>1, <3>2 DEF LastIn
  <2> QED BY <2>2, <2>3
<1> QED BY <1>1, <1>2, <1>3 DEF Beside, t

\* What is in a queue after an entry has come or gone.
LEMMA RangeAppend ==
    ASSUME NEW T, NEW s \in Seq(T), NEW e \in T
    PROVE  Append(s, e) \in Seq(T) /\ Range(Append(s, e)) = Range(s) \cup {e}
<1>1. Append(s, e) \in Seq(T)
    BY AppendAt
<1>2. ASSUME NEW x \in Range(Append(s, e)) PROVE x \in Range(s) \cup {e}
  <2>1. PICK i \in DOMAIN Append(s, e) : x = Append(s, e)[i]
      BY DEF Range
  <2> QED BY <2>1, AppendAt DEF Range
<1>3. ASSUME NEW x \in Range(s) \cup {e} PROVE x \in Range(Append(s, e))
    BY AppendAt DEF Range
<1> QED BY <1>1, <1>2, <1>3

LEMMA RangeAppendTwo ==
    ASSUME NEW T, NEW s \in Seq(T), NEW e \in T, NEW f \in T
    PROVE  /\ Append(s, e) \in Seq(T)
           /\ Range(Append(Append(s, e), f)) = Range(s) \cup {e, f}
<1> DEFINE t == Append(s, e)
<1>1. t \in Seq(T) /\ Range(t) = Range(s) \cup {e}
    BY RangeAppend
<1> HIDE DEF t
<1>2. Range(Append(t, f)) = Range(t) \cup {f}
    BY <1>1, RangeAppend
<1>3. Range(Append(t, f)) = Range(s) \cup {e, f}
    BY <1>1, <1>2
<1> QED BY <1>1, <1>3 DEF t

LEMMA RangeTail ==
    ASSUME NEW T, NEW s \in Seq(T), s # <<>>
    PROVE  /\ Range(Tail(s)) \subseteq Range(s) /\ Head(s) \in Range(s)
           /\ Range(s) \subseteq Range(Tail(s)) \cup {Head(s)}
           /\ Range(s) \subseteq T
<1>1. ASSUME NEW x \in Range(Tail(s)) PROVE x \in Range(s)
  <2>1. PICK i \in DOMAIN Tail(s) : x = Tail(s)[i]
      BY DEF Range
  <2> QED BY <2>1, TailAt DEF Range
<1>2. Head(s) \in Range(s)
    BY TailAt DEF Range
<1>3. ASSUME NEW x \in Range(s) PROVE x \in Range(Tail(s)) \cup {Head(s)} /\ x \in T
  <2>1. PICK i \in DOMAIN s : x = s[i]
      BY DEF Range
  <2>2. CASE i = 1
      BY <2>1, <2>2, TailAt
  <2>3. CASE i # 1
    <3>1. i - 1 \in DOMAIN Tail(s) /\ Tail(s)[i - 1] = x
        BY <2>1, <2>3, TailAt
    <3>2. x \in Range(Tail(s))
        BY <3>1 DEF Range
    <3>3. x \in T
        BY <2>1, ElementOfSeq, LenProperties
    <3> QED BY <3>2, <3>3
  <2> QED BY <2>2, <2>3
<1> QED BY <1>1, <1>2, <1>3

LEMMA Taken ==
    ASSUME TypeOK, NEW kind, Take(kind)
    PROVE  Head(calls) \in Range(calls) /\ Range(calls') \subseteq Range(calls)
    BY RangeTail DEF TypeOK, Take

LEMMA Heard ==
    ASSUME TypeOK, NEW kind, Hear(kind)
    PROVE  Head(signals) \in Range(signals) /\ Range(signals') \subseteq Range(signals)
    BY RangeTail DEF TypeOK, Hear

\* What no step but a change of connection and the initialization does.
OfSomeone(id) == \E o \in Range(calls) \cup Range(jobs) : id = o.id

SameSession ==
    /\ UNCHANGED <<connected, initialized, identifier>>
    /\ \A c \in Range(calls') : c \in Range(calls)
          \/ (connected /\ c.id = identifier /\ c.kind # "unregisterInstance")
    /\ \A j \in Range(jobs') : OfSomeone(j.id)
    /\ \A s \in Range(signals') :
          s \in Range(signals) \/ s.kind = "reply" \/ OfSomeone(s.id)
    /\ \A id \in Session : state'[id] = state[id] \/ OfSomeone(id)
    /\ ~initialized => /\ contentType' = contentType /\ queryTerm' = queryTerm
                       /\ canGoForward' = <<>> /\ itemList' = itemList

LEMMA SessionKept == TypeOK /\ SessionInv /\ SameSession => SessionInv'
<1> SUFFICES ASSUME TypeOK, SessionInv, SameSession PROVE SessionInv'
    OBVIOUS
<1>1. identifier \in Nat /\ \A id \in Session : id \in Nat
    BY DEF TypeOK, Session
<1>2. ASSUME NEW id, OfSomeone(id) PROVE id <= identifier
    BY <1>2 DEF OfSomeone, SessionInv, IdsKnown
<1>3. IdsKnown'
  <2>1. \A c \in Range(calls') :
            c.id <= identifier /\ (c.kind = "unregisterInstance" => c.id # identifier)
      BY <1>1 DEF SessionInv, IdsKnown, SameSession
  <2>2. \A j \in Range(jobs') : j.id <= identifier
      BY <1>2 DEF SameSession
  <2>3. \A s \in Range(signals') : s.kind # "reply" => s.id <= identifier
      BY <1>2 DEF SessionInv, IdsKnown, SameSession
  <2>4. \A id \in Session : id > identifier => state'[id] = Fresh
      BY <1>1, <1>2 DEF SessionInv, IdsKnown, SameSession
  <2> QED BY <2>1, <2>2, <2>3, <2>4 DEF IdsKnown, SameSession
<1>4. Unheard'
    BY DEF SessionInv, Unheard, SameSession
<1>5. Unused'
  <2> SUFFICES ASSUME ~connected PROVE Unused'
      BY DEF Unused, SameSession
  <2>1. ~OfSomeone(identifier)
      BY DEF OfSomeone, SessionInv, Unused
  <2>2. state'[identifier] = Fresh
      BY <2>1 DEF SameSession, SessionInv, Unused, TypeOK
  <2>3. \A j \in Range(jobs') : j.id # identifier
      BY <2>1 DEF SameSession
  <2>4. \A s \in Range(signals') : s.kind # "reply" => s.id # identifier
      BY <2>1 DEF SessionInv, Unused, SameSession
  <2> QED BY <2>2, <2>3, <2>4 DEF SessionInv, Unused, SameSession
<1> QED BY <1>3, <1>4, <1>5 DEF SessionInv

LEMMA SessionInit == Init => SessionInv
<1> SUFFICES ASSUME Init PROVE SessionInv
    OBVIOUS
<1>1. Range(<<>>) = {}
    BY DEF Range
<1>2. identifier \in Session
    BY TypeInit DEF TypeOK
<1> QED BY <1>1, <1>2 DEF Init, SessionInv, IdsKnown, Unheard, Unused

\* Calls of the session there is, and nothing else.
LEMMA AskForSends ==
    ASSUME TypeOK, NEW type \in Paths, AskFor(type)
    PROVE  /\ ~connected => calls' = calls
           /\ connected => calls' = Append(calls, SetContentTypeCall(type))
           /\ SetContentTypeCall(type) \in Call
           /\ \A c \in Range(calls') : c \in Range(calls)
                 \/ (connected /\ c = SetContentTypeCall(type))
<1>1. SetContentTypeCall(type) \in Call
    BY CallsTyped DEF TypeOK, SetContentTypeCall
<1> QED BY <1>1, RangeAppend DEF AskFor, TypeOK

\* The initialization sends two calls.
LEMMA Initializes ==
    ASSUME TypeOK, OnInitializationDone
    PROVE  /\ RegisterCall \in Call /\ SetContentTypeCall(requested) \in Call
           /\ calls' = Append(Append(calls, RegisterCall), SetContentTypeCall(requested))
           /\ Append(calls, RegisterCall) \in Seq(Call)
           /\ Range(calls') = Range(calls)
                  \cup {RegisterCall, SetContentTypeCall(requested)}
<1> DEFINE c == SetContentTypeCall(requested)
<1>1. RegisterCall \in Call /\ c \in Call /\ calls \in Seq(Call)
    BY CallsTyped DEF TypeOK, SetContentTypeCall, RegisterCall
<1>2. calls' = calls \o <<RegisterCall, c>>
    BY DEF OnInitializationDone, RegisterCall
<1> HIDE DEF c, RegisterCall
<1>3. calls' = Append(Append(calls, RegisterCall), c)
    BY <1>1, <1>2
<1>4. Append(calls, RegisterCall) \in Seq(Call)
      /\ Range(Append(Append(calls, RegisterCall), c)) = Range(calls) \cup {RegisterCall, c}
    BY <1>1, RangeAppendTwo
<1>5. Range(calls') = Range(calls) \cup {RegisterCall, c}
    BY <1>3, <1>4, Zenon
<1> QED BY <1>1, <1>3, <1>4, <1>5 DEF c

\* A confirmation has the query set up, if it parses, and the list fetched.
LEMMA Confirms ==
    ASSUME TypeOK, OnContentTypeChanged
    PROVE  /\ Parsed = {} => calls' = Append(calls, FetchCall(0))
           /\ Parsed # {} =>
                 /\ calls' = Append(Append(calls, SetupFilterCall(query)), FetchCall(0))
                 /\ SetupFilterCall(query) \in Call
                 /\ Append(calls, SetupFilterCall(query)) \in Seq(Call)
           /\ FetchCall(0) \in Call
           /\ Range(calls) \subseteq Range(calls')
           /\ Range(calls') \subseteq Range(calls)
                  \cup {SetupFilterCall(query), FetchCall(0)}
<1> DEFINE f == SetupFilterCall(query)
           c == FetchCall(0)
<1>1. c \in Call /\ calls \in Seq(Call) /\ calls' = calls \o FilterCalls \o <<c>>
    BY CallsTyped DEF TypeOK, FetchCall, OnContentTypeChanged
<1>2. CASE Parsed = {}
  <2>1. FilterCalls = <<>>
      BY <1>2, FilterCallsAre
  <2> HIDE DEF c
  <2>2. calls' = Append(calls, c)
      BY <1>1, <2>1
  <2>3. Range(Append(calls, c)) = Range(calls) \cup {c}
      BY <1>1, RangeAppend
  <2> QED BY <1>1, <1>2, <2>2, <2>3 DEF c
<1>3. CASE Parsed # {}
  <2>1. FilterCalls = <<f>> /\ f \in Call
      BY <1>3, FilterCallsAre, ParsedIs, CallsTyped DEF SetupFilterCall, TypeOK
  <2> HIDE DEF c, f
  <2>2. calls' = Append(Append(calls, f), c)
    <3>1. calls' = calls \o <<f>> \o <<c>>
        BY <1>1, <2>1
    <3>2. calls \o <<f>> = Append(calls, f)
        BY <1>1, <2>1, AppendIsConcat
    <3>3. Append(calls, f) \o <<c>> = Append(Append(calls, f), c)
        BY <1>1, <2>1, AppendProperties, AppendIsConcat
    <3> QED BY <3>1, <3>2, <3>3, Zenon
  <2>3. Append(calls, f) \in Seq(Call)
        /\ Range(Append(Append(calls, f), c)) = Range(calls) \cup {f, c}
      BY <1>1, <2>1, RangeAppendTwo
  <2>4. Range(calls') = Range(calls) \cup {f, c}
      BY <2>2, <2>3, Zenon
  <2> QED BY <1>1, <1>3, <2>1, <2>2, <2>3, <2>4 DEF c, f
<1> QED BY <1>2, <1>3

LEMMA UpdateSends ==
    ASSUME TypeOK, NEW type \in Paths, UpdateContentType(type)
    PROVE  /\ \A c \in Range(calls') : c \in Range(calls)
                 \/ (connected /\ c.id = identifier /\ c.kind # "unregisterInstance")
           /\ contentType' = contentType /\ queryTerm' = queryTerm
           /\ canGoForward' = <<>> /\ itemList' = itemList
<1>1. AskFor(type)
    BY DEF UpdateContentType
<1>2. /\ SetContentTypeCall(type).id = identifier
      /\ SetContentTypeCall(type).kind # "unregisterInstance"
    BY DEF SetContentTypeCall
<1>3. \A c \in Range(calls') : c \in Range(calls)
          \/ (connected /\ c.id = identifier /\ c.kind # "unregisterInstance")
    BY <1>1, <1>2, AskForSends
<1> QED BY <1>3 DEF UpdateContentType

LEMMA SessionUser ==
    TypeOK /\ SessionInv /\ (User \/ OnInitializationDone \/ FetchMore) => SessionInv'
<1> SUFFICES ASSUME TypeOK, SessionInv, User \/ OnInitializationDone \/ FetchMore
             PROVE  SessionInv'
    OBVIOUS
<1> USE DEF modelVars, sessionVars, backendVars
<1> DEFINE NewCall == \A c \in Range(calls') : c \in Range(calls)
               \/ (connected /\ c.id = identifier /\ c.kind # "unregisterInstance")
           RestSame == /\ UNCHANGED <<sessionVars, backendVars, signals>>
                       /\ UNCHANGED <<contentType, queryTerm, itemList>>
                       /\ ~initialized => canGoForward' = <<>>
<1>0. NewCall /\ RestSame => SessionInv'
  <2> SUFFICES ASSUME NewCall, RestSame PROVE SameSession
      BY SessionKept
  <2> QED BY DEF SameSession, OfSomeone
<1>e. ASSUME NEW c \in Call, connected, c.id = identifier, c.kind # "unregisterInstance",
             calls' = Append(calls, c)
      PROVE  NewCall
  <2>1. Range(Append(calls, c)) = Range(calls) \cup {c}
      BY RangeAppend DEF TypeOK
  <2> QED BY <1>e, <2>1
<1>u. ~initialized => canGoForward = <<>>
    BY DEF SessionInv, Unheard
<1> HIDE DEF NewCall
<1>1. CASE Connect
  <2>1. Unused' /\ Unheard' /\ IdsKnown'
      BY <1>1 DEF Connect, SessionInv, Unused, Unheard, IdsKnown
  <2> QED BY <2>1 DEF SessionInv
<1>2. CASE Disconnect
  <2> DEFINE c == [kind |-> "unregisterInstance", id |-> identifier]
  <2>1. c \in Call /\ calls' = Append(calls, c)
      BY <1>2, CallsTyped DEF Disconnect, TypeOK
  <2>2. Range(Append(calls, c)) = Range(calls) \cup {c}
      BY <2>1, RangeAppend DEF TypeOK
  <2>3. identifier \in Nat /\ identifier' = identifier + 1 /\ identifier' \in Session
      BY <1>2, TypeUser DEF Disconnect, TypeOK, Session, User
  <2>4. \A d \in Range(calls') : d.id \in Nat /\ d.id <= identifier
    <3>1. calls \in Seq(Call)
        BY DEF TypeOK
    <3>2. \A d \in Range(calls) : d \in Call
        BY <3>1, ElementOfSeq, LenProperties DEF Range
    <3> QED BY <2>1, <2>2, <2>3, <3>2, CallFields DEF SessionInv, IdsKnown, Session
  <2>5. \A j \in Range(jobs) : j.id \in Nat /\ j.id <= identifier
    <3>1. jobs \in Seq(Job)
        BY DEF TypeOK
    <3>2. \A j \in Range(jobs) : j \in Job
        BY <3>1, ElementOfSeq, LenProperties DEF Range
    <3> QED BY <3>2 DEF SessionInv, IdsKnown, Job, Session
  <2>6. \A s \in Range(signals) : s.kind # "reply" => s.id \in Nat /\ s.id <= identifier
    <3>1. signals \in Seq(Signal)
        BY DEF TypeOK
    <3>2. \A s \in Range(signals) : s \in Signal
        BY <3>1, ElementOfSeq, LenProperties DEF Range
    <3> QED BY <3>2, SignalFields DEF SessionInv, IdsKnown, Session
  <2>7. IdsKnown'
    <3>1. \A id \in Session : id > identifier + 1 => state[id] = Fresh
        BY <2>3 DEF SessionInv, IdsKnown, Session
    <3>2. jobs' = jobs /\ signals' = signals /\ state' = state
        BY <1>2 DEF Disconnect
    <3>3. \A d \in Range(calls') : d.id <= identifier + 1 /\ d.id # identifier + 1
        BY <2>3, <2>4
    <3>4. \A j \in Range(jobs) : j.id <= identifier + 1
        BY <2>3, <2>5
    <3>5. \A s \in Range(signals) : s.kind # "reply" => s.id <= identifier + 1
        BY <2>3, <2>6
    <3> QED BY <2>3, <3>1, <3>2, <3>3, <3>4, <3>5 DEF IdsKnown
  <2>8. Unheard'
      BY <1>2 DEF Disconnect, Unheard
  <2>9. Unused'
    <3>1. jobs' = jobs /\ signals' = signals /\ state' = state /\ ~initialized'
        BY <1>2 DEF Disconnect
    <3>2. state[identifier + 1] = Fresh
        BY <2>3 DEF SessionInv, IdsKnown
    <3>3. \A d \in Range(calls') : d.id # identifier + 1
        BY <2>3, <2>4
    <3>4. \A j \in Range(jobs) : j.id # identifier + 1
        BY <2>3, <2>5
    <3>5. \A s \in Range(signals) : s.kind # "reply" => s.id # identifier + 1
        BY <2>3, <2>6
    <3> QED BY <2>3, <3>1, <3>2, <3>3, <3>4, <3>5 DEF Unused
  <2> QED BY <2>7, <2>8, <2>9 DEF SessionInv
<1>3. CASE GoBack
  <2>1. [kind |-> "goBack", id |-> identifier] \in Call
      BY CallsTyped DEF TypeOK
  <2>2. NewCall
      BY <1>3, <1>e, <2>1 DEF GoBack
  <2> QED BY <1>0, <1>3, <1>u, <2>2 DEF GoBack
<1>4. ASSUME NEW type \in Offered, SetContentType(type) PROVE SessionInv'
  <2>1. type \in Paths
      BY BrowseAssumption DEF Paths
  <2>2. NewCall /\ canGoForward' = <<>>
      BY <1>4, <2>1, UpdateSends DEF SetContentType, NewCall
  <2> QED BY <1>0, <1>4, <2>1, <2>2, UpdateSends DEF SetContentType
<1>5. ASSUME NEW new \in Terms \cup Unparsable, SetQuery(new) PROVE SessionInv'
  <2>1. NewCall
    <3>1. AskFor(requested) /\ requested \in Paths
        BY <1>5 DEF SetQuery, TypeOK
    <3>2. /\ SetContentTypeCall(requested).id = identifier
          /\ SetContentTypeCall(requested).kind # "unregisterInstance"
        BY DEF SetContentTypeCall
    <3> QED BY <3>1, <3>2, AskForSends DEF NewCall
  <2> QED BY <1>0, <1>5, <1>u, <2>1 DEF SetQuery
<1>6. ASSUME NEW i \in DOMAIN itemList, NEW inModel \in BOOLEAN,
             GoForward(i - 1, inModel)
      PROVE  SessionInv'
  <2>1. PICK c : c.kind = "goForward" /\ c.id = identifier /\ calls' = Append(calls, c)
      BY <1>6 DEF GoForward
  <2>2. calls' \in Seq(Call)
      BY <1>6, TypeUser DEF User, TypeOK
  <2>3. c \in Call
    <3>1. calls \in Seq(Call)
        BY DEF TypeOK
    <3> QED BY <2>1, <2>2, <3>1
  <2>4. NewCall
      BY <1>6, <1>e, <2>1, <2>3 DEF GoForward
  <2> QED BY <1>0, <1>6, <1>u, <2>4 DEF GoForward
<1>7. CASE OnInitializationDone
  <2>1. Range(calls') = Range(calls) \cup {RegisterCall, SetContentTypeCall(requested)}
      BY <1>7, Initializes
  <2>2. identifier \in Nat
      BY DEF TypeOK, Session
  <2>5. \A c \in {RegisterCall, SetContentTypeCall(requested)} :
            c.id = identifier /\ c.kind # "unregisterInstance"
      BY DEF RegisterCall, SetContentTypeCall
  <2>6. \A c \in Range(calls') : c \in Range(calls)
            \/ (c.id = identifier /\ c.kind # "unregisterInstance")
      BY <2>1, <2>5
  <2>7. UNCHANGED <<identifier, jobs, signals, state>>
      BY <1>7 DEF OnInitializationDone
  <2>8. \A c \in Range(calls') :
            c.id <= identifier /\ (c.kind = "unregisterInstance" => c.id # identifier)
      BY <2>2, <2>6 DEF SessionInv, IdsKnown
  <2>3. IdsKnown'
      BY <2>7, <2>8 DEF SessionInv, IdsKnown
  <2>4. Unused' /\ Unheard'
      BY <1>7 DEF OnInitializationDone, Unused, Unheard
  <2> QED BY <2>3, <2>4 DEF SessionInv
<1>8. CASE FetchMore
  <2>1. FetchCall(Len(itemList)) \in Call
      BY CallsTyped, LenProperties DEF TypeOK, FetchCall
  <2>2. FetchCall(Len(itemList)).id = identifier
        /\ FetchCall(Len(itemList)).kind # "unregisterInstance"
      BY DEF FetchCall
  <2>3. NewCall
      BY <1>8, <1>e, <2>1, <2>2 DEF FetchMore
  <2> QED BY <1>0, <1>8, <1>u, <2>3 DEF FetchMore
<1> QED BY <1>1, <1>2, <1>3, <1>4, <1>5, <1>6, <1>7, <1>8 DEF User

LEMMA SessionModel == TypeOK /\ SessionInv /\ Model => SessionInv'
<1> SUFFICES ASSUME TypeOK, SessionInv, Model PROVE SameSession
    BY SessionKept
<1> USE DEF modelVars, sessionVars, backendVars
<1> DEFINE NewCall == \A c \in Range(calls') : c \in Range(calls)
               \/ (connected /\ c.id = identifier /\ c.kind # "unregisterInstance")
           RestSame == ~initialized => /\ UNCHANGED <<contentType, queryTerm, itemList>>
                                       /\ canGoForward' = <<>>
<1>0. ASSUME NEW kind, Hear(kind), NewCall, RestSame
      PROVE  SameSession
  <2>1. Range(signals') \subseteq Range(signals)
      BY <1>0, Heard
  <2> QED BY <1>0, <2>1 DEF SameSession, OfSomeone, Hear
<1>c. ASSUME Concerned, NEW kind, Hear(kind) PROVE initialized
    BY <1>c DEF Concerned, Hear
<1>s. calls' = calls => NewCall
    OBVIOUS
<1>u. ~initialized => canGoForward = <<>>
    BY DEF SessionInv, Unheard
<1> HIDE DEF NewCall
<1>1. CASE OnIgnored
    BY <1>0, <1>1, <1>s, <1>u DEF OnIgnored
<1>2. CASE OnCapabilitiesChanged
    BY <1>0, <1>2, <1>s, <1>c DEF OnCapabilitiesChanged
<1>3. CASE OnCanGoBackChanged
    BY <1>0, <1>3, <1>s, <1>c DEF OnCanGoBackChanged
<1>4. CASE OnContentTypeChanged
  <2>1. NewCall
    <3>1. /\ SetupFilterCall(query).id = identifier /\ FetchCall(0).id = identifier
          /\ SetupFilterCall(query).kind # "unregisterInstance"
          /\ FetchCall(0).kind # "unregisterInstance"
        BY DEF SetupFilterCall, FetchCall
    <3>2. connected
        BY <1>4 DEF OnContentTypeChanged, Concerned
    <3> QED BY <1>4, <3>1, <3>2, Confirms DEF NewCall
  <2> QED BY <1>0, <1>4, <1>c, <2>1 DEF OnContentTypeChanged
<1>5. CASE OnDataFetched
    BY <1>0, <1>5, <1>s, <1>c DEF OnDataFetched
<1>6. CASE OnCanGoForwardChanged
    BY <1>0, <1>6, <1>s, <1>c DEF OnCanGoForwardChanged
<1>7. CASE OnReply
  <2> DEFINE s == Head(signals)
  <2>1. CASE s.type # NoType /\ s.inModel
    <3>1. s.type \in Paths /\ UpdateContentType(s.type)
        BY <1>7, <2>1, HeadSignal, SignalFields DEF OnReply
    <3> QED BY <1>0, <1>7, <3>1, UpdateSends DEF OnReply, NewCall
  <2>2. CASE ~(s.type # NoType /\ s.inModel)
    <3>1. UNCHANGED <<modelVars, calls, stale>>
        BY <1>7, <2>2 DEF OnReply
    <3> QED BY <1>0, <1>7, <1>s, <1>u, <3>1 DEF OnReply
  <2> QED BY <2>1, <2>2
<1> QED BY <1>1, <1>2, <1>3, <1>4, <1>5, <1>6, <1>7 DEF Model

LEMMA SessionBackend == TypeOK /\ SessionInv /\ Backend => SessionInv'
<1> SUFFICES ASSUME TypeOK, SessionInv, Backend PROVE SameSession
    BY SessionKept
<1> USE DEF modelVars, sessionVars
<1>0. ASSUME NEW kind, Take(kind),
             \A id \in Session : state'[id] = state[id] \/ id = Caller,
             \A s \in Range(signals') :
                 s \in Range(signals) \/ s.kind = "reply" \/ s.id = Caller,
             \A j \in Range(jobs') : j \in Range(jobs) \/ j.id = Caller
      PROVE  SameSession
  <2>1. Range(calls') \subseteq Range(calls) /\ OfSomeone(Caller)
      BY <1>0, Taken DEF OfSomeone, Caller
  <2>2. \A j \in Range(jobs) : OfSomeone(j.id)
      BY DEF OfSomeone
  <2>3. ~initialized => canGoForward = <<>>
      BY DEF SessionInv, Unheard
  <2> QED BY <1>0, <2>1, <2>2, <2>3 DEF SameSession, Take
<1>a. ASSUME NEW s \in Signal, s.kind = "reply" \/ s.id = Caller,
             signals' = Append(signals, s)
      PROVE  \A t \in Range(signals') :
                 t \in Range(signals) \/ t.kind = "reply" \/ t.id = Caller
    BY <1>a, RangeAppend DEF TypeOK
<1>t. TypeOK'
    BY TypeBackend
<1>1. CASE RegisterInstance
    BY <1>0, <1>1 DEF RegisterInstance, TypeOK
<1>2. CASE UnregisterInstance
    BY <1>0, <1>2 DEF UnregisterInstance, TypeOK
<1>3. CASE ServeSetContentType
  <2> DEFINE type == Head(calls).type
             b == [kind |-> "canGoBackChanged", id |-> Caller,
                   can |-> Parent[type] # NoType]
             c == [kind |-> "contentTypeChanged", id |-> Caller, type |-> type]
  <2>1. \A s \in Range(signals') : s \in Range(signals) \/ s.id = Caller
    <3>1. CASE type \in Types
      <4>1. b \in Signal /\ c \in Signal /\ signals \in Seq(Signal)
            /\ b.id = Caller /\ c.id = Caller
          BY <1>3, <3>1, HeadCall DEF ServeSetContentType, Signal, TypeOK
      <4>2. signals' = signals \o <<b, c>>
          BY <1>3, <3>1 DEF ServeSetContentType
      <4> HIDE DEF b, c
      <4>3. signals' = Append(Append(signals, b), c)
          BY <4>1, <4>2
      <4>4. Range(Append(Append(signals, b), c)) = Range(signals) \cup {b, c}
          BY <4>1, RangeAppendTwo
      <4>5. Range(signals') = Range(signals) \cup {b, c}
          BY <4>3, <4>4, Zenon
      <4> QED BY <4>1, <4>5
    <3>2. CASE type \notin Types
        BY <1>3, <3>2 DEF ServeSetContentType
    <3> QED BY <3>1, <3>2
  <2> QED BY <1>0, <1>3, <2>1 DEF ServeSetContentType, TypeOK
<1>4. CASE ServeSetupFilter
    BY <1>0, <1>4 DEF ServeSetupFilter, TypeOK
<1>5. CASE ServeFetchData
  <2> DEFINE told == [kind |-> "supportedCapabilitiesChanged", id |-> Caller]
  <2>1. \A s \in Range(signals') :
            s \in Range(signals) \/ s.kind = "reply" \/ s.id = Caller
    <3>1. told \in Signal /\ told.id = Caller /\ signals' = Append(signals, told)
        BY <1>5, HeadCall DEF ServeFetchData, Signal
    <3> QED BY <1>a, <3>1
  <2>2. \A j \in Range(jobs') : j \in Range(jobs) \/ j.id = Caller
    <3>1. CASE Caller \in instances
      <4>1. PICK job : job.id = Caller /\ jobs' = Append(jobs, job)
          BY <1>5, <3>1 DEF ServeFetchData
      <4>2. jobs' \in Seq(Job) /\ jobs \in Seq(Job)
          BY <1>t DEF TypeOK
      <4>3. job \in Job
          BY <4>1, <4>2
      <4> QED BY <4>1, <4>2, <4>3, RangeAppend
    <3>2. CASE Caller \notin instances
        BY <1>5, <3>2 DEF ServeFetchData
    <3> QED BY <3>1, <3>2
  <2> QED BY <1>0, <1>5, <2>1, <2>2 DEF ServeFetchData
<1>6. CASE ServeGoBack \/ ServeGoForward
  <2>1. PICK s : s.kind = "reply" /\ signals' = Append(signals, s)
      BY <1>6 DEF ServeGoBack, ServeGoForward
  <2>2. signals' \in Seq(Signal) /\ signals \in Seq(Signal)
      BY <1>t DEF TypeOK
  <2>3. s \in Signal
      BY <2>1, <2>2
  <2>4. \A t \in Range(signals') :
            t \in Range(signals) \/ t.kind = "reply" \/ t.id = Caller
      BY <1>a, <2>1, <2>3
  <2> QED BY <1>0, <1>6, <2>4 DEF ServeGoBack, ServeGoForward
<1> QED BY <1>1, <1>2, <1>3, <1>4, <1>5, <1>6 DEF Backend

LEMMA SessionWorker == TypeOK /\ SessionInv /\ (Search \/ Record) => SessionInv'
<1> SUFFICES ASSUME TypeOK, SessionInv, Search \/ Record PROVE SameSession
    BY SessionKept
<1> USE DEF modelVars, sessionVars
<1> DEFINE job == Head(jobs)
<1>1. jobs \in Seq(Job) /\ signals \in Seq(Signal) /\ jobs # <<>>
      /\ job \in Range(jobs)
    BY RangeTail DEF TypeOK, Search, Record
<1>2. OfSomeone(job.id) /\ \A j \in Range(jobs) : OfSomeone(j.id)
    BY <1>1 DEF OfSomeone
<1>3. \A j \in Range(jobs') : \E o \in Range(jobs) : j.id = o.id
  <2>1. CASE Search
    <3>1. ASSUME NEW j \in Range(jobs') PROVE \E o \in Range(jobs) : j.id = o.id
      <4>1. PICK i \in DOMAIN jobs' : j = jobs'[i]
          BY DEF Range
      <4>2. CASE i = 1
          BY <1>1, <2>1, <4>1, <4>2, SearchLeaves DEF Begun, Job
      <4>3. CASE i # 1
          BY <2>1, <4>1, <4>3, SearchLeaves DEF Range
      <4> QED BY <4>2, <4>3
    <3> QED BY <3>1
  <2>2. CASE Record
      BY <1>1, <2>2, RangeTail DEF Record
  <2> QED BY <2>1, <2>2
<1>4. \A s \in Range(signals') : s \in Range(signals) \/ s.id = job.id
  <2>1. signals' = signals \/ \E s : s.id = job.id /\ signals' = Append(signals, s)
      BY DEF Search, Record
  <2>2. CASE signals' = signals
      BY <2>2
  <2>3. ASSUME NEW s, s.id = job.id, signals' = Append(signals, s)
        PROVE  \A t \in Range(signals') : t \in Range(signals) \/ t.id = job.id
    <3>1. signals' \in Seq(Signal)
        BY TypeWorker DEF TypeOK
    <3>2. s \in Signal
        BY <1>1, <2>3, <3>1
    <3> QED BY <1>1, <2>3, <3>2, RangeAppend
  <2> QED BY <2>1, <2>2, <2>3
<1>5. \A id \in Session : state'[id] = state[id] \/ id = job.id
    BY DEF Search, Record, TypeOK
<1>6. ~initialized => canGoForward = <<>>
    BY DEF SessionInv, Unheard
<1> QED BY <1>2, <1>3, <1>4, <1>5, <1>6 DEF SameSession, OfSomeone, Search, Record

LEMMA SessionNext == TypeOK /\ SessionInv /\ [Next]_vars => SessionInv'
<1>1. TypeOK /\ SessionInv /\ UNCHANGED vars => SessionInv'
    BY DEF SessionInv, IdsKnown, Unheard, Unused, vars, modelVars, sessionVars, backendVars
<1> QED BY <1>1, SessionUser, SessionModel, SessionBackend, SessionWorker DEF Next

\* A step that leaves alone what model and backend have to agree on.
SameAgreement ==
    /\ UNCHANGED <<initialized, identifier, contentType, requested, query, queryTerm,
                   canGoBack>>
    /\ state'[identifier].contentType = state[identifier].contentType
    /\ state'[identifier].term = state[identifier].term
    /\ Beside(calls, calls', TypeCalls) /\ Beside(calls, calls', TermCalls)
    /\ Beside(signals, signals', TypeSignals) /\ Beside(signals, signals', BackSignals)
    /\ \A c \in Range(calls') : c.kind = "setContentType" /\ c.id = identifier
                                   => c \in Range(calls)

LEMMA LastIsOf == \A s, e, S : LastIn(s, e, S) => e \in S
    BY DEF LastIn

LEMMA AgreementKept == TypeOK /\ AgreeInv /\ SameAgreement => AgreeInv'
<1> SUFFICES ASSUME TypeOK, AgreeInv, SameAgreement PROVE AgreeInv'
    OBVIOUS
<1>0. /\ UNCHANGED <<initialized, identifier, contentType, requested, query, queryTerm,
                     canGoBack>>
      /\ state'[identifier].contentType = state[identifier].contentType
      /\ state'[identifier].term = state[identifier].term
    BY DEF SameAgreement
<1>1. /\ TypeCalls' = TypeCalls /\ TermCalls' = TermCalls
      /\ TypeSignals' = TypeSignals /\ BackSignals' = BackSignals
      /\ RegisterCall' = RegisterCall
      /\ SetContentTypeCall(requested)' = SetContentTypeCall(requested)
      /\ SetupFilterCall(queryTerm)' = SetupFilterCall(queryTerm)
      /\ TypeSignal(requested)' = TypeSignal(requested)
      /\ BackSignal(requested)' = BackSignal(requested)
    BY <1>0 DEF TypeCalls, TermCalls, TypeSignals, BackSignals, RegisterCall,
       SetContentTypeCall, SetupFilterCall, TypeSignal, BackSignal, LeadsBack
<1>2. /\ \A e : LastIn(calls, e, TypeCalls) => LastIn(calls', e, TypeCalls)
      /\ \A e : LastIn(calls, e, TermCalls) => LastIn(calls', e, TermCalls)
      /\ \A e : LastIn(signals, e, TypeSignals) => LastIn(signals', e, TypeSignals)
      /\ \A e : LastIn(signals, e, BackSignals) => LastIn(signals', e, BackSignals)
      /\ NoneIn(calls, TypeCalls) => NoneIn(calls', TypeCalls)
      /\ NoneIn(calls, TermCalls) => NoneIn(calls', TermCalls)
      /\ NoneIn(signals, TypeSignals) => NoneIn(signals', TypeSignals)
      /\ NoneIn(signals, BackSignals) => NoneIn(signals', BackSignals)
    BY LastIsOf DEF SameAgreement, Beside
<1>3. ModelAgrees => ModelAgrees'
    BY <1>0, <1>1, <1>2 DEF ModelAgrees
<1>4. BackAgrees => BackAgrees'
    BY <1>0, <1>1, <1>2 DEF BackAgrees, LeadsBack
<1>5. TypeAgrees'
    BY <1>0, <1>1, <1>2, <1>3, <1>4 DEF TypeAgrees, AgreeInv
<1>6. TermAgrees'
    BY <1>0, <1>1, <1>2 DEF TermAgrees, AgreeInv
<1>7. Unasked'
    BY <1>0, <1>1, <1>2 DEF Unasked, AgreeInv, SameAgreement
<1> QED BY <1>5, <1>6, <1>7 DEF AgreeInv

LEMMA AgreeInit == Init => AgreeInv
<1> SUFFICES ASSUME Init PROVE AgreeInv
    OBVIOUS
<1>1. Range(<<>>) = {} /\ DOMAIN <<>> = {}
    BY DEF Range
<1> QED BY <1>1 DEF Init, AgreeInv, TypeAgrees, TermAgrees, Unasked, NoneIn

\* A call for a content type is the last word on it.
LEMMA AskForLast ==
    ASSUME TypeOK, NEW type \in Paths, AskFor(type), connected
    PROVE  /\ LastIn(calls', SetContentTypeCall(type), TypeCalls)
           /\ Beside(calls, calls', TermCalls)
<1> DEFINE c == SetContentTypeCall(type)
<1>1. c \in TypeCalls /\ c \notin TermCalls /\ c \in Call
    BY AskForSends DEF TypeCalls, TermCalls, SetContentTypeCall
<1>2. calls' = Append(calls, c) /\ calls \in Seq(Call)
    BY AskForSends DEF TypeOK
<1> HIDE DEF c
<1>3. /\ LastIn(Append(calls, c), c, TypeCalls)
      /\ Beside(calls, Append(calls, c), TermCalls)
    BY <1>1, <1>2, AppendBeside
<1> QED BY <1>2, <1>3, Zenon DEF c

LEMMA BesideSame == \A s, S : Beside(s, s, S)
    BY DEF Beside

\* A new content type is asked for, by the user or by a reply.
LEMMA AgreeUpdate ==
    ASSUME TypeOK, SessionInv, AgreeInv, NEW type \in Types, UpdateContentType(type),
           UNCHANGED <<initialized, identifier, state>>
    PROVE  AgreeInv'
<1>1. type \in Paths /\ type # NoType /\ AskFor(type) /\ requested' = type
    BY BrowseAssumption DEF Paths, UpdateContentType
<1>2. TypeAgrees'
  <2> SUFFICES ASSUME initialized PROVE LastIn(calls', SetContentTypeCall(type)', TypeCalls')
      BY <1>1 DEF TypeAgrees
  <2>1. connected
      BY DEF SessionInv, Unused
  <2>2. LastIn(calls', SetContentTypeCall(type), TypeCalls)
      BY <1>1, <2>1, AskForLast
  <2>3. TypeCalls' = TypeCalls /\ SetContentTypeCall(type)' = SetContentTypeCall(type)
      BY DEF TypeCalls, SetContentTypeCall
  <2> QED BY <2>2, <2>3
<1>3. TermAgrees'
  <2> SUFFICES ASSUME initialized PROVE TermAgrees'
      BY DEF TermAgrees
  <2>1. connected
      BY DEF SessionInv, Unused
  <2>2. Beside(calls, calls', TermCalls)
      BY <1>1, <2>1, AskForLast
  <2>3. /\ \A e : LastIn(calls, e, TermCalls) => LastIn(calls', e, TermCalls)
        /\ NoneIn(calls, TermCalls) => NoneIn(calls', TermCalls)
      BY <2>2, LastIsOf DEF Beside
  <2>4. /\ TermCalls' = TermCalls /\ RegisterCall' = RegisterCall
        /\ SetupFilterCall(queryTerm)' = SetupFilterCall(queryTerm)
        /\ queryTerm' = queryTerm
      BY DEF TermCalls, RegisterCall, SetupFilterCall, UpdateContentType
  <2> QED BY <2>3, <2>4 DEF TermAgrees, AgreeInv
<1>4. Unasked'
    BY <1>1 DEF Unasked
<1> QED BY <1>2, <1>3, <1>4 DEF AgreeInv

LEMMA AgreeUser ==
    TypeOK /\ SessionInv /\ AgreeInv /\ (User \/ OnInitializationDone \/ FetchMore)
        => AgreeInv'
<1> SUFFICES ASSUME TypeOK, SessionInv, AgreeInv,
                    User \/ OnInitializationDone \/ FetchMore
             PROVE  AgreeInv'
    OBVIOUS
<1> USE DEF modelVars, sessionVars, backendVars
<1>0. ASSUME NEW c \in Call, calls' = Append(calls, c),
             c.kind \in {"goBack", "goForward", "fetchData"},
             UNCHANGED <<initialized, identifier, contentType, requested, query,
                         queryTerm, canGoBack, state, signals>>
      PROVE  AgreeInv'
  <2>1. c \notin TypeCalls /\ c \notin TermCalls
      BY <1>0 DEF TypeCalls, TermCalls
  <2>2. calls \in Seq(Call)
      BY DEF TypeOK
  <2>3. /\ Beside(calls, Append(calls, c), TypeCalls)
        /\ Beside(calls, Append(calls, c), TermCalls)
      BY <2>1, <2>2, AppendBeside
  <2>4. Range(Append(calls, c)) = Range(calls) \cup {c}
      BY <2>2, RangeAppend
  <2>5. SameAgreement
      BY <1>0, <2>3, <2>4, BesideSame DEF SameAgreement
  <2> QED BY <2>5, AgreementKept
<1>1. CASE Connect
    BY <1>1, AgreementKept, BesideSame DEF Connect, SameAgreement
<1>2. CASE Disconnect
  <2>1. Unused' /\ IdsKnown /\ ~initialized' /\ identifier \in Nat
        /\ identifier' = identifier + 1 /\ signals' = signals
      BY <1>2, SessionUser DEF Disconnect, SessionInv, User, TypeOK, Session
  <2>2. TypeAgrees' /\ TermAgrees'
      BY <2>1 DEF TypeAgrees, TermAgrees
  <2>3. \A s \in Range(signals) : s.kind # "reply" => s.id # identifier'
      BY <1>2, <2>1 DEF Unused, Disconnect
  <2>4. NoneIn(signals, TypeSignals') /\ NoneIn(signals, BackSignals')
    <3>1. \A i \in DOMAIN signals : signals[i] \in Range(signals)
        BY DEF Range
    <3> QED BY <2>3, <3>1 DEF NoneIn, TypeSignals, BackSignals
  <2>5. \A c \in Range(calls') : c.id # identifier'
      BY <1>2, <2>1 DEF Unused, Disconnect
  <2>6. Unasked'
      BY <1>2, <2>1, <2>4, <2>5 DEF Unasked, Disconnect
  <2> QED BY <2>2, <2>6 DEF AgreeInv
<1>3. CASE GoBack
  <2>1. [kind |-> "goBack", id |-> identifier] \in Call
      BY CallsTyped DEF TypeOK
  <2> QED BY <1>0, <1>3, <2>1 DEF GoBack
<1>4. ASSUME NEW type \in Offered, SetContentType(type) PROVE AgreeInv'
    BY <1>4, AgreeUpdate, BrowseAssumption DEF SetContentType
<1>5. ASSUME NEW new \in Terms \cup Unparsable, SetQuery(new) PROVE AgreeInv'
  <2> DEFINE c == SetContentTypeCall(requested)
  <2>1. /\ AskFor(requested) /\ requested \in Paths
        /\ UNCHANGED <<initialized, identifier, contentType, requested, queryTerm,
                       canGoBack, state, signals>>
      BY <1>5 DEF SetQuery, TypeOK
  <2>2. /\ TypeCalls' = TypeCalls /\ TermCalls' = TermCalls
        /\ TypeSignals' = TypeSignals /\ BackSignals' = BackSignals
        /\ RegisterCall' = RegisterCall
        /\ SetContentTypeCall(requested)' = SetContentTypeCall(requested)
        /\ SetupFilterCall(queryTerm)' = SetupFilterCall(queryTerm)
      BY <2>1 DEF TypeCalls, TermCalls, TypeSignals, BackSignals, RegisterCall,
         SetContentTypeCall, SetupFilterCall
  <2>3. initialized => /\ LastIn(calls', SetContentTypeCall(requested), TypeCalls)
                       /\ Beside(calls, calls', TermCalls)
      BY <2>1, AskForLast DEF SessionInv, Unused
  <2>4. TypeAgrees'
      BY <2>1, <2>2, <2>3 DEF TypeAgrees
  <2>5. initialized => /\ \A e : LastIn(calls, e, TermCalls) => LastIn(calls', e, TermCalls)
                       /\ NoneIn(calls, TermCalls) => NoneIn(calls', TermCalls)
      BY <2>3, LastIsOf DEF Beside
  <2>6. TermAgrees'
      BY <2>1, <2>2, <2>5 DEF TermAgrees, AgreeInv
  <2>7. \A d \in Range(calls') : d \in Range(calls) \/ d.type = requested
    <3>1. SetContentTypeCall(requested).type = requested
        BY DEF SetContentTypeCall
    <3> QED BY <2>1, <3>1, AskForSends
  <2>8. Unasked'
      BY <2>1, <2>2, <2>7 DEF Unasked, AgreeInv
  <2> QED BY <2>4, <2>6, <2>8 DEF AgreeInv
<1>6. ASSUME NEW i \in DOMAIN itemList, NEW inModel \in BOOLEAN,
             GoForward(i - 1, inModel)
      PROVE  AgreeInv'
  <2>1. PICK c : c.kind = "goForward" /\ calls' = Append(calls, c)
      BY <1>6 DEF GoForward
  <2>2. calls' \in Seq(Call) /\ calls \in Seq(Call)
      BY <1>6, TypeUser DEF User, TypeOK
  <2>3. c \in Call
      BY <2>1, <2>2
  <2> QED BY <1>0, <1>6, <2>1, <2>3 DEF GoForward
<1>7. CASE OnInitializationDone
  <2> DEFINE c == SetContentTypeCall(requested)
             more == Append(calls, RegisterCall)
  <2>1. /\ RegisterCall \in Call /\ c \in Call /\ calls \in Seq(Call)
        /\ calls' = Append(more, c) /\ more \in Seq(Call)
        /\ Range(calls') = Range(calls) \cup {RegisterCall, c}
      BY <1>7, Initializes DEF TypeOK
  <2>2. /\ c \in TypeCalls /\ c \notin TermCalls /\ RegisterCall \in TermCalls
        /\ c.type = requested /\ RegisterCall.kind = "registerInstance"
      BY <2>1 DEF TypeCalls, TermCalls, RegisterCall, SetContentTypeCall
  <2>3. UNCHANGED <<identifier, contentType, requested, query, queryTerm, canGoBack,
                    signals>>
      BY <1>7 DEF OnInitializationDone
  <2>4. /\ TypeCalls' = TypeCalls /\ TermCalls' = TermCalls
        /\ TypeSignals' = TypeSignals /\ BackSignals' = BackSignals
        /\ RegisterCall' = RegisterCall /\ SetContentTypeCall(requested)' = c
      BY <2>3 DEF TypeCalls, TermCalls, TypeSignals, BackSignals, RegisterCall,
         SetContentTypeCall
  <2>5. LastIn(more, RegisterCall, TermCalls)
      BY <2>1, <2>2, AppendBeside
  <2> HIDE DEF c, more
  <2>6. LastIn(Append(more, c), c, TypeCalls) /\ Beside(more, Append(more, c), TermCalls)
      BY <2>1, <2>2, AppendBeside
  <2>7. LastIn(calls', c, TypeCalls) /\ LastIn(calls', RegisterCall, TermCalls)
    <3>1. LastIn(Append(more, c), RegisterCall, TermCalls)
        BY <2>2, <2>5, <2>6 DEF Beside
    <3> QED BY <2>1, <2>6, <3>1, Zenon
  <2>8. TypeAgrees'
      BY <2>4, <2>7 DEF TypeAgrees
  <2>9. queryTerm' = NoQuery
      BY <1>7 DEF OnInitializationDone, SessionInv, Unheard
  <2>10. TermAgrees'
      BY <2>4, <2>7, <2>9 DEF TermAgrees
  <2>11. Unasked'
      BY <2>1, <2>2, <2>3, <2>4 DEF Unasked, AgreeInv
  <2> QED BY <2>8, <2>10, <2>11 DEF AgreeInv
<1>8. CASE FetchMore
  <2>1. FetchCall(Len(itemList)) \in Call /\ FetchCall(Len(itemList)).kind = "fetchData"
      BY CallsTyped, LenProperties DEF TypeOK, FetchCall
  <2> QED BY <1>0, <1>8, <2>1 DEF FetchMore
<1> QED BY <1>1, <1>2, <1>3, <1>4, <1>5, <1>6, <1>7, <1>8 DEF User

LEMMA AgreeModel == TypeOK /\ SessionInv /\ AgreeInv /\ Model => AgreeInv'
<1> SUFFICES ASSUME TypeOK, SessionInv, AgreeInv, Model PROVE AgreeInv'
    OBVIOUS
<1> USE DEF modelVars, sessionVars, backendVars
<1> DEFINE s == Head(signals)
<1>h. ASSUME NEW kind, Hear(kind)
      PROVE  /\ s \in Signal /\ s.kind = kind /\ signals' = Tail(signals)
             /\ signals # <<>> /\ signals \in Seq(Signal)
             /\ UNCHANGED <<initialized, identifier, connected, state>>
             /\ kind # "reply" => Concerned \/ s.id # identifier
  <2>1. kind # "reply" => Concerned \/ s.id # identifier
      BY <1>h, Heard, HeadSignal DEF SessionInv, Unused, Concerned
  <2> QED BY <1>h, <2>1, HeadSignal DEF Hear, TypeOK
<1> HIDE DEF s
<1>0. ASSUME NEW kind, Hear(kind), s \notin TypeSignals, s \notin BackSignals,
             UNCHANGED <<contentType, requested, query, queryTerm, canGoBack, calls>>
      PROVE  AgreeInv'
  <2>1. /\ Beside(signals, Tail(signals), TypeSignals)
        /\ Beside(signals, Tail(signals), BackSignals)
      BY <1>0, <1>h, TailBeside DEF s
  <2>2. SameAgreement
      BY <1>0, <1>h, <2>1, BesideSame DEF SameAgreement
  <2> QED BY <2>2, AgreementKept
<1>1. CASE OnIgnored
  <2>1. Hear(s.kind) /\ s.kind # "reply" /\ ~Concerned
      BY <1>1 DEF OnIgnored, s
  <2>2. s \notin TypeSignals /\ s \notin BackSignals
      BY <1>h, <2>1 DEF TypeSignals, BackSignals
  <2> QED BY <1>0, <1>1, <2>1, <2>2 DEF OnIgnored
<1>2. CASE OnCapabilitiesChanged
  <2>1. Hear("supportedCapabilitiesChanged")
      BY <1>2 DEF OnCapabilitiesChanged
  <2>2. s \notin TypeSignals /\ s \notin BackSignals
      BY <1>h, <2>1 DEF TypeSignals, BackSignals
  <2> QED BY <1>0, <1>2, <2>1, <2>2 DEF OnCapabilitiesChanged
<1>5. CASE OnDataFetched
  <2>1. Hear("dataFetched")
      BY <1>5 DEF OnDataFetched
  <2>2. s \notin TypeSignals /\ s \notin BackSignals
      BY <1>h, <2>1 DEF TypeSignals, BackSignals
  <2> QED BY <1>0, <1>5, <2>1, <2>2 DEF OnDataFetched
<1>6. CASE OnCanGoForwardChanged
  <2>1. Hear("canGoForwardChanged")
      BY <1>6 DEF OnCanGoForwardChanged
  <2>2. s \notin TypeSignals /\ s \notin BackSignals
      BY <1>h, <2>1 DEF TypeSignals, BackSignals
  <2> QED BY <1>0, <1>6, <2>1, <2>2 DEF OnCanGoForwardChanged
<1>7. CASE OnReply
  <2>1. Hear("reply")
      BY <1>7 DEF OnReply
  <2>2. s \notin TypeSignals /\ s \notin BackSignals /\ s.type \in Paths
      BY <1>h, <2>1, SignalFields DEF TypeSignals, BackSignals
  <2>3. CASE s.type # NoType /\ s.inModel
    <3>1. s.type \in Types /\ UpdateContentType(s.type)
        BY <1>7, <2>2, <2>3 DEF OnReply, s, Paths
    <3> QED BY <1>h, <2>1, <3>1, AgreeUpdate
  <2>4. CASE ~(s.type # NoType /\ s.inModel)
    <3>1. UNCHANGED <<modelVars, calls, stale>>
        BY <1>7, <2>4 DEF OnReply, s
    <3> QED BY <1>0, <2>1, <2>2, <3>1
  <2> QED BY <2>3, <2>4
<1>3. CASE OnCanGoBackChanged
  <2>1. /\ Hear("canGoBackChanged") /\ Concerned /\ canGoBack' = s.can
        /\ UNCHANGED <<contentType, requested, query, queryTerm, calls>>
      BY <1>3 DEF OnCanGoBackChanged, s
  <2>2. s \in BackSignals /\ s \notin TypeSignals
    <3>1. s \in Signal /\ s.kind = "canGoBackChanged"
        BY <1>h, <2>1
    <3>2. s.id = identifier
        BY <2>1 DEF Concerned, s
    <3> QED BY <3>1, <3>2 DEF TypeSignals, BackSignals
  <2>3. UNCHANGED <<initialized, identifier, state>> /\ signals' = Tail(signals)
        /\ signals # <<>> /\ signals \in Seq(Signal)
      BY <1>h, <2>1
  <2>4. /\ TypeCalls' = TypeCalls /\ TermCalls' = TermCalls
        /\ TypeSignals' = TypeSignals /\ BackSignals' = BackSignals
        /\ RegisterCall' = RegisterCall
        /\ SetContentTypeCall(requested)' = SetContentTypeCall(requested)
        /\ SetupFilterCall(queryTerm)' = SetupFilterCall(queryTerm)
        /\ TypeSignal(requested)' = TypeSignal(requested)
        /\ BackSignal(requested)' = BackSignal(requested)
      BY <2>1, <2>3 DEF TypeCalls, TermCalls, TypeSignals, BackSignals, RegisterCall,
         SetContentTypeCall, SetupFilterCall, TypeSignal, BackSignal, LeadsBack
  <2>5. Beside(signals, Tail(signals), TypeSignals)
      BY <2>2, <2>3, TailBeside DEF s
  <2>6. ~NoneIn(signals, BackSignals)
      BY <2>2, <2>3, TailBeside DEF s
  <2>7. LastIn(signals, BackSignal(requested), BackSignals) =>
            \/ LastIn(Tail(signals), BackSignal(requested), BackSignals)
            \/ s = BackSignal(requested) /\ NoneIn(Tail(signals), BackSignals)
      BY <2>3, TailBeside, LastIsOf DEF s
  <2>8. BackAgrees => BackAgrees'
    <3>1. CASE LastIn(Tail(signals), BackSignal(requested), BackSignals)
        BY <2>1, <2>3, <2>4, <3>1 DEF BackAgrees
    <3>2. CASE s = BackSignal(requested) /\ NoneIn(Tail(signals), BackSignals)
      <4>1. canGoBack' <=> LeadsBack(requested)
          BY <2>1, <3>2 DEF BackSignal
      <4> QED BY <2>1, <2>3, <2>4, <3>2, <4>1 DEF BackAgrees, LeadsBack
    <3> QED BY <2>6, <2>7, <3>1, <3>2 DEF BackAgrees
  <2>9. ModelAgrees => ModelAgrees'
      BY <2>1, <2>3, <2>4, <2>5, LastIsOf DEF ModelAgrees, Beside
  <2>10. TypeAgrees'
      BY <2>1, <2>3, <2>4, <2>8, <2>9 DEF TypeAgrees, AgreeInv
  <2>11. TermAgrees'
      BY <2>1, <2>3, <2>4 DEF TermAgrees, AgreeInv
  <2>12. Unasked'
      BY <2>1, <2>6 DEF Unasked, AgreeInv
  <2> QED BY <2>10, <2>11, <2>12 DEF AgreeInv
<1>4. CASE OnContentTypeChanged
  <2> DEFINE f == SetupFilterCall(query)
             c == FetchCall(0)
  <2>1. /\ Hear("contentTypeChanged") /\ Concerned /\ contentType' = s.type
        /\ queryTerm' = IF Parsed = {} THEN queryTerm ELSE query
        /\ UNCHANGED <<requested, query, canGoBack>>
      BY <1>4, ParsedIs DEF OnContentTypeChanged, s
  <2>2. s \in TypeSignals /\ s \notin BackSignals
    <3>1. s \in Signal /\ s.kind = "contentTypeChanged"
        BY <1>h, <2>1
    <3>2. s.id = identifier
        BY <2>1 DEF Concerned, s
    <3> QED BY <3>1, <3>2 DEF TypeSignals, BackSignals
  <2>3. UNCHANGED <<initialized, identifier, state>> /\ signals' = Tail(signals)
        /\ signals # <<>> /\ signals \in Seq(Signal) /\ calls \in Seq(Call)
      BY <1>h, <2>1 DEF TypeOK
  <2>4. /\ TypeCalls' = TypeCalls /\ TermCalls' = TermCalls
        /\ TypeSignals' = TypeSignals /\ BackSignals' = BackSignals
        /\ RegisterCall' = RegisterCall
        /\ SetContentTypeCall(requested)' = SetContentTypeCall(requested)
        /\ \A term : SetupFilterCall(term)' = SetupFilterCall(term)
        /\ TypeSignal(requested)' = TypeSignal(requested)
        /\ BackSignal(requested)' = BackSignal(requested)
      BY <2>1, <2>3 DEF TypeCalls, TermCalls, TypeSignals, BackSignals, RegisterCall,
         SetContentTypeCall, SetupFilterCall, TypeSignal, BackSignal, LeadsBack
  <2>5. Beside(signals, Tail(signals), BackSignals)
      BY <2>2, <2>3, TailBeside DEF s
  <2>6. ~NoneIn(signals, TypeSignals)
      BY <2>2, <2>3, TailBeside DEF s
  <2>7. LastIn(signals, TypeSignal(requested), TypeSignals) =>
            \/ LastIn(Tail(signals), TypeSignal(requested), TypeSignals)
            \/ s = TypeSignal(requested) /\ NoneIn(Tail(signals), TypeSignals)
      BY <2>3, TailBeside, LastIsOf DEF s
  <2>8. ModelAgrees => ModelAgrees'
    <3>1. CASE LastIn(Tail(signals), TypeSignal(requested), TypeSignals)
        BY <2>1, <2>3, <2>4, <3>1 DEF ModelAgrees
    <3>2. CASE s = TypeSignal(requested) /\ NoneIn(Tail(signals), TypeSignals)
      <4>1. contentType' = requested
          BY <2>1, <3>2 DEF TypeSignal
      <4>2. query = NoQuery => queryTerm' = NoQuery
          BY <2>1, ParsedIs
      <4> QED BY <2>1, <2>3, <2>4, <3>2, <4>1, <4>2 DEF ModelAgrees
    <3> QED BY <2>6, <2>7, <3>1, <3>2 DEF ModelAgrees
  <2>9. BackAgrees => BackAgrees'
      BY <2>1, <2>3, <2>4, <2>5, LastIsOf DEF BackAgrees, Beside, LeadsBack
  <2>10. /\ Beside(calls, calls', TypeCalls)
         /\ Parsed = {} => Beside(calls, calls', TermCalls)
         /\ Parsed # {} => LastIn(calls', f, TermCalls)
    <3>1. c \in Call /\ c \notin TypeCalls /\ c \notin TermCalls
        BY <1>4, Confirms DEF TypeCalls, TermCalls, FetchCall
    <3>2. f \notin TypeCalls /\ (f \in Call => f \in TermCalls)
        BY DEF TypeCalls, TermCalls, SetupFilterCall
    <3>3. CASE Parsed = {}
      <4>1. calls' = Append(calls, c)
          BY <1>4, <3>3, Confirms
      <4> HIDE DEF c
      <4>2. Beside(calls, Append(calls, c), TypeCalls)
            /\ Beside(calls, Append(calls, c), TermCalls)
          BY <2>3, <3>1, AppendBeside
      <4> QED BY <3>3, <4>1, <4>2, Zenon
    <3>4. CASE Parsed # {}
      <4> DEFINE more == Append(calls, f)
      <4>1. f \in Call /\ more \in Seq(Call) /\ calls' = Append(more, c)
          BY <1>4, <3>4, Confirms
      <4> HIDE DEF c, f
      <4>2. Beside(calls, more, TypeCalls) /\ LastIn(more, f, TermCalls)
          BY <2>3, <3>2, <4>1, AppendBeside
      <4> HIDE DEF more
      <4>3. Beside(more, Append(more, c), TypeCalls)
            /\ Beside(more, Append(more, c), TermCalls)
          BY <3>1, <4>1, AppendBeside
      <4>4. Beside(calls, Append(more, c), TypeCalls)
            /\ LastIn(Append(more, c), f, TermCalls)
          BY <3>2, <4>1, <4>2, <4>3 DEF Beside
      <4> QED BY <3>4, <4>1, <4>4, Zenon
    <3> QED BY <3>3, <3>4
  <2>11. TypeAgrees'
    <3>1. /\ \A e : LastIn(calls, e, TypeCalls) => LastIn(calls', e, TypeCalls)
          /\ NoneIn(calls, TypeCalls) => NoneIn(calls', TypeCalls)
        BY <2>10, LastIsOf DEF Beside
    <3> QED BY <2>1, <2>3, <2>4, <2>8, <2>9, <3>1 DEF TypeAgrees, AgreeInv
  <2>12. TermAgrees'
    <3>1. CASE Parsed = {}
      <4>1. /\ \A e : LastIn(calls, e, TermCalls) => LastIn(calls', e, TermCalls)
            /\ NoneIn(calls, TermCalls) => NoneIn(calls', TermCalls)
            /\ queryTerm' = queryTerm
          BY <2>1, <2>10, <3>1, LastIsOf DEF Beside
      <4> QED BY <2>1, <2>3, <2>4, <4>1 DEF TermAgrees, AgreeInv
    <3>2. CASE Parsed # {}
      <4>1. queryTerm' = query /\ SetupFilterCall(queryTerm)' = f
          BY <2>1, <2>3, <3>2 DEF SetupFilterCall
      <4> QED BY <2>4, <2>10, <3>2, <4>1 DEF TermAgrees
    <3> QED BY <3>1, <3>2
  <2>13. Unasked'
      BY <2>1, <2>6 DEF Unasked, AgreeInv
  <2> QED BY <2>11, <2>12, <2>13 DEF AgreeInv
<1> QED BY <1>1, <1>2, <1>3, <1>4, <1>5, <1>6, <1>7 DEF Model

LEMMA AgreeBackend == TypeOK /\ SessionInv /\ AgreeInv /\ Backend => AgreeInv'
<1> SUFFICES ASSUME TypeOK, SessionInv, AgreeInv, Backend PROVE AgreeInv'
    OBVIOUS
<1> USE DEF modelVars, sessionVars
<1> DEFINE c == Head(calls)
           RestSame == UNCHANGED <<initialized, identifier, contentType, requested, query,
                                   queryTerm, canGoBack>>
           SetsSame == /\ TypeCalls' = TypeCalls /\ TermCalls' = TermCalls
                       /\ TypeSignals' = TypeSignals /\ BackSignals' = BackSignals
                       /\ RegisterCall' = RegisterCall
                       /\ SetContentTypeCall(requested)' = SetContentTypeCall(requested)
                       /\ SetupFilterCall(queryTerm)' = SetupFilterCall(queryTerm)
                       /\ TypeSignal(requested)' = TypeSignal(requested)
                       /\ BackSignal(requested)' = BackSignal(requested)
<1>h. ASSUME NEW kind, Take(kind)
      PROVE  /\ c \in Call /\ c.kind = kind /\ calls' = Tail(calls) /\ c = Head(calls)
             /\ calls # <<>> /\ calls \in Seq(Call) /\ signals \in Seq(Signal)
             /\ Caller = c.id /\ Caller \in Session /\ c \in Range(calls)
             /\ RestSame /\ SetsSame
             /\ Range(calls') \subseteq Range(calls)
             /\ \A d \in Range(calls') : d.kind = "setContentType" /\ d.id = identifier
                                            => d \in Range(calls)
  <2>1. RestSame
      BY <1>h DEF Take
  <2>2. SetsSame
      BY <2>1 DEF TypeCalls, TermCalls, TypeSignals, BackSignals, RegisterCall,
         SetContentTypeCall, SetupFilterCall, TypeSignal, BackSignal, LeadsBack
  <2>3. calls \in Seq(Call) /\ signals \in Seq(Signal)
      BY DEF TypeOK
  <2> HIDE DEF RestSame, SetsSame
  <2> QED BY <1>h, <2>1, <2>2, <2>3, HeadCall, Taken DEF Caller
<1> HIDE DEF c
<1>t. TypeOK' /\ identifier \in Session /\ state \in [Session -> State]
    BY TypeBackend DEF TypeOK
\* a call of another session, or one that does not set type or term
<1>0. ASSUME NEW kind, Take(kind), c \notin TypeCalls, c \notin TermCalls,
             Beside(signals, signals', TypeSignals), Beside(signals, signals', BackSignals),
             state'[identifier].contentType = state[identifier].contentType,
             state'[identifier].term = state[identifier].term
      PROVE  AgreeInv'
  <2>1. calls' = Tail(calls) /\ c = Head(calls) /\ calls # <<>> /\ calls \in Seq(Call)
      BY <1>0, <1>h
  <2>2. Beside(calls, Tail(calls), TypeCalls) /\ Beside(calls, Tail(calls), TermCalls)
      BY <1>0, <2>1, TailBeside
  <2>3. SameAgreement
      BY <1>0, <1>h, <2>1, <2>2 DEF SameAgreement
  <2> QED BY <2>3, AgreementKept
<1>s. ASSUME NEW s \in Signal, signals' = Append(signals, s),
             s \notin TypeSignals, s \notin BackSignals
      PROVE  Beside(signals, signals', TypeSignals) /\ Beside(signals, signals', BackSignals)
    BY <1>s, AppendBeside DEF TypeOK
<1>1. CASE RegisterInstance
  <2>1. /\ Take("registerInstance") /\ signals' = signals
        /\ state' = [state EXCEPT ![Caller] = Fresh]
      BY <1>1 DEF RegisterInstance
  <2>2. CASE Caller # identifier
    <3>1. c \notin TypeCalls /\ c \notin TermCalls
        BY <1>h, <2>1, <2>2 DEF TypeCalls, TermCalls
    <3>2. state'[identifier] = state[identifier]
        BY <1>t, <2>1, <2>2
    <3> QED BY <1>0, <2>1, <3>1, <3>2, BesideSame
  <2>3. CASE Caller = identifier
    <3>1. c \in TypeCalls /\ c \in TermCalls /\ c.kind = "registerInstance"
        BY <1>h, <2>1, <2>3 DEF TypeCalls, TermCalls
    <3>2. calls' = Tail(calls) /\ c = Head(calls) /\ calls # <<>> /\ calls \in Seq(Call)
          /\ RestSame /\ SetsSame
        BY <1>h, <2>1
    <3>3. /\ ~NoneIn(calls, TypeCalls) /\ ~NoneIn(calls, TermCalls)
          /\ \A e \in TypeCalls : LastIn(calls, e, TypeCalls) =>
                LastIn(calls', e, TypeCalls) \/ (c = e /\ NoneIn(calls', TypeCalls))
          /\ \A e \in TermCalls : LastIn(calls, e, TermCalls) =>
                LastIn(calls', e, TermCalls) \/ (c = e /\ NoneIn(calls', TermCalls))
        BY <3>1, <3>2, TailBeside
    <3>4. c # SetContentTypeCall(requested) /\ c # SetupFilterCall(queryTerm)
        BY <3>1 DEF SetContentTypeCall, SetupFilterCall
    <3>5. TypeAgrees'
        BY <3>2, <3>3, <3>4, LastIsOf DEF TypeAgrees, AgreeInv
    <3>6. state'[identifier].term = NoQuery
        BY <1>t, <2>1, <2>3 DEF Fresh
    <3>7. TermAgrees'
        BY <3>2, <3>3, <3>4, <3>6, LastIsOf DEF TermAgrees, AgreeInv
    <3>8. Unasked'
        BY <1>h, <2>1 DEF Unasked, AgreeInv
    <3> QED BY <3>5, <3>7, <3>8 DEF AgreeInv
  <2> QED BY <2>2, <2>3
<1>2. CASE UnregisterInstance
  <2>1. /\ Take("unregisterInstance") /\ signals' = signals
        /\ state' = [state EXCEPT ![Caller] = Fresh]
      BY <1>2 DEF UnregisterInstance
  <2>2. Caller # identifier /\ c \notin TypeCalls /\ c \notin TermCalls
      BY <1>h, <2>1 DEF SessionInv, IdsKnown, TypeCalls, TermCalls
  <2>3. state'[identifier] = state[identifier]
      BY <1>t, <2>1, <2>2
  <2> QED BY <1>0, <2>1, <2>2, <2>3, BesideSame
<1>4. CASE ServeSetupFilter
  <2>1. /\ Take("setupFilter") /\ signals' = signals
        /\ state' = [state EXCEPT ![Caller].term = c.term]
      BY <1>4 DEF ServeSetupFilter, c
  <2>2. CASE Caller # identifier
    <3>1. c \notin TypeCalls /\ c \notin TermCalls
        BY <1>h, <2>1, <2>2 DEF TypeCalls, TermCalls
    <3>2. state'[identifier] = state[identifier]
        BY <1>t, <2>1, <2>2
    <3> QED BY <1>0, <2>1, <3>1, <3>2, BesideSame
  <2>3. CASE Caller = identifier
    <3>1. c \notin TypeCalls /\ c \in TermCalls /\ c.kind = "setupFilter"
        BY <1>h, <2>1, <2>3 DEF TypeCalls, TermCalls
    <3>2. calls' = Tail(calls) /\ c = Head(calls) /\ calls # <<>> /\ calls \in Seq(Call)
          /\ RestSame /\ SetsSame
        BY <1>h, <2>1
    <3>3. /\ Beside(calls, calls', TypeCalls) /\ ~NoneIn(calls, TermCalls)
          /\ \A e \in TermCalls : LastIn(calls, e, TermCalls) =>
                LastIn(calls', e, TermCalls) \/ (c = e /\ NoneIn(calls', TermCalls))
        BY <3>1, <3>2, TailBeside
    <3>4. /\ \A e : LastIn(calls, e, TypeCalls) => LastIn(calls', e, TypeCalls)
          /\ NoneIn(calls, TypeCalls) => NoneIn(calls', TypeCalls)
        BY <3>3, LastIsOf DEF Beside
    <3>5. /\ state'[identifier].term = c.term
          /\ state'[identifier].contentType = state[identifier].contentType
        BY <1>t, <2>1, <2>3 DEF State
    <3>6. (ModelAgrees => ModelAgrees') /\ (BackAgrees => BackAgrees')
        BY <2>1, <3>2 DEF ModelAgrees, BackAgrees, LeadsBack
    <3>7. TypeAgrees'
        BY <3>2, <3>4, <3>5, <3>6 DEF TypeAgrees, AgreeInv
    <3>8. c # RegisterCall /\ (c = SetupFilterCall(queryTerm) => c.term = queryTerm)
        BY <3>1 DEF RegisterCall, SetupFilterCall
    <3>9. TermAgrees'
        BY <3>2, <3>3, <3>5, <3>8, LastIsOf DEF TermAgrees, AgreeInv
    <3>10. Unasked'
        BY <1>h, <2>1 DEF Unasked, AgreeInv
    <3> QED BY <3>7, <3>9, <3>10 DEF AgreeInv
  <2> QED BY <2>2, <2>3
<1>5. CASE ServeFetchData
  <2> DEFINE told == [kind |-> "supportedCapabilitiesChanged", id |-> Caller]
  <2>1. Take("fetchData") /\ signals' = Append(signals, told) /\ state' = state
      BY <1>5 DEF ServeFetchData
  <2>2. told \in Signal /\ told \notin TypeSignals /\ told \notin BackSignals
      BY <1>h, <2>1 DEF Signal, TypeSignals, BackSignals
  <2>3. c \notin TypeCalls /\ c \notin TermCalls
      BY <1>h, <2>1 DEF TypeCalls, TermCalls
  <2>4. Beside(signals, signals', TypeSignals) /\ Beside(signals, signals', BackSignals)
      BY <1>s, <2>1, <2>2
  <2> QED BY <1>0, <2>1, <2>3, <2>4
<1>6. CASE ServeGoBack \/ ServeGoForward
  <2>1. /\ Take("goBack") \/ Take("goForward")
        /\ state' = state
      BY <1>6 DEF ServeGoBack, ServeGoForward
  <2>2. PICK s : s.kind = "reply" /\ signals' = Append(signals, s)
      BY <1>6 DEF ServeGoBack, ServeGoForward
  <2>3. signals' \in Seq(Signal) /\ signals \in Seq(Signal)
      BY <1>t DEF TypeOK
  <2>4. s \in Signal /\ s \notin TypeSignals /\ s \notin BackSignals
      BY <2>2, <2>3 DEF TypeSignals, BackSignals
  <2>5. c \notin TypeCalls /\ c \notin TermCalls
      BY <1>h, <2>1 DEF TypeCalls, TermCalls
  <2>6. Beside(signals, signals', TypeSignals) /\ Beside(signals, signals', BackSignals)
      BY <1>s, <2>2, <2>4
  <2> QED BY <1>0, <2>1, <2>5, <2>6
<1>3. CASE ServeSetContentType
  <2> DEFINE type == c.type
             b == [kind |-> "canGoBackChanged", id |-> Caller,
                   can |-> Parent[type] # NoType]
             m == [kind |-> "contentTypeChanged", id |-> Caller, type |-> type]
  <2>1. /\ Take("setContentType") /\ type \in Paths /\ c.id = Caller
        /\ state' = [state EXCEPT ![Caller].contentType = type]
        /\ signals' = IF type \in Types THEN signals \o <<b, m>> ELSE signals
      BY <1>3, <1>h, CallFields DEF ServeSetContentType, c
  <2>2. calls' = Tail(calls) /\ c = Head(calls) /\ calls # <<>> /\ calls \in Seq(Call)
        /\ RestSame /\ SetsSame /\ signals \in Seq(Signal) /\ c.kind = "setContentType"
        /\ c \in Call /\ Caller \in Session
      BY <1>h, <2>1
  <2>3. type \in Types => b \in Signal /\ m \in Signal
      BY <2>2 DEF Signal
  <2>4. b \notin TypeSignals /\ m \notin BackSignals
      BY DEF TypeSignals, BackSignals
  <2>5. ASSUME type \in Types
        PROVE  /\ signals' = Append(Append(signals, b), m)
               /\ Append(signals, b) \in Seq(Signal) /\ b \in Signal /\ m \in Signal
    <3>1. b \in Signal /\ m \in Signal /\ signals' = signals \o <<b, m>>
        BY <2>1, <2>3, <2>5
    <3> HIDE DEF b, m
    <3> QED BY <2>2, <3>1
  <2>6. CASE Caller # identifier
    <3>1. c \notin TypeCalls /\ c \notin TermCalls /\ b \notin BackSignals
          /\ m \notin TypeSignals
        BY <2>1, <2>6 DEF TypeCalls, TermCalls, TypeSignals, BackSignals
    <3>2. state'[identifier] = state[identifier]
        BY <1>t, <2>1, <2>6
    <3>3. Beside(signals, signals', TypeSignals) /\ Beside(signals, signals', BackSignals)
      <4>1. CASE type \in Types
        <5> DEFINE more == Append(signals, b)
        <5>1. signals' = Append(more, m) /\ more \in Seq(Signal) /\ b \in Signal
              /\ m \in Signal
            BY <2>5, <4>1
        <5> HIDE DEF b, m
        <5>2. Beside(signals, more, TypeSignals) /\ Beside(signals, more, BackSignals)
            BY <2>2, <2>4, <3>1, <5>1, AppendBeside
        <5> HIDE DEF more
        <5>3. Beside(more, Append(more, m), TypeSignals)
              /\ Beside(more, Append(more, m), BackSignals)
            BY <2>4, <3>1, <5>1, AppendBeside
        <5>4. Beside(signals, Append(more, m), TypeSignals)
              /\ Beside(signals, Append(more, m), BackSignals)
            BY <5>2, <5>3 DEF Beside
        <5> QED BY <5>1, <5>4, Zenon
      <4>2. CASE type \notin Types
          BY <2>1, <4>2, BesideSame
      <4> QED BY <4>1, <4>2
    <3> QED BY <1>0, <2>1, <3>1, <3>2, <3>3
  <2>7. CASE Caller = identifier
    <3>1. c \in TypeCalls /\ c \notin TermCalls
        BY <2>1, <2>2, <2>7 DEF TypeCalls, TermCalls
    <3>2. /\ Beside(calls, calls', TermCalls) /\ ~NoneIn(calls, TypeCalls)
          /\ \A e \in TypeCalls : LastIn(calls, e, TypeCalls) =>
                LastIn(calls', e, TypeCalls) \/ (c = e /\ NoneIn(calls', TypeCalls))
        BY <2>2, <3>1, TailBeside
    <3>3. /\ \A e : LastIn(calls, e, TermCalls) => LastIn(calls', e, TermCalls)
          /\ NoneIn(calls, TermCalls) => NoneIn(calls', TermCalls)
        BY <3>2, LastIsOf DEF Beside
    <3>4. /\ state'[identifier].contentType = type
          /\ state'[identifier].term = state[identifier].term
        BY <1>t, <2>1, <2>7 DEF State
    <3>5. TermAgrees'
        BY <2>2, <3>3, <3>4 DEF TermAgrees, AgreeInv
    <3>6. requested = NoType => type = NoType
      <4>1. c \in Range(calls)
          BY <1>h, <2>1
      <4> QED BY <2>1, <2>2, <2>7, <4>1 DEF AgreeInv, Unasked
    <3>7. Unasked'
      <4>1. requested = NoType => signals' = signals
          BY <2>1, <3>6, BrowseAssumption
      <4> QED BY <1>h, <2>1, <4>1 DEF Unasked, AgreeInv
    <3>8. c = SetContentTypeCall(requested) => ModelAgrees' /\ BackAgrees'
      <4> SUFFICES ASSUME c = SetContentTypeCall(requested)
                   PROVE  ModelAgrees' /\ BackAgrees'
          OBVIOUS
      <4>1. type = requested
          BY DEF SetContentTypeCall
      <4>2. CASE type \in Types
        <5> DEFINE more == Append(signals, b)
        <5>1. signals' = Append(more, m) /\ more \in Seq(Signal) /\ b \in Signal
              /\ m \in Signal
            BY <2>5, <4>2
        <5>2. b = BackSignal(requested) /\ m = TypeSignal(requested)
              /\ b \in BackSignals /\ m \in TypeSignals
            BY <2>7, <4>1, <4>2, <5>1
            DEF BackSignal, TypeSignal, LeadsBack, BackSignals, TypeSignals
        <5> HIDE DEF b, m
        <5>3. LastIn(more, b, BackSignals)
            BY <2>2, <5>1, <5>2, AppendBeside
        <5> HIDE DEF more
        <5>4. LastIn(Append(more, m), m, TypeSignals)
              /\ Beside(more, Append(more, m), BackSignals)
            BY <2>4, <5>1, <5>2, AppendBeside
        <5>5. LastIn(Append(more, m), b, BackSignals)
            BY <5>2, <5>3, <5>4 DEF Beside
        <5>6. LastIn(signals', m, TypeSignals) /\ LastIn(signals', b, BackSignals)
            BY <5>1, <5>4, <5>5, Zenon
        <5> QED BY <2>2, <5>2, <5>6 DEF ModelAgrees, BackAgrees
      <4>3. CASE type \notin Types
        <5>1. requested = NoType /\ signals' = signals
            BY <2>1, <4>1, <4>3 DEF Paths
        <5> QED BY <2>2, <5>1, BrowseAssumption
                DEF AgreeInv, Unasked, ModelAgrees, BackAgrees, LeadsBack
      <4> QED BY <4>2, <4>3
    <3>9. TypeAgrees'
      <4>1. c = SetContentTypeCall(requested) => type = requested
          BY DEF SetContentTypeCall
      <4> QED BY <2>2, <3>2, <3>4, <3>8, <4>1, LastIsOf DEF TypeAgrees, AgreeInv
    <3> QED BY <3>5, <3>7, <3>9 DEF AgreeInv
  <2> QED BY <2>6, <2>7
<1> QED BY <1>1, <1>2, <1>3, <1>4, <1>5, <1>6 DEF Backend

LEMMA AgreeWorker == TypeOK /\ AgreeInv /\ (Search \/ Record) => AgreeInv'
<1> SUFFICES ASSUME TypeOK, AgreeInv, Search \/ Record PROVE SameAgreement
    BY AgreementKept
<1> USE DEF modelVars, sessionVars
<1>1. signals' = signals \/ \E s : /\ s.kind \in {"dataFetched", "canGoForwardChanged"}
                                   /\ signals' = Append(signals, s)
    BY DEF Search, Record
<1>2. Beside(signals, signals', TypeSignals) /\ Beside(signals, signals', BackSignals)
  <2>1. CASE signals' = signals
      BY <2>1, BesideSame
  <2>2. ASSUME NEW s, s.kind \in {"dataFetched", "canGoForwardChanged"},
               signals' = Append(signals, s)
        PROVE  Beside(signals, signals', TypeSignals) /\ Beside(signals, signals', BackSignals)
    <3>1. signals' \in Seq(Signal) /\ signals \in Seq(Signal)
        BY TypeWorker DEF TypeOK
    <3>2. s \in Signal /\ s \notin TypeSignals /\ s \notin BackSignals
        BY <2>2, <3>1 DEF TypeSignals, BackSignals
    <3> QED BY <2>2, <3>1, <3>2, AppendBeside
  <2> QED BY <1>1, <2>1, <2>2
<1>3. /\ state'[identifier].contentType = state[identifier].contentType
      /\ state'[identifier].term = state[identifier].term
  <2>1. CASE Search
      BY <2>1 DEF Search
  <2>2. CASE Record
      BY <2>2 DEF Record, TypeOK, State
  <2> QED BY <2>1, <2>2
<1> QED BY <1>2, <1>3, BesideSame DEF SameAgreement, Search, Record

LEMMA AgreeNext == TypeOK /\ SessionInv /\ AgreeInv /\ [Next]_vars => AgreeInv'
<1>1. AgreeInv /\ UNCHANGED vars => AgreeInv'
    BY DEF AgreeInv, TypeAgrees, TermAgrees, Unasked, ModelAgrees, BackAgrees, TypeCalls,
       TermCalls, TypeSignals, BackSignals, RegisterCall, SetContentTypeCall, SetupFilterCall,
       TypeSignal, BackSignal, LeadsBack, vars, modelVars, sessionVars, backendVars
<1> QED BY <1>1, AgreeUser, AgreeModel, AgreeBackend, AgreeWorker DEF Next

LEMMA AgreementFollows == TypeOK /\ SessionInv /\ AgreeInv => InAgreement
<1> SUFFICES ASSUME TypeOK, AgreeInv, Settled, connected
             PROVE  /\ state[identifier].contentType = requested
                    /\ contentType = requested
                    /\ state[identifier].term = queryTerm
                    /\ query = NoQuery => queryTerm = NoQuery
                    /\ canGoBack <=> Back(identifier) # NoType
    BY DEF InAgreement
<1>1. calls = <<>> /\ signals = <<>> /\ initialized
    BY DEF Settled
<1>2. \A e, S : ~LastIn(<<>>, e, S)
    BY DEF LastIn
<1>3. state[identifier].contentType = requested /\ ModelAgrees /\ BackAgrees
    BY <1>1, <1>2 DEF AgreeInv, TypeAgrees
<1>4. state[identifier].term = queryTerm
    BY <1>1, <1>2 DEF AgreeInv, TermAgrees
<1>5. contentType = requested /\ (query = NoQuery => queryTerm = NoQuery)
    BY <1>1, <1>2, <1>3 DEF ModelAgrees
<1>6. canGoBack <=> LeadsBack(requested)
    BY <1>1, <1>2, <1>3 DEF BackAgrees
<1>7. Back(identifier) # NoType <=> LeadsBack(requested)
    BY <1>3 DEF Back, LeadsBack
<1> QED BY <1>3, <1>4, <1>5, <1>6, <1>7

(* However many sessions and requests there are, and in whatever order their *)
(* confirmations, replies and pages come: when all is quiet, model and       *)
(* backend have the content type that was asked for last and the same        *)
(* filter, and back leads back exactly where there is a way back.            *)
THEOREM AgreeInTheEnd == Spec => []InAgreement
<1>1. Init => TypeOK /\ SessionInv /\ AgreeInv
    BY TypeInit, SessionInit, AgreeInit
<1>2. TypeOK /\ SessionInv /\ AgreeInv /\ [Next]_vars => (TypeOK /\ SessionInv /\ AgreeInv)'
    BY TypeNext, SessionNext, AgreeNext
<1>3. TypeOK /\ SessionInv /\ AgreeInv => InAgreement
    BY AgreementFollows
<1> QED BY <1>1, <1>2, <1>3, PTL DEF Spec

------------------------------------------------------------------------------
(* The rows that are shown, and the flags within them.                       *)

AtMostOne(s, S) == \A j, k \in DOMAIN s : s[j] \in S /\ s[k] \in S => j = k

\* No entry of T comes behind one of S.
NoneBehind(s, S, T) == \A j, k \in DOMAIN s : j < k /\ s[j] \in S => s[k] \notin T

\* Entries of S with no entry of T ahead of them hold the rows of the page.
Hold(s, S, T, page) ==
    \A k \in DOMAIN s :
        (s[k] \in S /\ \A j \in DOMAIN s : j < k => s[j] \notin T) => s[k].items = page

\* The rows an entry of F is about are there, n rows, or in an entry of S ahead.
Covered(s, F, S, n) ==
    \A k \in DOMAIN s : s[k] \in F =>
        \/ s[k].start + s[k].count <= n
        \/ \E j \in DOMAIN s : j < k /\ s[j] \in S
                                 /\ s[k].start + s[k].count <= n + Len(s[j].items)

\* An entry of S comes right behind e.
FollowedBy(s, e, S) ==
    \A k \in DOMAIN s : s[k] = e => k + 1 \in DOMAIN s /\ s[k + 1] \in S

\* Calls, searches and signals of this session.
FetchCalls == {c \in Call : c.kind = "fetchData" /\ c.id = identifier}
SetupCalls == {c \in Call : c.kind = "setupFilter" /\ c.id = identifier}
SetCalls == {c \in Call : c.kind = "setContentType" /\ c.id = identifier}
NamedCalls == {c \in SetCalls : c.type \in Types}
UnnamedCalls == {c \in SetCalls : c.type \notin Types}
OpenJobs == {j \in Job : j.id = identifier /\ ~j.fetched}
PageSignals == {s \in Signal : s.kind = "dataFetched" /\ s.id = identifier}
FlagSignals == {s \in Signal : s.kind = "canGoForwardChanged" /\ s.id = identifier}

\* What follows the initialization: the session is registered with no term
\* and given a content type at once, which may be none before there was one.
RegisterThenSet == FollowedBy(calls, RegisterCall, SetCalls)

Unfiltered ==
    /\ ~initialized => RegisterCall \notin Range(calls) /\ NoneIn(calls, SetupCalls)
    /\ ~initialized \/ RegisterCall \in Range(calls) => state[identifier].term = NoQuery
    /\ NoneBehind(calls, SetupCalls, {RegisterCall})

Unnamed ==
    ~NoneIn(calls, UnnamedCalls) =>
        /\ contentType = NoType /\ NoneIn(signals, TypeSignals)
        /\ NoneBehind(calls, NamedCalls, UnnamedCalls)

\* The backend has the content type shown, or the last one the model will hear
\* of, unless it is just about to get one.
TypeShown ==
    \/ LastIn(signals, TypeSignal(state[identifier].contentType), TypeSignals)
    \/ NoneIn(signals, TypeSignals) /\ state[identifier].contentType = contentType
    \/ calls # <<>> /\ Head(calls) \in NamedCalls

ShownInv == RegisterThenSet /\ Unfiltered /\ Unnamed /\ TypeShown

\* A page is asked for one at a time.
OnePage ==
    /\ AtMostOne(calls, FetchCalls) /\ AtMostOne(jobs, OpenJobs)
    /\ AtMostOne(signals, PageSignals)
    /\ NoneIn(calls, FetchCalls) \/ NoneIn(jobs, OpenJobs)
    /\ NoneIn(calls, FetchCalls) \/ NoneIn(signals, PageSignals)
    /\ NoneIn(jobs, OpenJobs) \/ NoneIn(signals, PageSignals)
    /\ moreAvailable => /\ NoneIn(calls, FetchCalls) /\ NoneIn(jobs, OpenJobs)
                        /\ NoneIn(signals, PageSignals)

\* It continues the list, and is of what is shown unless that will change.
Asked(start) == [type |-> contentType, term |-> queryTerm, start |-> start]

PagesFit ==
    /\ \A c \in Range(calls) : c \in FetchCalls => c.start = Len(itemList)
    /\ \A j \in Range(jobs) : j \in OpenJobs =>
          /\ j.start = Len(itemList)
          /\ NoneIn(signals, TypeSignals) => j.type = contentType /\ j.term = queryTerm
    /\ Hold(signals, PageSignals, TypeSignals, Page(Asked(Len(itemList))))
    /\ NoneBehind(calls, FetchCalls, SetupCalls)

FlagsFollow ==
    /\ \A j \in Range(jobs) : (j.id = identifier /\ j.fetched) =>
          \/ j.start + Len(Page(j)) <= Len(itemList)
          \/ \E s \in Range(signals) : s \in PageSignals
                 /\ j.start + Len(Page(j)) <= Len(itemList) + Len(s.items)
    /\ Covered(signals, FlagSignals, PageSignals, Len(itemList))

RowsFit ==
    LET all == Listing(contentType, queryTerm) IN
    Len(itemList) <= Len(all) /\ itemList = SubSeq(all, 1, Len(itemList))

RowsInv == "rows" \notin stale => OnePage /\ PagesFit /\ FlagsFollow /\ RowsFit

LEMMA FewAppend ==
    ASSUME NEW Q, NEW s \in Seq(Q), NEW e \in Q, NEW S
    PROVE  /\ e \notin S => /\ NoneIn(s, S) => NoneIn(Append(s, e), S)
                            /\ AtMostOne(s, S) => AtMostOne(Append(s, e), S)
           /\ NoneIn(s, S) => AtMostOne(Append(s, e), S)
<1> DEFINE t == Append(s, e)
<1>1. \A i \in DOMAIN t : (i \in DOMAIN s /\ t[i] = s[i]) \/ (i = Len(s) + 1 /\ t[i] = e)
    BY AppendAt
<1> HIDE DEF t
<1>2. e \notin S => (NoneIn(s, S) => NoneIn(t, S)) /\ (AtMostOne(s, S) => AtMostOne(t, S))
    BY <1>1 DEF NoneIn, AtMostOne
<1>3. NoneIn(s, S) => AtMostOne(t, S)
    BY <1>1 DEF NoneIn, AtMostOne
<1> QED BY <1>2, <1>3 DEF t

LEMMA FewTail ==
    ASSUME NEW Q, NEW s \in Seq(Q), s # <<>>, NEW S
    PROVE  /\ NoneIn(s, S) => NoneIn(Tail(s), S) /\ Head(s) \notin S
           /\ AtMostOne(s, S) => AtMostOne(Tail(s), S)
           /\ AtMostOne(s, S) /\ Head(s) \in S => NoneIn(Tail(s), S)
           /\ Head(s) \notin S /\ NoneIn(Tail(s), S) => NoneIn(s, S)
<1> DEFINE t == Tail(s)
<1>1. /\ 1 \in DOMAIN s /\ Head(s) = s[1]
      /\ \A i \in DOMAIN t : i \in Nat /\ i > 0 /\ i + 1 \in DOMAIN s /\ t[i] = s[i + 1]
      /\ \A i \in DOMAIN s : /\ i \in Nat /\ i > 0
                             /\ i = 1 \/ (i - 1 \in DOMAIN t /\ t[i - 1] = s[i])
    BY TailAt
<1> HIDE DEF t
<1>2. NoneIn(s, S) => NoneIn(t, S) /\ Head(s) \notin S
    BY <1>1 DEF NoneIn
<1>3. ASSUME AtMostOne(s, S), NEW j \in DOMAIN t, NEW k \in DOMAIN t, t[j] \in S, t[k] \in S
      PROVE  j = k
  <2>1. j + 1 = k + 1
      BY <1>1, <1>3 DEF AtMostOne
  <2> QED BY <1>1, <2>1
<1>4. ASSUME AtMostOne(s, S), Head(s) \in S, NEW j \in DOMAIN t, t[j] \in S
      PROVE  FALSE
  <2>1. j + 1 = 1
      BY <1>1, <1>4 DEF AtMostOne
  <2> QED BY <1>1, <2>1
<1>5. Head(s) \notin S /\ NoneIn(t, S) => NoneIn(s, S)
    BY <1>1 DEF NoneIn
<1>6. /\ AtMostOne(s, S) => AtMostOne(t, S)
      /\ AtMostOne(s, S) /\ Head(s) \in S => NoneIn(t, S)
    BY <1>3, <1>4 DEF AtMostOne, NoneIn
<1> QED BY <1>2, <1>5, <1>6 DEF t

LEMMA BehindAppend ==
    ASSUME NEW Q, NEW s \in Seq(Q), NEW e \in Q, NEW S, NEW T,
           NoneBehind(s, S, T), e \notin T \/ NoneIn(s, S)
    PROVE  NoneBehind(Append(s, e), S, T)
<1> DEFINE t == Append(s, e)
<1>1. /\ \A i \in DOMAIN t : \/ i \in DOMAIN s /\ t[i] = s[i]
                             \/ i = Len(s) + 1 /\ t[i] = e
      /\ \A i \in DOMAIN s : i \in Nat /\ i < Len(s) + 1
      /\ Len(s) \in Nat
    BY AppendAt, LenProperties
<1> HIDE DEF t
<1> SUFFICES ASSUME NEW j \in DOMAIN t, NEW k \in DOMAIN t, j < k, t[j] \in S
             PROVE  t[k] \notin T
    BY DEF NoneBehind, t
<1>2. j \in DOMAIN s /\ t[j] = s[j]
    BY <1>1
<1>3. CASE k \in DOMAIN s /\ t[k] = s[k]
    BY <1>2, <1>3 DEF NoneBehind
<1>4. CASE t[k] = e
    BY <1>2, <1>4 DEF NoneIn
<1> QED BY <1>1, <1>3, <1>4

LEMMA BehindTail ==
    ASSUME NEW Q, NEW s \in Seq(Q), s # <<>>, NEW S, NEW T, NoneBehind(s, S, T)
    PROVE  NoneBehind(Tail(s), S, T) /\ (Head(s) \in S => NoneIn(Tail(s), T))
<1> DEFINE t == Tail(s)
<1>1. /\ 1 \in DOMAIN s /\ Head(s) = s[1]
      /\ \A i \in DOMAIN t : i \in Nat /\ i > 0 /\ i + 1 \in DOMAIN s /\ t[i] = s[i + 1]
    BY TailAt
<1> HIDE DEF t
<1>2. ASSUME NEW j \in DOMAIN t, NEW k \in DOMAIN t, j < k, t[j] \in S
      PROVE  t[k] \notin T
  <2>1. j + 1 < k + 1 /\ j + 1 \in DOMAIN s /\ k + 1 \in DOMAIN s
      BY <1>1, <1>2
  <2> QED BY <1>1, <1>2, <2>1 DEF NoneBehind
<1>3. ASSUME Head(s) \in S, NEW k \in DOMAIN t
      PROVE  t[k] \notin T
  <2>1. 1 < k + 1 /\ k + 1 \in DOMAIN s
      BY <1>1, <1>3
  <2> QED BY <1>1, <1>3, <2>1 DEF NoneBehind
<1> QED BY <1>2, <1>3 DEF NoneBehind, NoneIn, t

LEMMA HoldAppend ==
    ASSUME NEW Q, NEW s \in Seq(Q), NEW e \in Q, NEW S, NEW T, NEW page,
           Hold(s, S, T, page), e \in S /\ NoneIn(s, T) => e.items = page
    PROVE  Hold(Append(s, e), S, T, page)
<1> DEFINE t == Append(s, e)
<1>1. /\ \A i \in DOMAIN t : \/ i \in DOMAIN s /\ t[i] = s[i]
                             \/ i = Len(s) + 1 /\ t[i] = e
      /\ \A i \in DOMAIN s : i \in Nat /\ i < Len(s) + 1 /\ i \in DOMAIN t /\ t[i] = s[i]
    BY AppendAt
<1> HIDE DEF t
<1> SUFFICES ASSUME NEW k \in DOMAIN t, t[k] \in S,
                    \A j \in DOMAIN t : j < k => t[j] \notin T
             PROVE  t[k].items = page
    BY DEF Hold, t
<1>2. CASE k \in DOMAIN s /\ t[k] = s[k]
  <2>1. \A j \in DOMAIN s : j < k => s[j] \notin T
      BY <1>1
  <2> QED BY <1>2, <2>1 DEF Hold
<1>3. CASE k = Len(s) + 1 /\ t[k] = e
  <2>1. NoneIn(s, T)
      BY <1>1, <1>3 DEF NoneIn
  <2> QED BY <1>3, <2>1
<1> QED BY <1>1, <1>2, <1>3

LEMMA HoldTail ==
    ASSUME NEW Q, NEW s \in Seq(Q), s # <<>>, NEW S, NEW T, NEW page, Hold(s, S, T, page)
    PROVE  /\ Head(s) \notin T => Hold(Tail(s), S, T, page)
           /\ Head(s) \in S => Head(s).items = page
<1> DEFINE t == Tail(s)
<1>1. /\ 1 \in DOMAIN s /\ Head(s) = s[1]
      /\ \A i \in DOMAIN t : i \in Nat /\ i > 0 /\ i + 1 \in DOMAIN s /\ t[i] = s[i + 1]
      /\ \A i \in DOMAIN s : /\ i \in Nat /\ i > 0
                             /\ i = 1 \/ (i - 1 \in DOMAIN t /\ t[i - 1] = s[i])
    BY TailAt
<1> HIDE DEF t
<1>2. ASSUME Head(s) \notin T, NEW k \in DOMAIN t, t[k] \in S,
             \A j \in DOMAIN t : j < k => t[j] \notin T
      PROVE  t[k].items = page
  <2>1. ASSUME NEW j \in DOMAIN s, j < k + 1 PROVE s[j] \notin T
    <3>1. CASE j = 1
        BY <1>1, <1>2, <3>1
    <3>2. CASE j # 1
      <4>1. j - 1 \in DOMAIN t /\ t[j - 1] = s[j] /\ j \in Nat /\ k \in Nat
          BY <1>1, <3>2
      <4>2. j - 1 < k
          BY <2>1, <4>1
      <4> QED BY <1>2, <4>1, <4>2
    <3> QED BY <3>1, <3>2
  <2>2. k + 1 \in DOMAIN s /\ s[k + 1] = t[k]
      BY <1>1
  <2> QED BY <1>2, <2>1, <2>2 DEF Hold
<1>3. \A j \in DOMAIN s : ~(j < 1)
    BY <1>1
<1>4. Head(s) \in S => Head(s).items = page
    BY <1>1, <1>3 DEF Hold
<1> QED BY <1>2, <1>4 DEF Hold, t

LEMMA CoveredAppend ==
    ASSUME NEW Q, NEW s \in Seq(Q), NEW e \in Q, NEW F, NEW S, NEW n, Covered(s, F, S, n),
           e \in F => \/ e.start + e.count <= n
                      \/ \E x \in Range(s) :
                            x \in S /\ e.start + e.count <= n + Len(x.items)
    PROVE  Covered(Append(s, e), F, S, n)
<1> DEFINE t == Append(s, e)
<1>1. /\ \A i \in DOMAIN t : \/ i \in DOMAIN s /\ t[i] = s[i]
                             \/ i = Len(s) + 1 /\ t[i] = e
      /\ \A i \in DOMAIN s : i \in Nat /\ i < Len(s) + 1 /\ i \in DOMAIN t /\ t[i] = s[i]
    BY AppendAt
<1> HIDE DEF t
<1> SUFFICES ASSUME NEW k \in DOMAIN t, t[k] \in F, ~(t[k].start + t[k].count <= n)
             PROVE  \E j \in DOMAIN t : j < k /\ t[j] \in S
                        /\ t[k].start + t[k].count <= n + Len(t[j].items)
    BY DEF Covered, t
<1>2. CASE k \in DOMAIN s /\ t[k] = s[k]
  <2>1. PICK j \in DOMAIN s : j < k /\ s[j] \in S
                 /\ s[k].start + s[k].count <= n + Len(s[j].items)
      BY <1>2 DEF Covered
  <2>2. j \in DOMAIN t /\ t[j] = s[j]
      BY <1>1
  <2> QED BY <1>2, <2>1, <2>2
<1>3. CASE k = Len(s) + 1 /\ t[k] = e
  <2>1. PICK x \in Range(s) : x \in S /\ e.start + e.count <= n + Len(x.items)
      BY <1>3
  <2>2. PICK j \in DOMAIN s : x = s[j]
      BY DEF Range
  <2>3. j \in DOMAIN t /\ j < k /\ t[j] = x
      BY <1>1, <1>3, <2>2
  <2> QED BY <1>3, <2>1, <2>3
<1> QED BY <1>1, <1>2, <1>3

LEMMA CoveredTail ==
    ASSUME NEW Q, NEW s \in Seq(Q), s # <<>>, NEW F, NEW S, NEW n \in Nat, Covered(s, F, S, n)
    PROVE  /\ Head(s) \notin S => Covered(Tail(s), F, S, n)
           /\ (/\ Head(s) \in S /\ \A f \in F : f.start \in Nat /\ f.count \in Nat
               /\ \A x \in S : Len(x.items) \in Nat) =>
                  Covered(Tail(s), F, S, n + Len(Head(s).items))
           /\ Head(s) \in F => Head(s).start + Head(s).count <= n
<1> DEFINE t == Tail(s)
<1>1. /\ 1 \in DOMAIN s /\ Head(s) = s[1]
      /\ \A i \in DOMAIN t : i \in Nat /\ i > 0 /\ i + 1 \in DOMAIN s /\ t[i] = s[i + 1]
      /\ \A i \in DOMAIN s : /\ i \in Nat /\ i > 0
                             /\ i = 1 \/ (i - 1 \in DOMAIN t /\ t[i - 1] = s[i])
    BY TailAt
<1> HIDE DEF t
<1>2. ASSUME NEW k \in DOMAIN t, t[k] \in F
      PROVE  \/ t[k].start + t[k].count <= n
             \/ Head(s) \in S /\ t[k].start + t[k].count <= n + Len(Head(s).items)
             \/ \E j \in DOMAIN t : j < k /\ t[j] \in S
                    /\ t[k].start + t[k].count <= n + Len(t[j].items)
  <2>1. k + 1 \in DOMAIN s /\ s[k + 1] = t[k] /\ k \in Nat
      BY <1>1
  <2>2. CASE t[k].start + t[k].count <= n
      BY <2>2
  <2>3. ASSUME NEW j \in DOMAIN s, j < k + 1, s[j] \in S,
               t[k].start + t[k].count <= n + Len(s[j].items)
        PROVE  \/ Head(s) \in S /\ t[k].start + t[k].count <= n + Len(Head(s).items)
               \/ \E i \in DOMAIN t : i < k /\ t[i] \in S
                    /\ t[k].start + t[k].count <= n + Len(t[i].items)
    <3>1. CASE j = 1
        BY <1>1, <2>3, <3>1
    <3>2. CASE j # 1
      <4>1. j - 1 \in DOMAIN t /\ t[j - 1] = s[j] /\ j \in Nat
          BY <1>1, <3>2
      <4>2. j - 1 < k
          BY <2>1, <2>3, <4>1
      <4> QED BY <2>3, <4>1, <4>2
    <3> QED BY <3>1, <3>2
  <2> QED BY <1>2, <2>1, <2>2, <2>3 DEF Covered
<1>3. Head(s) \notin S => Covered(t, F, S, n)
    BY <1>2 DEF Covered
<1>4. ASSUME Head(s) \in S, \A f \in F : f.start \in Nat /\ f.count \in Nat,
             \A x \in S : Len(x.items) \in Nat
      PROVE  Covered(t, F, S, n + Len(Head(s).items))
  <2> DEFINE m == Len(Head(s).items)
  <2>1. m \in Nat
      BY <1>4
  <2> HIDE DEF m
  <2> SUFFICES ASSUME NEW k \in DOMAIN t, t[k] \in F
               PROVE  \/ t[k].start + t[k].count <= n + m
                      \/ \E j \in DOMAIN t : j < k /\ t[j] \in S
                            /\ t[k].start + t[k].count <= n + m + Len(t[j].items)
      BY DEF Covered, m
  <2>2. t[k].start \in Nat /\ t[k].count \in Nat
      BY <1>4
  <2>3. CASE t[k].start + t[k].count <= n
      BY <2>1, <2>2, <2>3
  <2>4. CASE t[k].start + t[k].count <= n + Len(Head(s).items)
      BY <2>4 DEF m
  <2>5. ASSUME NEW j \in DOMAIN t, j < k, t[j] \in S,
               t[k].start + t[k].count <= n + Len(t[j].items)
        PROVE  t[k].start + t[k].count <= n + m + Len(t[j].items)
    <3> DEFINE a == t[k].start + t[k].count
               b == Len(t[j].items)
    <3>1. a \in Nat /\ b \in Nat /\ a <= n + b
        BY <1>4, <2>2, <2>5
    <3> HIDE DEF a, b
    <3>2. a <= n + m + b
        BY <2>1, <3>1
    <3> QED BY <3>2 DEF a, b
  <2> QED BY <1>2, <2>3, <2>4, <2>5
<1>5. \A j \in DOMAIN s : ~(j < 1)
    BY <1>1
<1>6. Head(s) \in F => Head(s).start + Head(s).count <= n
    BY <1>1, <1>5 DEF Covered
<1> QED BY <1>3, <1>4, <1>6 DEF t

LEMMA FollowAppend ==
    ASSUME NEW Q, NEW s \in Seq(Q), NEW x \in Q, NEW e, NEW S, FollowedBy(s, e, S)
    PROVE  /\ x # e => FollowedBy(Append(s, x), e, S)
           /\ \A y \in Q : x = e /\ y \in S /\ y # e =>
                 FollowedBy(Append(Append(s, x), y), e, S)
<1> DEFINE t == Append(s, x)
<1>1. /\ t \in Seq(Q)
      /\ \A i \in DOMAIN t : \/ i \in DOMAIN s /\ t[i] = s[i]
                             \/ i = Len(s) + 1 /\ t[i] = x
      /\ \A i \in DOMAIN s : i \in DOMAIN t /\ t[i] = s[i]
      /\ Len(t) = Len(s) + 1
    BY AppendAt, AppendProperties
<1> HIDE DEF t
<1>2. x # e => FollowedBy(t, e, S)
    BY <1>1 DEF FollowedBy
<1>3. ASSUME NEW y \in Q, x = e, y \in S, y # e
      PROVE  FollowedBy(Append(t, y), e, S)
  <2> DEFINE u == Append(t, y)
  <2>1. /\ \A i \in DOMAIN u : \/ i \in DOMAIN t /\ u[i] = t[i]
                               \/ i = Len(t) + 1 /\ u[i] = y
        /\ \A i \in DOMAIN t : i \in DOMAIN u /\ u[i] = t[i]
        /\ Len(t) + 1 \in DOMAIN u /\ u[Len(t) + 1] = y
      BY <1>1, AppendAt
  <2> HIDE DEF u
  <2> SUFFICES ASSUME NEW k \in DOMAIN u, u[k] = e
               PROVE  k + 1 \in DOMAIN u /\ u[k + 1] \in S
      BY DEF FollowedBy, u
  <2>2. k \in DOMAIN t /\ u[k] = t[k]
      BY <1>3, <2>1
  <2>3. CASE k \in DOMAIN s /\ t[k] = s[k]
    <3>1. k + 1 \in DOMAIN s /\ s[k + 1] \in S
        BY <2>2, <2>3 DEF FollowedBy
    <3> QED BY <1>1, <2>1, <3>1
  <2>4. CASE k = Len(s) + 1
      BY <1>1, <1>3, <2>1, <2>4
  <2> QED BY <1>1, <2>2, <2>3, <2>4
<1> QED BY <1>2, <1>3 DEF t

LEMMA FollowTail ==
    ASSUME NEW Q, NEW s \in Seq(Q), s # <<>>, NEW e, NEW S, FollowedBy(s, e, S)
    PROVE  /\ FollowedBy(Tail(s), e, S)
           /\ Head(s) = e => Tail(s) # <<>> /\ Head(Tail(s)) \in S
<1> DEFINE t == Tail(s)
<1>1. /\ 1 \in DOMAIN s /\ Head(s) = s[1] /\ t \in Seq(Q)
      /\ \A i \in DOMAIN t : i \in Nat /\ i > 0 /\ i + 1 \in DOMAIN s /\ t[i] = s[i + 1]
      /\ \A i \in DOMAIN s : /\ i \in Nat /\ i > 0
                             /\ i = 1 \/ (i - 1 \in DOMAIN t /\ t[i - 1] = s[i])
    BY TailAt
<1> HIDE DEF t
<1>2. ASSUME NEW k \in DOMAIN t, t[k] = e
      PROVE  k + 1 \in DOMAIN t /\ t[k + 1] \in S
  <2>1. (k + 1) + 1 \in DOMAIN s /\ s[(k + 1) + 1] \in S /\ k \in Nat /\ k > 0
      BY <1>1, <1>2 DEF FollowedBy
  <2>2. (k + 1) + 1 # 1 /\ ((k + 1) + 1) - 1 = k + 1
      BY <2>1
  <2> QED BY <1>1, <2>1, <2>2
<1>3. ASSUME Head(s) = e
      PROVE  t # <<>> /\ Head(t) \in S
  <2>1. 1 + 1 \in DOMAIN s /\ s[1 + 1] \in S
      BY <1>1, <1>3 DEF FollowedBy
  <2>2. 1 \in DOMAIN t /\ t[1] = s[1 + 1]
      BY <1>1, <2>1
  <2>3. t # <<>>
      BY <2>2
  <2>4. Head(t) = t[1]
      BY <1>1, <2>3, TailAt
  <2> QED BY <2>1, <2>2, <2>3, <2>4
<1> QED BY <1>2, <1>3 DEF FollowedBy, t

\* The session stays, and so does what is of it.
LEMMA SameSets ==
    identifier' = identifier =>
        /\ FetchCalls' = FetchCalls /\ SetupCalls' = SetupCalls /\ SetCalls' = SetCalls
        /\ NamedCalls' = NamedCalls /\ UnnamedCalls' = UnnamedCalls
        /\ OpenJobs' = OpenJobs /\ PageSignals' = PageSignals
        /\ FlagSignals' = FlagSignals /\ TypeSignals' = TypeSignals
        /\ RegisterCall' = RegisterCall
        /\ \A type : TypeSignal(type)' = TypeSignal(type)
<1> SUFFICES ASSUME identifier' = identifier
             PROVE  /\ FetchCalls' = FetchCalls /\ SetupCalls' = SetupCalls
                    /\ SetCalls' = SetCalls
                    /\ NamedCalls' = NamedCalls /\ UnnamedCalls' = UnnamedCalls
                    /\ OpenJobs' = OpenJobs /\ PageSignals' = PageSignals
                    /\ FlagSignals' = FlagSignals /\ TypeSignals' = TypeSignals
                    /\ RegisterCall' = RegisterCall
                    /\ \A type : TypeSignal(type)' = TypeSignal(type)
    OBVIOUS
<1>1. FetchCalls' = FetchCalls /\ SetupCalls' = SetupCalls /\ SetCalls' = SetCalls
    BY DEF FetchCalls, SetupCalls, SetCalls
<1>2. NamedCalls' = NamedCalls /\ UnnamedCalls' = UnnamedCalls
    BY <1>1 DEF NamedCalls, UnnamedCalls
<1>3. OpenJobs' = OpenJobs /\ PageSignals' = PageSignals
      /\ FlagSignals' = FlagSignals /\ TypeSignals' = TypeSignals
    BY DEF OpenJobs, PageSignals, FlagSignals, TypeSignals
<1>4. RegisterCall' = RegisterCall /\ \A type : TypeSignal(type)' = TypeSignal(type)
    BY DEF RegisterCall, TypeSignal
<1> QED BY <1>1, <1>2, <1>3, <1>4

LEMMA CallKinds ==
    ASSUME NEW c
    PROVE  /\ c \in FetchCalls => c.kind = "fetchData"
           /\ c \in SetupCalls => c.kind = "setupFilter"
           /\ c \in SetCalls => c.kind = "setContentType"
           /\ c \in NamedCalls => c.kind = "setContentType"
           /\ c \in UnnamedCalls => c.kind = "setContentType"
           /\ c = RegisterCall => c.kind = "registerInstance"
           /\ c \in FetchCalls \cup SetupCalls \cup SetCalls \cup NamedCalls
                  \cup UnnamedCalls \cup {RegisterCall} => c.id = identifier
           /\ c \in SetCalls => c \in NamedCalls \/ c \in UnnamedCalls
           /\ c \in NamedCalls \cup UnnamedCalls => c \in SetCalls
    BY DEF FetchCalls, SetupCalls, SetCalls, NamedCalls, UnnamedCalls, RegisterCall

\* A step that leaves alone what the session is registered with.
SameShown ==
    /\ UNCHANGED <<identifier, initialized, contentType>>
    /\ Beside(signals, signals', TypeSignals)
    /\ state'[identifier].contentType = state[identifier].contentType
    /\ state'[identifier].term = state[identifier].term
    /\ \/ calls' = calls
       \/ \E c \in Call : /\ calls' = Append(calls, c)
                          /\ c # RegisterCall /\ c \notin UnnamedCalls
                          /\ c \in SetupCalls => initialized
       \/ /\ calls # <<>> /\ calls' = Tail(calls)
          /\ Head(calls) # RegisterCall /\ Head(calls) \notin NamedCalls

LEMMA ShownKept == TypeOK /\ ShownInv /\ SameShown => ShownInv'
<1> SUFFICES ASSUME TypeOK, ShownInv, SameShown PROVE ShownInv'
    OBVIOUS
<1>0. /\ UNCHANGED <<identifier, initialized, contentType>>
      /\ state'[identifier].contentType = state[identifier].contentType
      /\ state'[identifier].term = state[identifier].term
      /\ calls \in Seq(Call)
    BY DEF SameShown, TypeOK
<1>1. /\ SetupCalls' = SetupCalls /\ SetCalls' = SetCalls
      /\ NamedCalls' = NamedCalls /\ UnnamedCalls' = UnnamedCalls
      /\ TypeSignals' = TypeSignals /\ RegisterCall' = RegisterCall
      /\ \A type : TypeSignal(type)' = TypeSignal(type)
    BY <1>0, SameSets
<1> DEFINE Well(t) ==
        /\ FollowedBy(t, RegisterCall, SetCalls)
        /\ RegisterCall \in Range(t) => RegisterCall \in Range(calls)
        /\ ~initialized /\ NoneIn(calls, SetupCalls) => NoneIn(t, SetupCalls)
        /\ NoneBehind(t, SetupCalls, {RegisterCall})
        /\ NoneIn(calls, UnnamedCalls) => NoneIn(t, UnnamedCalls)
        /\ NoneBehind(calls, NamedCalls, UnnamedCalls) =>
               NoneBehind(t, NamedCalls, UnnamedCalls)
        /\ (calls # <<>> /\ Head(calls) \in NamedCalls) =>
               (t # <<>> /\ Head(t) \in NamedCalls)
<1>2. Well(calls')
  <2>0. FollowedBy(calls, RegisterCall, SetCalls)
        /\ NoneBehind(calls, SetupCalls, {RegisterCall})
      BY DEF ShownInv, RegisterThenSet, Unfiltered
  <2>1. CASE calls' = calls
      BY <2>0, <2>1
  <2>2. ASSUME NEW c \in Call, calls' = Append(calls, c),
               c # RegisterCall, c \notin UnnamedCalls, c \in SetupCalls => initialized
        PROVE  Well(calls')
    <3> DEFINE t == Append(calls, c)
    <3>1. /\ FollowedBy(t, RegisterCall, SetCalls)
          /\ NoneBehind(t, SetupCalls, {RegisterCall})
          /\ NoneBehind(calls, NamedCalls, UnnamedCalls) =>
                 NoneBehind(t, NamedCalls, UnnamedCalls)
          /\ NoneIn(calls, UnnamedCalls) => NoneIn(t, UnnamedCalls)
          /\ c \notin SetupCalls /\ NoneIn(calls, SetupCalls) => NoneIn(t, SetupCalls)
          /\ Range(t) = Range(calls) \cup {c}
          /\ calls # <<>> => t # <<>> /\ Head(t) = Head(calls)
      <4>1. c \notin {RegisterCall}
          BY <2>2
      <4>2. FollowedBy(t, RegisterCall, SetCalls)
          BY <1>0, <2>0, <2>2, FollowAppend
      <4>3. NoneBehind(t, SetupCalls, {RegisterCall})
          BY <1>0, <2>0, <4>1, BehindAppend
      <4>4. NoneBehind(calls, NamedCalls, UnnamedCalls) =>
                 NoneBehind(t, NamedCalls, UnnamedCalls)
          BY <1>0, <2>2, BehindAppend
      <4>5. /\ NoneIn(calls, UnnamedCalls) => NoneIn(t, UnnamedCalls)
            /\ c \notin SetupCalls /\ NoneIn(calls, SetupCalls) => NoneIn(t, SetupCalls)
          BY <1>0, <2>2, FewAppend
      <4>6. Range(t) = Range(calls) \cup {c}
          BY <1>0, RangeAppend
      <4>7. calls # <<>> => t # <<>> /\ Head(t) = Head(calls)
          BY <1>0
      <4> QED BY <4>2, <4>3, <4>4, <4>5, <4>6, <4>7
    <3> QED BY <2>2, <3>1
  <2>3. ASSUME calls # <<>>, calls' = Tail(calls),
               Head(calls) # RegisterCall, Head(calls) \notin NamedCalls
        PROVE  Well(calls')
    <3>1. FollowedBy(Tail(calls), RegisterCall, SetCalls)
        BY <1>0, <2>0, <2>3, FollowTail
    <3>2. NoneBehind(Tail(calls), SetupCalls, {RegisterCall})
        BY <1>0, <2>0, <2>3, BehindTail
    <3>3. NoneBehind(calls, NamedCalls, UnnamedCalls) =>
                 NoneBehind(Tail(calls), NamedCalls, UnnamedCalls)
        BY <1>0, <2>3, BehindTail
    <3>4. /\ NoneIn(calls, UnnamedCalls) => NoneIn(Tail(calls), UnnamedCalls)
          /\ NoneIn(calls, SetupCalls) => NoneIn(Tail(calls), SetupCalls)
        BY <1>0, <2>3, FewTail
    <3>5. Range(Tail(calls)) \subseteq Range(calls)
        BY <1>0, <2>3, RangeTail
    <3> QED BY <2>3, <3>1, <3>2, <3>3, <3>4, <3>5
  <2> QED BY <2>1, <2>2, <2>3 DEF SameShown
<1>3. RegisterThenSet'
    BY <1>1, <1>2 DEF RegisterThenSet
<1>4. Unfiltered'
    BY <1>0, <1>1, <1>2 DEF Unfiltered, ShownInv
<1>5. /\ \A e : LastIn(signals, e, TypeSignals) => LastIn(signals', e, TypeSignals)
      /\ NoneIn(signals, TypeSignals) => NoneIn(signals', TypeSignals)
    BY LastIsOf DEF SameShown, Beside
<1>6. Unnamed'
    BY <1>0, <1>1, <1>2, <1>5 DEF Unnamed, ShownInv
<1>7. TypeShown'
    BY <1>0, <1>1, <1>2, <1>5 DEF TypeShown, ShownInv
<1> QED BY <1>3, <1>4, <1>6, <1>7 DEF ShownInv

LEMMA ShownInit == Init => ShownInv
<1> SUFFICES ASSUME Init PROVE ShownInv
    OBVIOUS
<1>1. Range(<<>>) = {} /\ DOMAIN <<>> = {}
    BY DEF Range
<1>2. /\ identifier \in Session /\ calls = <<>> /\ signals = <<>>
      /\ contentType = NoType /\ state[identifier] = Fresh
    BY TypeInit DEF Init, TypeOK
<1>3. RegisterThenSet /\ Unnamed
    BY <1>1, <1>2 DEF RegisterThenSet, Unnamed, FollowedBy, NoneIn
<1>4. Unfiltered
    BY <1>1, <1>2 DEF Unfiltered, NoneIn, NoneBehind, Fresh
<1>5. TypeShown
    BY <1>1, <1>2 DEF TypeShown, NoneIn, Fresh
<1> QED BY <1>3, <1>4, <1>5 DEF ShownInv

\* A content type is asked for, or again none before there was one.
LEMMA ShownAsk ==
    ASSUME TypeOK, AgreeInv, ShownInv, NEW type \in Paths, AskFor(type),
           type = NoType => requested = NoType,
           UNCHANGED <<identifier, initialized, contentType, state, signals>>
    PROVE  ShownInv'
<1> DEFINE c == SetContentTypeCall(type)
<1>1. /\ c \in Call /\ calls \in Seq(Call)
      /\ connected => calls' = Append(calls, c)
      /\ ~connected => calls' = calls
    BY AskForSends DEF TypeOK
<1>2. /\ c \in SetCalls /\ c # RegisterCall /\ c \notin SetupCalls
      /\ c \in UnnamedCalls <=> type \notin Types
    BY <1>1, CallKinds DEF SetContentTypeCall, SetCalls, UnnamedCalls
<1> HIDE DEF c
<1>3. CASE ~connected \/ type \in Types
  <2>1. SameShown
      BY <1>1, <1>2, <1>3, BesideSame DEF SameShown
  <2> QED BY <2>1, ShownKept
<1>4. CASE connected /\ type \notin Types
  <2>1. requested = NoType /\ type = NoType /\ calls' = Append(calls, c)
      BY <1>1, <1>4 DEF Paths
  <2>2. /\ contentType = NoType /\ NoneIn(signals, TypeSignals)
        /\ \A d \in Range(calls) : d \in SetCalls => d.type = NoType
      BY <2>1, CallKinds DEF AgreeInv, Unasked, SetCalls
  <2>3. NoneIn(calls, NamedCalls)
    <3>1. \A k \in DOMAIN calls : calls[k] \in Range(calls)
        BY DEF Range
    <3> QED BY <2>2, <3>1, BrowseAssumption DEF NoneIn, NamedCalls
  <2>4. ~(calls # <<>> /\ Head(calls) \in NamedCalls)
      BY <1>1, <2>3, FewTail
  <2>5. state[identifier].contentType = contentType
      BY <2>2, <2>4, TailAt DEF TypeShown, ShownInv, LastIn, NoneIn
  <2>6. /\ SetupCalls' = SetupCalls /\ SetCalls' = SetCalls
        /\ NamedCalls' = NamedCalls /\ UnnamedCalls' = UnnamedCalls
        /\ TypeSignals' = TypeSignals /\ RegisterCall' = RegisterCall
      BY SameSets
  <2>7. FollowedBy(Append(calls, c), RegisterCall, SetCalls)
      BY <1>1, <1>2, FollowAppend DEF ShownInv, RegisterThenSet
  <2>8. c \notin {RegisterCall}
      BY <1>2
  <2>9. NoneBehind(Append(calls, c), SetupCalls, {RegisterCall})
      BY <1>1, <2>8, BehindAppend DEF ShownInv, Unfiltered
  <2>10. NoneIn(calls, SetupCalls) => NoneIn(Append(calls, c), SetupCalls)
      BY <1>1, <1>2, FewAppend
  <2>11. NoneBehind(Append(calls, c), NamedCalls, UnnamedCalls)
    <3>1. NoneBehind(calls, NamedCalls, UnnamedCalls)
        BY <2>3 DEF NoneBehind, NoneIn
    <3> QED BY <1>1, <2>3, <3>1, BehindAppend
  <2>12. Range(Append(calls, c)) = Range(calls) \cup {c}
      BY <1>1, RangeAppend
  <2>13. RegisterThenSet' /\ Unnamed' /\ TypeShown'
      BY <2>1, <2>2, <2>5, <2>6, <2>7, <2>11 DEF RegisterThenSet, Unnamed, TypeShown
  <2>14. Unfiltered'
      BY <1>2, <2>1, <2>6, <2>9, <2>10, <2>12 DEF Unfiltered, ShownInv
  <2> QED BY <2>13, <2>14 DEF ShownInv
<1> QED BY <1>3, <1>4

\* No content type has been asked for: none is there or on its way.
LEMMA NothingNamed ==
    ASSUME TypeOK, AgreeInv, ShownInv, requested = NoType
    PROVE  /\ contentType = NoType /\ NoneIn(signals, TypeSignals)
           /\ NoneIn(calls, NamedCalls) /\ state[identifier].contentType = contentType
<1>1. /\ contentType = NoType /\ NoneIn(signals, TypeSignals)
      /\ \A d \in Range(calls) : d \in SetCalls => d.type = NoType
    BY CallKinds DEF AgreeInv, Unasked, SetCalls
<1>2. NoneIn(calls, NamedCalls)
  <2>1. \A k \in DOMAIN calls : calls[k] \in Range(calls)
      BY DEF Range
  <2> QED BY <1>1, <2>1, BrowseAssumption DEF NoneIn, NamedCalls
<1>3. ~(calls # <<>> /\ Head(calls) \in NamedCalls)
    BY <1>2, FewTail DEF TypeOK
<1>4. state[identifier].contentType = contentType
    BY <1>1, <1>3, TailAt DEF TypeShown, ShownInv, LastIn, NoneIn
<1> QED BY <1>1, <1>2, <1>4

LEMMA ShownUser ==
    TypeOK /\ SessionInv /\ AgreeInv /\ ShownInv
        /\ (User \/ OnInitializationDone \/ FetchMore) => ShownInv'
<1> SUFFICES ASSUME TypeOK, SessionInv, AgreeInv, ShownInv,
                    User \/ OnInitializationDone \/ FetchMore
             PROVE  ShownInv'
    OBVIOUS
<1> USE DEF modelVars, sessionVars, backendVars
<1>0. ASSUME NEW c \in Call, calls' = Append(calls, c),
             c.kind \in {"goBack", "goForward", "fetchData"},
             UNCHANGED <<initialized, identifier, contentType, state, signals>>
      PROVE  ShownInv'
  <2>1. c # RegisterCall /\ c \notin UnnamedCalls /\ c \notin SetupCalls
      BY <1>0, CallKinds
  <2>2. SameShown
      BY <1>0, <2>1, BesideSame DEF SameShown
  <2> QED BY <2>2, ShownKept
<1>1. CASE Connect
    BY <1>1, ShownKept, BesideSame DEF Connect, SameShown
<1>2. CASE Disconnect
  <2>1. /\ Unused' /\ ~initialized' /\ ~connected' /\ contentType' = NoType
        /\ signals' = signals /\ TypeOK'
      BY <1>2, SessionUser, TypeUser DEF Disconnect, SessionInv, User
  <2>2. /\ state'[identifier'] = Fresh
        /\ \A c \in Range(calls') : c.id # identifier'
        /\ \A s \in Range(signals') : s.kind # "reply" => s.id # identifier'
      BY <2>1 DEF Unused
  <2>3. /\ \A k \in DOMAIN calls' : calls'[k] \in Range(calls')
        /\ \A k \in DOMAIN signals' : signals'[k] \in Range(signals')
      BY DEF Range
  <2>4. \A k \in DOMAIN calls' :
            /\ calls'[k] \notin SetupCalls' /\ calls'[k] \notin NamedCalls'
            /\ calls'[k] \notin UnnamedCalls' /\ calls'[k] # RegisterCall'
      BY <2>2, <2>3 DEF SetupCalls, NamedCalls, UnnamedCalls, SetCalls, RegisterCall
  <2>5. NoneIn(signals', TypeSignals')
      BY <2>2, <2>3 DEF NoneIn, TypeSignals
  <2>6. RegisterThenSet'
      BY <2>4 DEF RegisterThenSet, FollowedBy
  <2>7. RegisterCall' \notin Range(calls')
      BY <2>2 DEF RegisterCall
  <2>8. Unfiltered'
      BY <2>1, <2>2, <2>4, <2>7 DEF Unfiltered, NoneIn, NoneBehind, Fresh
  <2>9. Unnamed'
      BY <2>4 DEF Unnamed, NoneIn
  <2>10. TypeShown'
      BY <2>1, <2>2, <2>5 DEF TypeShown, Fresh
  <2> QED BY <2>6, <2>8, <2>9, <2>10 DEF ShownInv
<1>3. CASE GoBack
  <2>1. [kind |-> "goBack", id |-> identifier] \in Call
      BY CallsTyped DEF TypeOK
  <2> QED BY <1>0, <1>3, <2>1 DEF GoBack
<1>4. ASSUME NEW type \in Offered, SetContentType(type) PROVE ShownInv'
  <2>1. type \in Paths /\ type # NoType
      BY BrowseAssumption DEF Paths
  <2> QED BY <1>4, <2>1, ShownAsk DEF SetContentType, UpdateContentType
<1>5. ASSUME NEW new \in Terms \cup Unparsable, SetQuery(new) PROVE ShownInv'
  <2>1. requested \in Paths
      BY DEF TypeOK
  <2> QED BY <1>5, <2>1, ShownAsk DEF SetQuery
<1>6. ASSUME NEW i \in DOMAIN itemList, NEW inModel \in BOOLEAN,
             GoForward(i - 1, inModel)
      PROVE  ShownInv'
  <2>1. PICK c : c.kind = "goForward" /\ calls' = Append(calls, c)
      BY <1>6 DEF GoForward
  <2>2. calls' \in Seq(Call) /\ calls \in Seq(Call)
      BY <1>6, TypeUser DEF User, TypeOK
  <2>3. c \in Call
      BY <2>1, <2>2
  <2> QED BY <1>0, <1>6, <2>1, <2>3 DEF GoForward
<1>7. CASE OnInitializationDone
  <2> DEFINE c == SetContentTypeCall(requested)
             more == Append(calls, RegisterCall)
  <2>1. /\ RegisterCall \in Call /\ c \in Call /\ calls \in Seq(Call)
        /\ calls' = Append(more, c) /\ more \in Seq(Call)
        /\ ~initialized /\ initialized'
        /\ UNCHANGED <<identifier, contentType, state, signals>>
      BY <1>7, Initializes DEF TypeOK, OnInitializationDone
  <2>2. /\ c \in SetCalls /\ c # RegisterCall /\ c \notin SetupCalls
        /\ RegisterCall \notin UnnamedCalls
        /\ c \in UnnamedCalls => requested \notin Types
      BY <2>1, CallKinds DEF SetContentTypeCall, SetCalls, UnnamedCalls, RegisterCall
  <2> HIDE DEF c
  <2>3. /\ SetupCalls' = SetupCalls /\ SetCalls' = SetCalls
        /\ NamedCalls' = NamedCalls /\ UnnamedCalls' = UnnamedCalls
        /\ TypeSignals' = TypeSignals /\ RegisterCall' = RegisterCall
        /\ \A type : TypeSignal(type)' = TypeSignal(type)
      BY <2>1, SameSets
  <2>4. FollowedBy(Append(more, c), RegisterCall, SetCalls)
      BY <2>1, <2>2, FollowAppend DEF ShownInv, RegisterThenSet
  <2>5. NoneBehind(Append(more, c), SetupCalls, {RegisterCall})
    <3>1. NoneBehind(more, SetupCalls, {RegisterCall})
        BY <2>1, BehindAppend DEF ShownInv, Unfiltered
    <3>2. c \notin {RegisterCall}
        BY <2>2
    <3> HIDE DEF more
    <3> QED BY <2>1, <3>1, <3>2, BehindAppend
  <2>6. state[identifier].term = NoQuery
      BY <2>1 DEF ShownInv, Unfiltered
  <2>7. Unnamed'
    <3>1. CASE c \in UnnamedCalls
      <4>1. requested = NoType
          BY <2>2, <3>1 DEF TypeOK, Paths
      <4>2. NoneIn(calls, NamedCalls) /\ contentType = NoType /\ NoneIn(signals, TypeSignals)
          BY <4>1, NothingNamed
      <4>3. NoneIn(more, NamedCalls)
          BY <2>1, <4>2, FewAppend, CallKinds
      <4>4. NoneBehind(more, NamedCalls, UnnamedCalls)
          BY <4>3 DEF NoneBehind, NoneIn
      <4> HIDE DEF more
      <4>5. NoneBehind(Append(more, c), NamedCalls, UnnamedCalls)
          BY <2>1, <4>3, <4>4, BehindAppend
      <4> QED BY <2>1, <2>3, <4>2, <4>5 DEF Unnamed
    <3>2. CASE c \notin UnnamedCalls
      <4>1. /\ NoneIn(calls, UnnamedCalls) => NoneIn(more, UnnamedCalls)
            /\ NoneBehind(calls, NamedCalls, UnnamedCalls) =>
                   NoneBehind(more, NamedCalls, UnnamedCalls)
          BY <2>1, <2>2, FewAppend, BehindAppend
      <4> HIDE DEF more
      <4>2. /\ NoneIn(more, UnnamedCalls) => NoneIn(Append(more, c), UnnamedCalls)
            /\ NoneBehind(more, NamedCalls, UnnamedCalls) =>
                   NoneBehind(Append(more, c), NamedCalls, UnnamedCalls)
          BY <2>1, <3>2, FewAppend, BehindAppend
      <4> QED BY <2>1, <2>3, <4>1, <4>2 DEF Unnamed, ShownInv
    <3> QED BY <3>1, <3>2
  <2>8. TypeShown'
    <3>1. calls # <<>> => /\ more # <<>> /\ Head(more) = Head(calls)
                          /\ calls' # <<>> /\ Head(calls') = Head(calls)
      <4>1. calls # <<>> => more # <<>> /\ Head(more) = Head(calls)
          BY <2>1
      <4> HIDE DEF more
      <4>2. more # <<>> => Append(more, c) # <<>> /\ Head(Append(more, c)) = Head(more)
          BY <2>1
      <4> QED BY <2>1, <4>1, <4>2
    <3> QED BY <2>1, <2>3, <3>1 DEF TypeShown, ShownInv
  <2>9. RegisterThenSet' /\ Unfiltered'
      BY <2>1, <2>3, <2>4, <2>5, <2>6 DEF RegisterThenSet, Unfiltered
  <2> QED BY <2>7, <2>8, <2>9 DEF ShownInv
<1>8. CASE FetchMore
  <2>1. FetchCall(Len(itemList)) \in Call /\ FetchCall(Len(itemList)).kind = "fetchData"
      BY CallsTyped, LenProperties DEF TypeOK, FetchCall
  <2> QED BY <1>0, <1>8, <2>1 DEF FetchMore
<1> QED BY <1>1, <1>2, <1>3, <1>4, <1>5, <1>6, <1>7, <1>8 DEF User

LEMMA ShownModel == TypeOK /\ SessionInv /\ AgreeInv /\ ShownInv /\ Model => ShownInv'
<1> SUFFICES ASSUME TypeOK, SessionInv, AgreeInv, ShownInv, Model PROVE ShownInv'
    OBVIOUS
<1> USE DEF modelVars, sessionVars, backendVars
<1> DEFINE s == Head(signals)
<1>h. ASSUME NEW kind, Hear(kind)
      PROVE  /\ s \in Signal /\ s.kind = kind /\ signals' = Tail(signals)
             /\ signals # <<>> /\ signals \in Seq(Signal)
             /\ UNCHANGED <<initialized, identifier, connected, state>>
             /\ kind # "reply" => Concerned \/ s.id # identifier
             /\ Concerned => initialized
  <2>1. kind # "reply" => Concerned \/ s.id # identifier
      BY <1>h, Heard, HeadSignal DEF SessionInv, Unused, Concerned
  <2>2. Concerned => initialized
      BY <1>h DEF Hear, Concerned
  <2> QED BY <1>h, <2>1, <2>2, HeadSignal DEF Hear, TypeOK
<1> HIDE DEF s
<1>0. ASSUME NEW kind, Hear(kind), s \notin TypeSignals, UNCHANGED <<contentType, calls>>
      PROVE  ShownInv'
  <2>1. Beside(signals, Tail(signals), TypeSignals)
      BY <1>0, <1>h, TailBeside DEF s
  <2>2. SameShown
      BY <1>0, <1>h, <2>1 DEF SameShown
  <2> QED BY <2>2, ShownKept
<1>1. CASE OnIgnored
  <2>1. Hear(s.kind) /\ s.kind # "reply" /\ ~Concerned
      BY <1>1 DEF OnIgnored, s
  <2>2. s \notin TypeSignals
      BY <1>h, <2>1 DEF TypeSignals
  <2> QED BY <1>0, <1>1, <2>1, <2>2 DEF OnIgnored
<1>2. CASE OnCapabilitiesChanged
    BY <1>2, <1>h, <1>0 DEF OnCapabilitiesChanged, TypeSignals
<1>3. CASE OnCanGoBackChanged
    BY <1>3, <1>h, <1>0 DEF OnCanGoBackChanged, TypeSignals
<1>5. CASE OnDataFetched
    BY <1>5, <1>h, <1>0 DEF OnDataFetched, TypeSignals
<1>6. CASE OnCanGoForwardChanged
    BY <1>6, <1>h, <1>0 DEF OnCanGoForwardChanged, TypeSignals
<1>7. CASE OnReply
  <2>1. Hear("reply")
      BY <1>7 DEF OnReply
  <2>2. s \notin TypeSignals /\ s.type \in Paths
      BY <1>h, <2>1, SignalFields DEF TypeSignals
  <2>3. CASE s.type # NoType /\ s.inModel
    <3>1. UpdateContentType(s.type)
        BY <1>7, <2>3 DEF OnReply, s
    <3>2. SetContentTypeCall(s.type) \in Call /\ (connected => calls' = Append(calls, SetContentTypeCall(s.type)))
          /\ (~connected => calls' = calls) /\ UNCHANGED contentType
        BY <2>2, <3>1, AskForSends DEF UpdateContentType
    <3>3. SetContentTypeCall(s.type) # RegisterCall
          /\ SetContentTypeCall(s.type) \notin UnnamedCalls
          /\ SetContentTypeCall(s.type) \notin SetupCalls
        BY <2>2, <2>3, CallKinds DEF SetContentTypeCall, UnnamedCalls, Paths
    <3>4. Beside(signals, Tail(signals), TypeSignals)
        BY <1>h, <2>1, <2>2, TailBeside DEF s
    <3>5. SameShown
        BY <1>h, <2>1, <3>2, <3>3, <3>4 DEF SameShown
    <3> QED BY <3>5, ShownKept
  <2>4. CASE ~(s.type # NoType /\ s.inModel)
    <3>1. UNCHANGED <<modelVars, calls, stale>>
        BY <1>7, <2>4 DEF OnReply, s
    <3> QED BY <1>0, <2>1, <2>2, <3>1
  <2> QED BY <2>3, <2>4
<1>4. CASE OnContentTypeChanged
  <2> DEFINE f == SetupFilterCall(query)
             c == FetchCall(0)
  <2>1. /\ Hear("contentTypeChanged") /\ Concerned /\ contentType' = s.type
      BY <1>4 DEF OnContentTypeChanged, s
  <2>2. /\ UNCHANGED <<initialized, identifier, state>> /\ signals' = Tail(signals)
        /\ signals # <<>> /\ signals \in Seq(Signal) /\ calls \in Seq(Call)
        /\ s \in Signal /\ s.kind = "contentTypeChanged" /\ s.id = identifier /\ initialized
      BY <1>h, <2>1 DEF TypeOK, Concerned, s
  <2>3. s \in TypeSignals
      BY <2>2 DEF TypeSignals
  <2>4. /\ SetupCalls' = SetupCalls /\ SetCalls' = SetCalls
        /\ NamedCalls' = NamedCalls /\ UnnamedCalls' = UnnamedCalls
        /\ TypeSignals' = TypeSignals /\ RegisterCall' = RegisterCall
        /\ \A type : TypeSignal(type)' = TypeSignal(type)
      BY <2>2, SameSets
  <2>5. ~NoneIn(signals, TypeSignals)
      BY <2>2, <2>3, FewTail DEF s
  <2>6. NoneIn(calls, UnnamedCalls)
      BY <2>5 DEF ShownInv, Unnamed
  <2> DEFINE Well(t) ==
          /\ t \in Seq(Call)
          /\ FollowedBy(t, RegisterCall, SetCalls)
          /\ NoneBehind(t, SetupCalls, {RegisterCall})
          /\ NoneIn(t, UnnamedCalls)
          /\ RegisterCall \in Range(t) => RegisterCall \in Range(calls)
          /\ calls # <<>> => t # <<>> /\ Head(t) = Head(calls)
  <2>7. Well(calls)
      BY <2>2, <2>6 DEF ShownInv, RegisterThenSet, Unfiltered
  <2>8. ASSUME NEW t, Well(t), NEW d \in Call, d.kind \in {"setupFilter", "fetchData"}
        PROVE  Well(Append(t, d))
    <3>1. d # RegisterCall /\ d \notin {RegisterCall} /\ d \notin UnnamedCalls
        BY <2>8, CallKinds
    <3>2. FollowedBy(Append(t, d), RegisterCall, SetCalls)
        BY <2>8, <3>1, FollowAppend
    <3>3. NoneBehind(Append(t, d), SetupCalls, {RegisterCall})
        BY <2>8, <3>1, BehindAppend
    <3>4. NoneIn(Append(t, d), UnnamedCalls)
        BY <2>8, <3>1, FewAppend
    <3>5. Append(t, d) \in Seq(Call) /\ Range(Append(t, d)) = Range(t) \cup {d}
        BY <2>8, RangeAppend
    <3>6. t # <<>> => Append(t, d) # <<>> /\ Head(Append(t, d)) = Head(t)
        BY <2>8
    <3> QED BY <2>8, <3>1, <3>2, <3>3, <3>4, <3>5, <3>6
  <2>9. Well(calls')
    <3>1. c \in Call /\ c.kind = "fetchData" /\ f.kind = "setupFilter"
        BY <1>4, Confirms DEF FetchCall, SetupFilterCall
    <3>2. CASE Parsed = {}
      <4>1. calls' = Append(calls, c)
          BY <1>4, <3>2, Confirms
      <4> HIDE DEF c, Well
      <4> QED BY <2>7, <2>8, <3>1, <4>1
    <3>3. CASE Parsed # {}
      <4>1. f \in Call /\ calls' = Append(Append(calls, f), c)
          BY <1>4, <3>3, Confirms
      <4> HIDE DEF c, f, Well
      <4>2. Well(Append(calls, f))
          BY <2>7, <2>8, <3>1, <4>1
      <4> QED BY <2>8, <3>1, <4>1, <4>2
    <3> QED BY <3>2, <3>3
  <2>10. RegisterThenSet' /\ Unnamed'
      BY <2>4, <2>9 DEF RegisterThenSet, Unnamed
  <2>11. Unfiltered'
      BY <2>2, <2>4, <2>9 DEF Unfiltered, ShownInv
  <2>12. TypeShown'
    <3> DEFINE e == TypeSignal(state[identifier].contentType)
    <3>1. LastIn(signals, e, TypeSignals) =>
              LastIn(Tail(signals), e, TypeSignals)
                  \/ (s = e /\ NoneIn(Tail(signals), TypeSignals))
        BY <2>2, TailBeside, LastIsOf DEF s
    <3>2. s = e => s.type = state[identifier].contentType
        BY DEF TypeSignal
    <3>3. CASE LastIn(signals, e, TypeSignals)
        BY <2>1, <2>2, <2>4, <3>1, <3>2, <3>3 DEF TypeShown
    <3>4. CASE calls # <<>> /\ Head(calls) \in NamedCalls
        BY <2>4, <2>9, <3>4 DEF TypeShown
    <3> QED BY <2>5, <3>3, <3>4 DEF TypeShown, ShownInv
  <2> QED BY <2>10, <2>11, <2>12 DEF ShownInv
<1> QED BY <1>1, <1>2, <1>3, <1>4, <1>5, <1>6, <1>7 DEF Model

LEMMA IsRegisterCall ==
    ASSUME NEW c \in Call, c.kind = "registerInstance", c.id = identifier
    PROVE  c = RegisterCall
<1>1. c \in [kind : {"goBack", "registerInstance", "unregisterInstance"}, id : Session]
    BY DEF Call
<1>2. c = [kind |-> c.kind, id |-> c.id]
    BY <1>1
<1> QED BY <1>2 DEF RegisterCall

LEMMA ShownBackend == TypeOK /\ SessionInv /\ ShownInv /\ Backend => ShownInv'
<1> SUFFICES ASSUME TypeOK, SessionInv, ShownInv, Backend PROVE ShownInv'
    OBVIOUS
<1> USE DEF modelVars, sessionVars
<1> DEFINE c == Head(calls)
           SetsSame == /\ SetupCalls' = SetupCalls /\ SetCalls' = SetCalls
                       /\ NamedCalls' = NamedCalls /\ UnnamedCalls' = UnnamedCalls
                       /\ TypeSignals' = TypeSignals /\ RegisterCall' = RegisterCall
                       /\ \A type : TypeSignal(type)' = TypeSignal(type)
<1>h. ASSUME NEW kind, Take(kind)
      PROVE  /\ c \in Call /\ c.kind = kind /\ calls' = Tail(calls) /\ c = Head(calls)
             /\ calls # <<>> /\ calls \in Seq(Call) /\ signals \in Seq(Signal)
             /\ Caller = c.id /\ Caller \in Session /\ c \in Range(calls)
             /\ Range(calls') \subseteq Range(calls)
             /\ UNCHANGED <<initialized, identifier, contentType>> /\ SetsSame
  <2>1. UNCHANGED <<initialized, identifier, contentType>>
      BY <1>h DEF Take
  <2>2. SetsSame
      BY <2>1, SameSets
  <2>3. calls \in Seq(Call) /\ signals \in Seq(Signal)
      BY DEF TypeOK
  <2> HIDE DEF SetsSame
  <2> QED BY <1>h, <2>1, <2>2, <2>3, HeadCall, Taken DEF Caller
<1> HIDE DEF c
<1>t. identifier \in Session /\ state \in [Session -> State]
    BY DEF TypeOK
\* a call of another session, or one that does not name a content type
<1>0. ASSUME NEW kind, Take(kind), c # RegisterCall, c \notin NamedCalls,
             Beside(signals, signals', TypeSignals),
             state'[identifier].contentType = state[identifier].contentType,
             state'[identifier].term = state[identifier].term
      PROVE  ShownInv'
  <2>1. calls' = Tail(calls) /\ c = Head(calls) /\ calls # <<>>
      BY <1>0, <1>h
  <2>2. SameShown
      BY <1>0, <1>h, <2>1 DEF SameShown
  <2> QED BY <2>2, ShownKept
<1>s. ASSUME NEW s \in Signal, signals' = Append(signals, s), s \notin TypeSignals
      PROVE  Beside(signals, signals', TypeSignals)
    BY <1>s, AppendBeside DEF TypeOK
\* what the queue is like without its head
<1>q. ASSUME NEW kind, Take(kind)
      PROVE  /\ FollowedBy(calls', RegisterCall, SetCalls)
             /\ c = RegisterCall => calls' # <<>> /\ Head(calls') \in SetCalls
             /\ NoneBehind(calls', SetupCalls, {RegisterCall})
             /\ c \in SetupCalls => NoneIn(calls', {RegisterCall})
             /\ ~initialized => /\ NoneIn(calls', SetupCalls) /\ c \notin SetupCalls
                                /\ RegisterCall \notin Range(calls')
             /\ ~NoneIn(calls', UnnamedCalls) =>
                    /\ ~NoneIn(calls, UnnamedCalls) /\ c \notin NamedCalls
                    /\ NoneBehind(calls', NamedCalls, UnnamedCalls)
  <2>1. calls \in Seq(Call) /\ calls # <<>> /\ calls' = Tail(calls) /\ c = Head(calls)
        /\ Range(calls') \subseteq Range(calls)
      BY <1>q, <1>h
  <2>2. /\ FollowedBy(calls, RegisterCall, SetCalls)
        /\ NoneBehind(calls, SetupCalls, {RegisterCall})
      BY DEF ShownInv, RegisterThenSet, Unfiltered
  <2>3. /\ FollowedBy(calls', RegisterCall, SetCalls)
        /\ c = RegisterCall => calls' # <<>> /\ Head(calls') \in SetCalls
      BY <2>1, <2>2, FollowTail
  <2>4. /\ NoneBehind(calls', SetupCalls, {RegisterCall})
        /\ c \in SetupCalls => NoneIn(calls', {RegisterCall})
      BY <2>1, <2>2, BehindTail
  <2>5. ~initialized => /\ NoneIn(calls', SetupCalls) /\ c \notin SetupCalls
                        /\ RegisterCall \notin Range(calls')
      BY <2>1, FewTail DEF ShownInv, Unfiltered
  <2>6. ASSUME ~NoneIn(calls', UnnamedCalls)
        PROVE  /\ ~NoneIn(calls, UnnamedCalls) /\ c \notin NamedCalls
               /\ NoneBehind(calls', NamedCalls, UnnamedCalls)
    <3>1. ~NoneIn(calls, UnnamedCalls)
        BY <2>1, <2>6, FewTail
    <3>2. NoneBehind(calls, NamedCalls, UnnamedCalls)
        BY <3>1 DEF ShownInv, Unnamed
    <3> QED BY <2>1, <2>6, <3>1, <3>2, BehindTail
  <2> QED BY <2>3, <2>4, <2>5, <2>6
<1>n. ASSUME NEW kind, Take(kind), signals' = signals
      PROVE  Unnamed'
  <2>1. /\ UnnamedCalls' = UnnamedCalls /\ NamedCalls' = NamedCalls
        /\ TypeSignals' = TypeSignals /\ contentType' = contentType
      BY <1>n, <1>h
  <2>2. ~NoneIn(calls', UnnamedCalls) =>
            /\ ~NoneIn(calls, UnnamedCalls)
            /\ NoneBehind(calls', NamedCalls, UnnamedCalls)
      BY <1>n, <1>q
  <2>3. ~NoneIn(calls, UnnamedCalls) =>
            contentType = NoType /\ NoneIn(signals, TypeSignals)
      BY DEF Unnamed, ShownInv
  <2> QED BY <1>n, <2>1, <2>2, <2>3 DEF Unnamed
<1>1. CASE RegisterInstance
  <2>1. /\ Take("registerInstance") /\ signals' = signals
        /\ state' = [state EXCEPT ![Caller] = Fresh]
      BY <1>1 DEF RegisterInstance
  <2>2. c \in Call /\ c.kind = "registerInstance" /\ c.id = Caller
      BY <1>h, <2>1
  <2>3. CASE Caller # identifier
    <3>1. c # RegisterCall /\ c \notin NamedCalls
        BY <2>2, <2>3, CallKinds
    <3>2. state'[identifier] = state[identifier]
        BY <1>t, <2>1, <2>3
    <3> QED BY <1>0, <2>1, <3>1, <3>2, BesideSame
  <2>4. CASE Caller = identifier
    <3>1. c = RegisterCall
        BY <2>2, <2>4, IsRegisterCall
    <3>2. state'[identifier] = Fresh
        BY <1>t, <2>1, <2>4
    <3>3. RegisterThenSet' /\ Unfiltered'
      <4>1. /\ SetupCalls' = SetupCalls /\ RegisterCall' = RegisterCall
            /\ SetCalls' = SetCalls
            /\ initialized' = initialized /\ state'[identifier'].term = NoQuery
          BY <1>h, <2>1, <3>2 DEF Fresh
      <4>2. /\ FollowedBy(calls', RegisterCall, SetCalls)
            /\ NoneBehind(calls', SetupCalls, {RegisterCall})
            /\ ~initialized => NoneIn(calls', SetupCalls) /\ RegisterCall \notin Range(calls')
          BY <1>q, <2>1
      <4> QED BY <4>1, <4>2 DEF RegisterThenSet, Unfiltered
    <3>4. Unnamed'
        BY <1>n, <2>1
    <3>5. TypeShown'
      <4>1. calls' # <<>> /\ Head(calls') \in SetCalls
          BY <1>q, <2>1, <3>1
      <4>2. CASE Head(calls') \in NamedCalls
          BY <1>h, <2>1, <4>1, <4>2 DEF TypeShown
      <4>3. CASE Head(calls') \in UnnamedCalls
        <5>1. calls' \in Seq(Call)
            BY <1>1, TypeBackend DEF TypeOK, Backend
        <5>2. ~NoneIn(calls', UnnamedCalls)
            BY <4>1, <4>3, <5>1, FewTail
        <5>3. contentType = NoType /\ NoneIn(signals, TypeSignals)
            BY <1>q, <2>1, <5>2 DEF ShownInv, Unnamed
        <5> QED BY <1>h, <2>1, <3>2, <5>3 DEF TypeShown, Fresh
      <4> QED BY <4>1, <4>2, <4>3, CallKinds
    <3> QED BY <3>3, <3>4, <3>5 DEF ShownInv
  <2> QED BY <2>3, <2>4
<1>2. CASE UnregisterInstance
  <2>1. /\ Take("unregisterInstance") /\ signals' = signals
        /\ state' = [state EXCEPT ![Caller] = Fresh]
      BY <1>2 DEF UnregisterInstance
  <2>2. Caller # identifier /\ c.id # identifier
      BY <1>h, <2>1 DEF SessionInv, IdsKnown
  <2>3. c # RegisterCall /\ c \notin NamedCalls
      BY <2>2, CallKinds
  <2>4. state'[identifier] = state[identifier]
      BY <1>t, <2>1, <2>2
  <2> QED BY <1>0, <2>1, <2>3, <2>4, BesideSame
<1>3. CASE ServeSetContentType
  <2> DEFINE type == c.type
             b == [kind |-> "canGoBackChanged", id |-> Caller,
                   can |-> Parent[type] # NoType]
             m == [kind |-> "contentTypeChanged", id |-> Caller, type |-> type]
  <2>1. /\ Take("setContentType") /\ type \in Paths /\ c.id = Caller
        /\ state' = [state EXCEPT ![Caller].contentType = type]
        /\ signals' = IF type \in Types THEN signals \o <<b, m>> ELSE signals
      BY <1>3, <1>h, CallFields DEF ServeSetContentType, c
  <2>2. /\ c \in Call /\ c.kind = "setContentType" /\ Caller \in Session
        /\ signals \in Seq(Signal) /\ c # RegisterCall /\ c \notin SetupCalls
      BY <1>h, <2>1, CallKinds
  <2>3. type \in Types => b \in Signal /\ m \in Signal
      BY <2>2 DEF Signal
  <2>4. b \notin TypeSignals
      BY DEF TypeSignals
  <2>5. ASSUME type \in Types
        PROVE  /\ signals' = Append(Append(signals, b), m)
               /\ Append(signals, b) \in Seq(Signal) /\ b \in Signal /\ m \in Signal
    <3>1. b \in Signal /\ m \in Signal /\ signals' = signals \o <<b, m>>
        BY <2>1, <2>3, <2>5
    <3> HIDE DEF b, m
    <3> QED BY <2>2, <3>1
  <2>6. CASE Caller # identifier
    <3>1. c \notin NamedCalls /\ m \notin TypeSignals
        BY <2>1, <2>6, CallKinds DEF TypeSignals
    <3>2. state'[identifier] = state[identifier]
        BY <1>t, <2>1, <2>6
    <3>3. Beside(signals, signals', TypeSignals)
      <4>1. CASE type \in Types
        <5> DEFINE more == Append(signals, b)
        <5>1. signals' = Append(more, m) /\ more \in Seq(Signal) /\ b \in Signal
              /\ m \in Signal
            BY <2>5, <4>1
        <5> HIDE DEF b, m
        <5>2. Beside(signals, more, TypeSignals)
            BY <2>2, <2>4, <5>1, AppendBeside
        <5> HIDE DEF more
        <5>3. Beside(more, Append(more, m), TypeSignals)
            BY <3>1, <5>1, AppendBeside
        <5>4. Beside(signals, Append(more, m), TypeSignals)
            BY <5>2, <5>3 DEF Beside
        <5> QED BY <5>1, <5>4, Zenon
      <4>2. CASE type \notin Types
          BY <2>1, <4>2, BesideSame
      <4> QED BY <4>1, <4>2
    <3> QED BY <1>0, <2>1, <2>2, <3>1, <3>2, <3>3
  <2>7. CASE Caller = identifier
    <3>1. c \in SetCalls
        BY <2>1, <2>2, <2>7 DEF SetCalls
    <3>2. /\ state'[identifier].contentType = type
          /\ state'[identifier].term = state[identifier].term
        BY <1>t, <2>1, <2>7 DEF State
    <3>3. RegisterThenSet'
        BY <1>h, <1>q, <2>1 DEF RegisterThenSet
    <3>4. Unfiltered'
      <4>1. /\ SetupCalls' = SetupCalls /\ RegisterCall' = RegisterCall
            /\ initialized' = initialized /\ Range(calls') \subseteq Range(calls)
            /\ state'[identifier'].term = state[identifier].term
          BY <1>h, <2>1, <3>2
      <4>2. /\ NoneBehind(calls', SetupCalls, {RegisterCall})
            /\ ~initialized => NoneIn(calls', SetupCalls) /\ RegisterCall \notin Range(calls')
          BY <1>q, <2>1
      <4>3. ~initialized \/ RegisterCall \in Range(calls) => state[identifier].term = NoQuery
          BY DEF Unfiltered, ShownInv
      <4> QED BY <4>1, <4>2, <4>3 DEF Unfiltered
    <3>5. CASE type \in Types
      <4>1. c \in NamedCalls
          BY <3>1, <3>5 DEF NamedCalls
      <4>2. Unnamed'
          BY <1>h, <1>q, <2>1, <4>1 DEF Unnamed
      <4>3. LastIn(signals', TypeSignal(type), TypeSignals)
        <5> DEFINE more == Append(signals, b)
        <5>1. signals' = Append(more, m) /\ more \in Seq(Signal) /\ m \in Signal
            BY <2>5, <3>5
        <5>2. m = TypeSignal(type) /\ m \in TypeSignals
            BY <2>7, <5>1 DEF TypeSignal, TypeSignals
        <5> HIDE DEF m, more
        <5>3. LastIn(Append(more, m), m, TypeSignals)
            BY <5>1, <5>2, AppendBeside
        <5> QED BY <5>1, <5>2, <5>3, Zenon
      <4>4. TypeShown'
          BY <1>h, <2>1, <3>2, <4>3 DEF TypeShown
      <4> QED BY <3>3, <3>4, <4>2, <4>4 DEF ShownInv
    <3>6. CASE type \notin Types
      <4>1. c \in UnnamedCalls /\ signals' = signals /\ type = NoType
          BY <2>1, <3>1, <3>6 DEF UnnamedCalls, Paths
      <4>2. ~NoneIn(calls, UnnamedCalls)
          BY <1>h, <2>1, <4>1, FewTail
      <4>3. contentType = NoType /\ NoneIn(signals, TypeSignals)
          BY <4>2 DEF ShownInv, Unnamed
      <4>4. Unnamed'
          BY <1>h, <1>q, <2>1, <4>1, <4>3 DEF Unnamed
      <4>5. TypeShown'
          BY <1>h, <2>1, <3>2, <4>1, <4>3 DEF TypeShown
      <4> QED BY <3>3, <3>4, <4>4, <4>5 DEF ShownInv
    <3> QED BY <3>5, <3>6
  <2> QED BY <2>6, <2>7
<1>4. CASE ServeSetupFilter
  <2>1. /\ Take("setupFilter") /\ signals' = signals
        /\ state' = [state EXCEPT ![Caller].term = c.term]
      BY <1>4 DEF ServeSetupFilter, c
  <2>2. c \in Call /\ c.kind = "setupFilter" /\ c.id = Caller
        /\ c # RegisterCall /\ c \notin NamedCalls
      BY <1>h, <2>1, CallKinds
  <2>3. CASE Caller # identifier
    <3>1. state'[identifier] = state[identifier]
        BY <1>t, <2>1, <2>3
    <3> QED BY <1>0, <2>1, <2>2, <3>1, BesideSame
  <2>4. CASE Caller = identifier
    <3>1. c \in SetupCalls
        BY <2>2, <2>4 DEF SetupCalls
    <3>2. state'[identifier].contentType = state[identifier].contentType
        BY <1>t, <2>1, <2>4 DEF State
    <3>3. initialized /\ RegisterCall \notin Range(calls')
      <4>1. initialized /\ NoneIn(calls', {RegisterCall})
          BY <1>q, <2>1, <3>1
      <4> QED BY <4>1 DEF NoneIn, Range
    <3>4. RegisterThenSet' /\ Unfiltered'
        BY <1>h, <1>q, <2>1, <3>3 DEF RegisterThenSet, Unfiltered
    <3>5. Unnamed'
        BY <1>n, <2>1
    <3>6. TypeShown'
        BY <1>h, <2>1, <2>2, <3>2 DEF TypeShown, ShownInv
    <3> QED BY <3>4, <3>5, <3>6 DEF ShownInv
  <2> QED BY <2>3, <2>4
<1>5. CASE ServeFetchData
  <2> DEFINE told == [kind |-> "supportedCapabilitiesChanged", id |-> Caller]
  <2>1. Take("fetchData") /\ signals' = Append(signals, told) /\ state' = state
      BY <1>5 DEF ServeFetchData
  <2>2. told \in Signal /\ told \notin TypeSignals
      BY <1>h, <2>1 DEF Signal, TypeSignals
  <2>3. c # RegisterCall /\ c \notin NamedCalls
      BY <1>h, <2>1, CallKinds
  <2>4. Beside(signals, signals', TypeSignals)
      BY <1>s, <2>1, <2>2
  <2> QED BY <1>0, <2>1, <2>3, <2>4
<1>6. CASE ServeGoBack \/ ServeGoForward
  <2>1. /\ Take("goBack") \/ Take("goForward")
        /\ state' = state
      BY <1>6 DEF ServeGoBack, ServeGoForward
  <2>2. PICK s : s.kind = "reply" /\ signals' = Append(signals, s)
      BY <1>6 DEF ServeGoBack, ServeGoForward
  <2>3. signals' \in Seq(Signal) /\ signals \in Seq(Signal)
      BY TypeBackend DEF TypeOK
  <2>4. s \in Signal /\ s \notin TypeSignals
      BY <2>2, <2>3 DEF TypeSignals
  <2>5. c # RegisterCall /\ c \notin NamedCalls
      BY <1>h, <2>1, CallKinds
  <2>6. Beside(signals, signals', TypeSignals)
      BY <1>s, <2>2, <2>4
  <2> QED BY <1>0, <2>1, <2>5, <2>6
<1> QED BY <1>1, <1>2, <1>3, <1>4, <1>5, <1>6 DEF Backend

LEMMA ShownWorker == TypeOK /\ ShownInv /\ (Search \/ Record) => ShownInv'
<1> SUFFICES ASSUME TypeOK, ShownInv, Search \/ Record PROVE SameShown
    BY ShownKept
<1> USE DEF modelVars, sessionVars
<1>1. signals' = signals \/ \E s : /\ s.kind \in {"dataFetched", "canGoForwardChanged"}
                                   /\ signals' = Append(signals, s)
    BY DEF Search, Record
<1>2. Beside(signals, signals', TypeSignals)
  <2>1. CASE signals' = signals
      BY <2>1, BesideSame
  <2>2. ASSUME NEW s, s.kind \in {"dataFetched", "canGoForwardChanged"},
               signals' = Append(signals, s)
        PROVE  Beside(signals, signals', TypeSignals)
    <3>1. signals' \in Seq(Signal) /\ signals \in Seq(Signal)
        BY TypeWorker DEF TypeOK
    <3>2. s \in Signal /\ s \notin TypeSignals
        BY <2>2, <3>1 DEF TypeSignals
    <3> QED BY <2>2, <3>1, <3>2, AppendBeside
  <2> QED BY <1>1, <2>1, <2>2
<1>3. /\ state'[identifier].contentType = state[identifier].contentType
      /\ state'[identifier].term = state[identifier].term
  <2>1. CASE Search
      BY <2>1 DEF Search
  <2>2. CASE Record
      BY <2>2 DEF Record, TypeOK, State
  <2> QED BY <2>1, <2>2
<1> QED BY <1>2, <1>3 DEF SameShown, Search, Record

LEMMA ShownNext ==
    TypeOK /\ SessionInv /\ AgreeInv /\ ShownInv /\ [Next]_vars => ShownInv'
<1>1. TypeOK /\ ShownInv /\ UNCHANGED vars => ShownInv'
  <2> SUFFICES ASSUME TypeOK, ShownInv, UNCHANGED vars PROVE SameShown
      BY ShownKept
  <2> QED BY BesideSame DEF SameShown, vars, modelVars, sessionVars, backendVars
<1> QED BY <1>1, ShownUser, ShownModel, ShownBackend, ShownWorker DEF Next

\* Calls come and go, but none that fetches comes, nor a term behind it.
Calm(s, t) ==
    /\ NoneIn(s, FetchCalls) => NoneIn(t, FetchCalls)
    /\ AtMostOne(s, FetchCalls) => AtMostOne(t, FetchCalls)
    /\ \A c \in Range(t) : c \in FetchCalls => c \in Range(s)
    /\ NoneBehind(s, FetchCalls, SetupCalls) => NoneBehind(t, FetchCalls, SetupCalls)

\* Searches come and go, but none of this session comes.
Idle(s, t) ==
    /\ NoneIn(s, OpenJobs) => NoneIn(t, OpenJobs)
    /\ AtMostOne(s, OpenJobs) => AtMostOne(t, OpenJobs)
    /\ \A j \in Range(t) : j.id = identifier => j \in Range(s)

\* Signals come and go, but none that brings rows comes, and no page or content
\* type goes.
Still(s, t) ==
    /\ NoneIn(s, PageSignals) => NoneIn(t, PageSignals)
    /\ AtMostOne(s, PageSignals) => AtMostOne(t, PageSignals)
    /\ NoneIn(t, TypeSignals) => NoneIn(s, TypeSignals)
    /\ \A page : Hold(s, PageSignals, TypeSignals, page) =>
           Hold(t, PageSignals, TypeSignals, page)
    /\ \A x \in PageSignals : x \in Range(s) => x \in Range(t)

\* Nor does one that brings flags.
Quiet(s, t) ==
    /\ Still(s, t)
    /\ \A n \in Nat : Covered(s, FlagSignals, PageSignals, n) =>
           Covered(t, FlagSignals, PageSignals, n)

LEMMA IdleSame == \A s : Idle(s, s)
    BY DEF Idle

LEMMA IdleAppend ==
    ASSUME NEW s \in Seq(Job), NEW j \in Job, j.id # identifier
    PROVE  Idle(s, Append(s, j))
<1>1. j \notin OpenJobs
    BY DEF OpenJobs
<1>2. /\ NoneIn(s, OpenJobs) => NoneIn(Append(s, j), OpenJobs)
      /\ AtMostOne(s, OpenJobs) => AtMostOne(Append(s, j), OpenJobs)
    BY <1>1, FewAppend
<1>3. Range(Append(s, j)) = Range(s) \cup {j}
    BY RangeAppend
<1> QED BY <1>2, <1>3 DEF Idle

LEMMA IdleTail ==
    ASSUME NEW s \in Seq(Job), s # <<>>
    PROVE  Idle(s, Tail(s))
<1>1. /\ NoneIn(s, OpenJobs) => NoneIn(Tail(s), OpenJobs)
      /\ AtMostOne(s, OpenJobs) => AtMostOne(Tail(s), OpenJobs)
    BY FewTail
<1>2. Range(Tail(s)) \subseteq Range(s)
    BY RangeTail
<1> QED BY <1>1, <1>2 DEF Idle

LEMMA CalmSame == \A s : Calm(s, s)
    BY DEF Calm

LEMMA QuietSame == \A s : Quiet(s, s)
    BY DEF Quiet, Still

LEMMA QuietTwice == \A s, t, u : Quiet(s, t) /\ Quiet(t, u) => Quiet(s, u)
    BY DEF Quiet, Still

LEMMA CalmAppend ==
    ASSUME NEW s \in Seq(Call), NEW c \in Call, c \notin FetchCalls, c \notin SetupCalls
    PROVE  Calm(s, Append(s, c))
<1>1. /\ NoneIn(s, FetchCalls) => NoneIn(Append(s, c), FetchCalls)
      /\ AtMostOne(s, FetchCalls) => AtMostOne(Append(s, c), FetchCalls)
    BY FewAppend
<1>2. Range(Append(s, c)) = Range(s) \cup {c}
    BY RangeAppend
<1>3. NoneBehind(s, FetchCalls, SetupCalls) =>
          NoneBehind(Append(s, c), FetchCalls, SetupCalls)
    BY BehindAppend
<1> QED BY <1>1, <1>2, <1>3 DEF Calm

LEMMA CalmTail ==
    ASSUME NEW s \in Seq(Call), s # <<>>
    PROVE  Calm(s, Tail(s))
<1>1. /\ NoneIn(s, FetchCalls) => NoneIn(Tail(s), FetchCalls)
      /\ AtMostOne(s, FetchCalls) => AtMostOne(Tail(s), FetchCalls)
    BY FewTail
<1>2. Range(Tail(s)) \subseteq Range(s)
    BY RangeTail
<1>3. NoneBehind(s, FetchCalls, SetupCalls) =>
          NoneBehind(Tail(s), FetchCalls, SetupCalls)
    BY BehindTail
<1> QED BY <1>1, <1>2, <1>3 DEF Calm

LEMMA QuietAppend ==
    ASSUME NEW s \in Seq(Signal), NEW e \in Signal, e \notin PageSignals, e \notin FlagSignals
    PROVE  Quiet(s, Append(s, e))
<1> DEFINE t == Append(s, e)
<1>1. /\ NoneIn(s, PageSignals) => NoneIn(t, PageSignals)
      /\ AtMostOne(s, PageSignals) => AtMostOne(t, PageSignals)
    BY FewAppend
<1>2. NoneIn(t, TypeSignals) => NoneIn(s, TypeSignals)
    BY AppendAt DEF NoneIn
<1>3. \A page : Hold(s, PageSignals, TypeSignals, page) =>
           Hold(t, PageSignals, TypeSignals, page)
    BY HoldAppend
<1>4. \A n \in Nat : Covered(s, FlagSignals, PageSignals, n) =>
           Covered(t, FlagSignals, PageSignals, n)
    BY CoveredAppend
<1>5. Range(t) = Range(s) \cup {e}
    BY RangeAppend
<1> HIDE DEF t
<1>6. Quiet(s, t)
    BY <1>1, <1>2, <1>3, <1>4, <1>5 DEF Quiet, Still
<1> QED BY <1>6 DEF t

LEMMA QuietTail ==
    ASSUME NEW s \in Seq(Signal), s # <<>>, Head(s) \notin PageSignals,
           Head(s) \notin TypeSignals
    PROVE  Quiet(s, Tail(s))
<1> DEFINE t == Tail(s)
<1>1. /\ NoneIn(s, PageSignals) => NoneIn(t, PageSignals)
      /\ AtMostOne(s, PageSignals) => AtMostOne(t, PageSignals)
      /\ NoneIn(t, TypeSignals) => NoneIn(s, TypeSignals)
    BY FewTail
<1>2. \A page : Hold(s, PageSignals, TypeSignals, page) =>
           Hold(t, PageSignals, TypeSignals, page)
    BY HoldTail
<1>3. \A n \in Nat : Covered(s, FlagSignals, PageSignals, n) =>
           Covered(t, FlagSignals, PageSignals, n)
    BY CoveredTail
<1>4. Range(s) \subseteq Range(t) \cup {Head(s)}
    BY RangeTail
<1> HIDE DEF t
<1>5. Quiet(s, t)
    BY <1>1, <1>2, <1>3, <1>4 DEF Quiet, Still
<1> QED BY <1>5 DEF t

\* A step that leaves the rows and what is asked for of them alone.
SameRows ==
    /\ UNCHANGED <<identifier, contentType, queryTerm, itemList>>
    /\ "rows" \in stale => "rows" \in stale'
    /\ moreAvailable' => moreAvailable
    /\ Calm(calls, calls') /\ Idle(jobs, jobs')
    /\ \/ Quiet(signals, signals')
       \/ /\ Still(signals, signals')
          /\ "rows" \notin stale =>
                 Covered(signals', FlagSignals, PageSignals, Len(itemList))

LEMMA RowsKept == TypeOK /\ RowsInv /\ SameRows => RowsInv'
<1> SUFFICES ASSUME TypeOK, RowsInv, SameRows, "rows" \notin stale'
             PROVE  OnePage' /\ PagesFit' /\ FlagsFollow' /\ RowsFit'
    BY DEF RowsInv
<1>0. /\ UNCHANGED <<identifier, contentType, queryTerm, itemList>>
      /\ moreAvailable' => moreAvailable
      /\ Calm(calls, calls') /\ Idle(jobs, jobs') /\ Still(signals, signals')
      /\ Covered(signals', FlagSignals, PageSignals, Len(itemList))
      /\ OnePage /\ PagesFit /\ FlagsFollow /\ RowsFit
      /\ Len(itemList) \in Nat
  <2>1. /\ Len(itemList) \in Nat /\ "rows" \notin stale
      BY LenProperties DEF SameRows, TypeOK
  <2>2. OnePage /\ PagesFit /\ FlagsFollow /\ RowsFit
      BY <2>1 DEF RowsInv
  <2>3. /\ Still(signals, signals')
        /\ Covered(signals', FlagSignals, PageSignals, Len(itemList))
      BY <2>1, <2>2 DEF SameRows, FlagsFollow, Quiet
  <2> QED BY <2>1, <2>2, <2>3 DEF SameRows
<1>1. /\ FetchCalls' = FetchCalls /\ SetupCalls' = SetupCalls
      /\ OpenJobs' = OpenJobs /\ PageSignals' = PageSignals
      /\ FlagSignals' = FlagSignals /\ TypeSignals' = TypeSignals
    BY <1>0, SameSets
<1>2. OnePage'
    BY <1>0, <1>1 DEF OnePage, Calm, Idle, Still
<1>3. Page(Asked(Len(itemList)))' = Page(Asked(Len(itemList)))
    BY <1>0 DEF Page, Asked
<1>4. PagesFit'
  <2>1. \A c \in Range(calls') : c \in FetchCalls => c.start = Len(itemList)
      BY <1>0 DEF PagesFit, Calm
  <2>2. \A j \in Range(jobs') : j \in OpenJobs =>
          /\ j.start = Len(itemList)
          /\ NoneIn(signals', TypeSignals) => j.type = contentType /\ j.term = queryTerm
      BY <1>0 DEF PagesFit, Still, Idle, OpenJobs
  <2>3. Hold(signals', PageSignals, TypeSignals, Page(Asked(Len(itemList))))
      BY <1>0 DEF PagesFit, Still
  <2>4. NoneBehind(calls', FetchCalls, SetupCalls)
      BY <1>0 DEF PagesFit, Calm
  <2> QED BY <1>0, <1>1, <1>3, <2>1, <2>2, <2>3, <2>4 DEF PagesFit
<1>5. FlagsFollow'
  <2>1. \A s \in PageSignals : s \in Range(signals) => s \in Range(signals')
      BY <1>0 DEF Still
  <2>2. \A j \in Range(jobs') : (j.id = identifier /\ j.fetched) =>
          \/ j.start + Len(Page(j)) <= Len(itemList)
          \/ \E s \in Range(signals') : s \in PageSignals
                 /\ j.start + Len(Page(j)) <= Len(itemList) + Len(s.items)
      BY <1>0, <2>1 DEF FlagsFollow, Idle
  <2> QED BY <1>0, <1>1, <2>2 DEF FlagsFollow
<1>6. RowsFit'
    BY <1>0 DEF RowsFit
<1> QED BY <1>2, <1>4, <1>5, <1>6

\* The first rows of a list, and the page that continues them.
LEMMA NoRows ==
    ASSUME NEW list \in Seq(Rows)
    PROVE  /\ Len(<<>>) = 0 /\ 0 <= Len(list) /\ <<>> = SubSeq(list, 1, 0)
<1>1. SubSeq(list, 1, 0) \in Seq(Rows) /\ Len(SubSeq(list, 1, 0)) = 0
    BY SubSeqProperties
<1> QED BY <1>1, EmptySeq, LenProperties

LEMMA MoreRows ==
    ASSUME NEW type \in Paths, NEW term \in Terms, NEW rows \in Seq(Rows),
           Len(rows) <= Len(Listing(type, term)),
           rows = SubSeq(Listing(type, term), 1, Len(rows)),
           NEW page, page = Page([type |-> type, term |-> term, start |-> Len(rows)])
    PROVE  LET list == Listing(type, term) IN
           /\ Len(rows \o page) = Len(rows) + Len(page)
           /\ Len(rows \o page) <= Len(list)
           /\ rows \o page = SubSeq(list, 1, Len(rows \o page))
<1> DEFINE list == Listing(type, term)
           n == Len(rows)
           job == [type |-> type, term |-> term, start |-> n]
           end == PageEnd(n, list)
           all == rows \o page
<1>1. n \in Nat
    BY LenProperties
<1>2. job.type = type /\ job.term = term /\ job.start = n
    OBVIOUS
<1> HIDE DEF n, job
<1>3. /\ list \in Seq(Rows) /\ Len(list) \in Nat
      /\ end \in Nat /\ end <= Len(list)
      /\ Page(job) \in Seq(Rows)
      /\ Len(Page(job)) = IF n + 1 <= end THEN end - n ELSE 0
      /\ \A i \in 1..Len(Page(job)) : Page(job)[i] = list[n + i]
    BY <1>1, <1>2, PageIs
<1>4. n <= Len(list) /\ rows = SubSeq(list, 1, n) /\ page = Page(job)
    BY DEF n, job
<1> HIDE DEF list, end
<1> DEFINE k == Len(page)
<1>5. k \in Nat /\ n + k <= Len(list) /\ \A i \in 1..k : page[i] = list[n + i]
  <2>1. k = Len(Page(job)) /\ k \in Nat
      BY <1>3, <1>4, LenProperties
  <2>2. k = IF n + 1 <= end THEN end - n ELSE 0
      BY <1>3, <2>1
  <2> HIDE DEF k
  <2>3. n + k <= Len(list)
      BY <1>1, <1>3, <1>4, <2>1, <2>2
  <2>4. \A i \in 1..k : page[i] = list[n + i]
      BY <1>3, <1>4, <2>1
  <2> QED BY <2>1, <2>3, <2>4
<1>6. /\ all \in Seq(Rows) /\ Len(all) = n + k
      /\ \A i \in 1..n + k : all[i] = IF i <= n THEN rows[i] ELSE page[i - n]
    BY <1>3, <1>4, ConcatProperties DEF n
<1> HIDE DEF k
<1>7. ASSUME NEW m \in Nat, m <= Len(list)
      PROVE  /\ SubSeq(list, 1, m) \in Seq(Rows) /\ Len(SubSeq(list, 1, m)) = m
             /\ \A i \in 1..m : SubSeq(list, 1, m)[i] = list[i]
  <2>1. \A i \in 1..m : list[i] \in Rows
    <3> SUFFICES ASSUME NEW i \in 1..m PROVE list[i] \in Rows
        OBVIOUS
    <3>1. i \in 1..Len(list)
        BY <1>3, <1>7
    <3> QED BY <1>3, <3>1, ElementOfSeq
  <2>2. /\ SubSeq(list, 1, m) \in Seq(Rows)
        /\ Len(SubSeq(list, 1, m)) = IF 1 <= m THEN m - 1 + 1 ELSE 0
        /\ \A i \in 1..m - 1 + 1 : SubSeq(list, 1, m)[i] = list[1 + i - 1]
      BY <2>1, <1>7, SubSeqProperties
  <2>3. \A i \in 1..m : i \in 1..m - 1 + 1 /\ 1 + i - 1 = i
      BY <1>7
  <2>4. Len(SubSeq(list, 1, m)) = m
      BY <1>7, <2>2
  <2> QED BY <2>2, <2>3, <2>4
<1>8. n + k \in Nat
    BY <1>1, <1>5
<1>9. \A i \in 1..n + k : all[i] = list[i]
  <2> SUFFICES ASSUME NEW i \in 1..n + k PROVE all[i] = list[i]
      OBVIOUS
  <2>1. CASE i <= n
    <3>1. i \in 1..n
        BY <1>1, <1>5, <2>1
    <3> QED BY <1>1, <1>4, <1>6, <1>7, <2>1, <3>1
  <2>2. CASE ~(i <= n)
    <3>1. i - n \in 1..k /\ n + (i - n) = i
        BY <1>1, <1>5, <2>2
    <3> QED BY <1>5, <1>6, <2>2, <3>1
  <2> QED BY <2>1, <2>2
<1> DEFINE part == SubSeq(list, 1, n + k)
<1>10. /\ part \in Seq(Rows) /\ Len(part) = n + k
       /\ \A i \in 1..n + k : part[i] = list[i]
    BY <1>5, <1>7, <1>8
<1> HIDE DEF part, all
<1>11. all = part
    BY <1>6, <1>9, <1>10, SeqEqual
<1>12. /\ Len(all) = Len(rows) + Len(page) /\ Len(all) <= Len(list)
       /\ all = SubSeq(list, 1, Len(all))
  <2>1. Len(all) = n + k /\ n + k <= Len(list) /\ all = SubSeq(list, 1, n + k)
      BY <1>5, <1>6, <1>11 DEF part
  <2> QED BY <2>1 DEF n, k
<1> QED BY <1>12 DEF list, all

\* No page of the session is under way but one that starts the list.
Restarted ==
    /\ itemList = <<>>
    /\ AtMostOne(calls, FetchCalls)
    /\ \A c \in Range(calls) : c \in FetchCalls => c.start = 0
    /\ NoneBehind(calls, FetchCalls, SetupCalls)
    /\ moreAvailable => NoneIn(calls, FetchCalls)
    /\ \A j \in Range(jobs) : j.id # identifier
    /\ NoneIn(signals, PageSignals) /\ NoneIn(signals, FlagSignals)

LEMMA RowsRestarted == TypeOK /\ Restarted => RowsInv
<1> SUFFICES ASSUME TypeOK, Restarted PROVE OnePage /\ PagesFit /\ FlagsFollow /\ RowsFit
    BY DEF RowsInv
<1>1. Len(itemList) = 0 /\ RowsFit
  <2>1. Listing(contentType, queryTerm) \in Seq(Rows)
      BY ListingTyped DEF TypeOK
  <2> QED BY <2>1, NoRows DEF Restarted, RowsFit
<1>2. NoneIn(jobs, OpenJobs) /\ AtMostOne(jobs, OpenJobs) /\ AtMostOne(signals, PageSignals)
    BY DEF Restarted, OpenJobs, NoneIn, AtMostOne, Range
<1>3. OnePage
    BY <1>2 DEF OnePage, Restarted
<1>4. PagesFit
  <2>1. \A j \in Range(jobs) : j \notin OpenJobs
      BY DEF Restarted, OpenJobs
  <2>2. Hold(signals, PageSignals, TypeSignals, Page(Asked(Len(itemList))))
      BY DEF Restarted, Hold, NoneIn
  <2> QED BY <1>1, <2>1, <2>2 DEF PagesFit, Restarted
<1>5. FlagsFollow
  <2>1. Covered(signals, FlagSignals, PageSignals, Len(itemList))
      BY DEF Restarted, Covered, NoneIn
  <2> QED BY <2>1 DEF FlagsFollow, Restarted
<1> QED BY <1>1, <1>3, <1>4, <1>5

LEMMA RowsInit == Init => RowsInv
<1> SUFFICES ASSUME Init PROVE Restarted
    BY TypeInit, RowsRestarted
<1>1. Range(<<>>) = {} /\ DOMAIN <<>> = {}
    BY DEF Range
<1> QED BY <1>1 DEF Init, Restarted, AtMostOne, NoneIn, NoneBehind

LEMMA RowsUser ==
    TypeOK /\ SessionInv /\ RowsInv /\ (User \/ OnInitializationDone \/ FetchMore) => RowsInv'
<1> SUFFICES ASSUME TypeOK, SessionInv, RowsInv, User \/ OnInitializationDone \/ FetchMore
             PROVE  RowsInv'
    OBVIOUS
<1> USE DEF modelVars, sessionVars, backendVars
<1>0. ASSUME Calm(calls, calls'), "rows" \in stale => "rows" \in stale',
             UNCHANGED <<identifier, contentType, queryTerm, itemList, moreAvailable,
                         jobs, signals>>
      PROVE  RowsInv'
  <2>1. Quiet(signals, signals') /\ Idle(jobs, jobs')
      BY <1>0, QuietSame, IdleSame
  <2>2. SameRows
      BY <1>0, <2>1 DEF SameRows
  <2> QED BY <2>2, RowsKept
<1>c. calls \in Seq(Call)
    BY DEF TypeOK
<1>a. ASSUME NEW type \in Paths, AskFor(type) PROVE Calm(calls, calls')
  <2>1. /\ SetContentTypeCall(type) \in Call
        /\ connected => calls' = Append(calls, SetContentTypeCall(type))
        /\ ~connected => calls' = calls
      BY <1>a, AskForSends
  <2>2. SetContentTypeCall(type) \notin FetchCalls /\ SetContentTypeCall(type) \notin SetupCalls
      BY CallKinds DEF SetContentTypeCall
  <2> HIDE DEF SetContentTypeCall
  <2>3. Calm(calls, Append(calls, SetContentTypeCall(type))) /\ Calm(calls, calls)
      BY <1>c, <2>1, <2>2, CalmAppend, CalmSame
  <2> QED BY <2>1, <2>3
<1>b. ASSUME NEW c \in Call, calls' = Append(calls, c), c.kind \in {"goBack", "goForward"}
      PROVE  Calm(calls, calls')
    BY <1>b, <1>c, CalmAppend, CallKinds
<1>1. CASE Connect
    BY <1>0, <1>1, CalmSame DEF Connect
<1>2. CASE Disconnect
  <2>1. /\ Unused' /\ ~connected' /\ itemList' = <<>> /\ TypeOK'
      BY <1>2, SessionUser, TypeUser DEF Disconnect, SessionInv, User
  <2>2. /\ \A c \in Range(calls') : c.id # identifier'
        /\ \A j \in Range(jobs') : j.id # identifier'
        /\ \A s \in Range(signals') : s.kind # "reply" => s.id # identifier'
      BY <2>1 DEF Unused
  <2>3. /\ \A k \in DOMAIN calls' : calls'[k] \in Range(calls')
        /\ \A k \in DOMAIN signals' : signals'[k] \in Range(signals')
      BY DEF Range
  <2>4. /\ \A c \in Range(calls') : c \notin FetchCalls'
        /\ \A k \in DOMAIN calls' : calls'[k] \notin FetchCalls'
      BY <2>2, <2>3 DEF FetchCalls
  <2>5. \A k \in DOMAIN signals' :
            signals'[k] \notin PageSignals' /\ signals'[k] \notin FlagSignals'
      BY <2>2, <2>3 DEF PageSignals, FlagSignals
  <2>6. Restarted'
      BY <2>1, <2>2, <2>4, <2>5 DEF Restarted, AtMostOne, NoneIn, NoneBehind
  <2> QED BY <2>1, <2>6, RowsRestarted, PTL
<1>3. CASE GoBack
  <2>1. [kind |-> "goBack", id |-> identifier] \in Call
      BY CallsTyped DEF TypeOK
  <2>2. Calm(calls, calls')
      BY <1>3, <1>b, <2>1 DEF GoBack
  <2> QED BY <1>0, <1>3, <2>2 DEF GoBack
<1>4. ASSUME NEW type \in Offered, SetContentType(type) PROVE RowsInv'
  <2>1. type \in Paths
      BY BrowseAssumption DEF Paths
  <2>2. Calm(calls, calls')
      BY <1>4, <1>a, <2>1 DEF SetContentType, UpdateContentType
  <2> QED BY <1>0, <1>4, <2>2 DEF SetContentType, UpdateContentType
<1>5. ASSUME NEW new \in Terms \cup Unparsable, SetQuery(new) PROVE RowsInv'
  <2>1. requested \in Paths
      BY DEF TypeOK
  <2>2. Calm(calls, calls')
      BY <1>5, <1>a, <2>1 DEF SetQuery
  <2> QED BY <1>0, <1>5, <2>2 DEF SetQuery
<1>6. ASSUME NEW i \in DOMAIN itemList, NEW inModel \in BOOLEAN,
             GoForward(i - 1, inModel)
      PROVE  RowsInv'
  <2>1. PICK c : c.kind = "goForward" /\ calls' = Append(calls, c)
      BY <1>6 DEF GoForward
  <2>2. calls' \in Seq(Call)
      BY <1>6, TypeUser DEF User, TypeOK
  <2>3. c \in Call
      BY <1>c, <2>1, <2>2
  <2>4. Calm(calls, calls')
      BY <1>b, <2>1, <2>3
  <2> QED BY <1>0, <1>6, <2>4 DEF GoForward
<1>7. CASE OnInitializationDone
  <2> DEFINE c == SetContentTypeCall(requested)
             more == Append(calls, RegisterCall)
  <2>1. /\ RegisterCall \in Call /\ c \in Call
        /\ calls' = Append(more, c) /\ more \in Seq(Call)
      BY <1>7, Initializes
  <2>2. /\ c \notin FetchCalls /\ c \notin SetupCalls
        /\ RegisterCall \notin FetchCalls /\ RegisterCall \notin SetupCalls
      BY CallKinds DEF SetContentTypeCall, RegisterCall
  <2> HIDE DEF c
  <2>3. Calm(calls, more)
      BY <1>c, <2>1, <2>2, CalmAppend
  <2> HIDE DEF more
  <2>4. Calm(more, Append(more, c))
      BY <2>1, <2>2, CalmAppend
  <2>5. Calm(calls, calls')
      BY <2>1, <2>3, <2>4 DEF Calm
  <2> QED BY <1>0, <1>7, <2>5 DEF OnInitializationDone
<1>8. CASE FetchMore
  <2> DEFINE n == Len(itemList)
             c == FetchCall(n)
  <2>1. /\ moreAvailable /\ ~moreAvailable' /\ calls' = Append(calls, c)
        /\ UNCHANGED <<identifier, contentType, queryTerm, itemList, jobs, signals, stale>>
      BY <1>8 DEF FetchMore
  <2>2. c \in Call /\ c.start = n /\ c.kind = "fetchData" /\ n \in Nat
      BY CallsTyped, LenProperties DEF TypeOK, FetchCall
  <2> HIDE DEF c
  <2>3. c \notin SetupCalls
      BY <2>2, CallKinds
  <2> SUFFICES ASSUME "rows" \notin stale
               PROVE  OnePage' /\ PagesFit' /\ FlagsFollow' /\ RowsFit'
      BY <2>1 DEF RowsInv
  <2>4. OnePage /\ PagesFit /\ FlagsFollow /\ RowsFit
      BY DEF RowsInv
  <2>5. /\ FetchCalls' = FetchCalls /\ SetupCalls' = SetupCalls
        /\ OpenJobs' = OpenJobs /\ PageSignals' = PageSignals
        /\ FlagSignals' = FlagSignals /\ TypeSignals' = TypeSignals
      BY <2>1, SameSets
  <2>6. NoneIn(calls, FetchCalls) /\ NoneIn(jobs, OpenJobs) /\ NoneIn(signals, PageSignals)
      BY <2>1, <2>4 DEF OnePage
  <2>7. AtMostOne(Append(calls, c), FetchCalls)
      BY <1>c, <2>2, <2>6, FewAppend
  <2>8. OnePage'
      BY <2>1, <2>4, <2>5, <2>6, <2>7 DEF OnePage
  <2>9. Range(Append(calls, c)) = Range(calls) \cup {c}
      BY <1>c, <2>2, RangeAppend
  <2>10. NoneBehind(Append(calls, c), FetchCalls, SetupCalls)
      BY <1>c, <2>2, <2>3, <2>4, BehindAppend DEF PagesFit
  <2>11. Page(Asked(Len(itemList)))' = Page(Asked(Len(itemList)))
      BY <2>1 DEF Page, Asked
  <2>12. \A d \in Range(calls') : d \in FetchCalls => d.start = Len(itemList)
      BY <2>1, <2>2, <2>4, <2>9 DEF PagesFit
  <2>13. PagesFit'
      BY <2>1, <2>4, <2>5, <2>10, <2>11, <2>12 DEF PagesFit
  <2>14. FlagsFollow'
      BY <2>1, <2>4, <2>5 DEF FlagsFollow
  <2>15. RowsFit'
      BY <2>1, <2>4 DEF RowsFit
  <2> QED BY <2>8, <2>13, <2>14, <2>15
<1> QED BY <1>1, <1>2, <1>3, <1>4, <1>5, <1>6, <1>7, <1>8 DEF User

LEMMA NoPage ==
    ASSUME TypeOK, ~PageUnderWay
    PROVE  /\ NoneIn(calls, FetchCalls) /\ NoneIn(signals, PageSignals)
           /\ NoneIn(signals, FlagSignals)
           /\ \A j \in Range(jobs) : j.id # identifier
<1>1. NoneIn(calls, FetchCalls)
    BY DEF PageUnderWay, OfSession, NoneIn, FetchCalls
<1>2. NoneIn(signals, PageSignals) /\ NoneIn(signals, FlagSignals)
    BY DEF PageUnderWay, OfSession, NoneIn, PageSignals, FlagSignals
<1>3. \A j \in Range(jobs) : j.id # identifier
    BY DEF PageUnderWay, Range
<1> QED BY <1>1, <1>2, <1>3

LEMMA RowsModel == TypeOK /\ SessionInv /\ RowsInv /\ Model => RowsInv'
<1> SUFFICES ASSUME TypeOK, SessionInv, RowsInv, Model PROVE RowsInv'
    OBVIOUS
<1> USE DEF modelVars, sessionVars, backendVars
<1> DEFINE s == Head(signals)
<1>h. ASSUME NEW kind, Hear(kind)
      PROVE  /\ s \in Signal /\ s.kind = kind /\ signals' = Tail(signals)
             /\ signals # <<>> /\ signals \in Seq(Signal) /\ calls \in Seq(Call)
             /\ UNCHANGED <<identifier, jobs>>
             /\ kind # "reply" => Concerned \/ s.id # identifier
  <2>1. kind # "reply" => Concerned \/ s.id # identifier
      BY <1>h, Heard, HeadSignal DEF SessionInv, Unused, Concerned
  <2>2. signals \in Seq(Signal) /\ calls \in Seq(Call)
      BY DEF TypeOK
  <2> QED BY <1>h, <2>1, <2>2, HeadSignal DEF Hear
<1> HIDE DEF s
<1>0. ASSUME NEW kind, Hear(kind), s \notin PageSignals, s \notin TypeSignals,
             UNCHANGED <<contentType, queryTerm, itemList, moreAvailable>>,
             "rows" \in stale => "rows" \in stale', Calm(calls, calls')
      PROVE  RowsInv'
  <2>1. Quiet(signals, signals') /\ Idle(jobs, jobs')
      BY <1>0, <1>h, QuietTail, IdleSame DEF s
  <2>2. SameRows
      BY <1>0, <1>h, <2>1 DEF SameRows
  <2> QED BY <2>2, RowsKept
<1>1. CASE OnIgnored
  <2>1. Hear(s.kind) /\ s.kind # "reply" /\ ~Concerned
      BY <1>1 DEF OnIgnored, s
  <2>2. s \notin TypeSignals /\ s \notin PageSignals
      BY <1>h, <2>1 DEF TypeSignals, PageSignals
  <2> QED BY <1>0, <1>1, <2>1, <2>2, CalmSame DEF OnIgnored
<1>2. CASE OnCapabilitiesChanged
  <2>1. Hear("supportedCapabilitiesChanged")
      BY <1>2 DEF OnCapabilitiesChanged
  <2>2. s \notin TypeSignals /\ s \notin PageSignals
      BY <1>h, <2>1 DEF TypeSignals, PageSignals
  <2> QED BY <1>0, <1>2, <2>1, <2>2, CalmSame DEF OnCapabilitiesChanged
<1>3. CASE OnCanGoBackChanged
  <2>1. Hear("canGoBackChanged")
      BY <1>3 DEF OnCanGoBackChanged
  <2>2. s \notin TypeSignals /\ s \notin PageSignals
      BY <1>h, <2>1 DEF TypeSignals, PageSignals
  <2> QED BY <1>0, <1>3, <2>1, <2>2, CalmSame DEF OnCanGoBackChanged
<1>6. CASE OnCanGoForwardChanged
  <2>1. Hear("canGoForwardChanged")
      BY <1>6 DEF OnCanGoForwardChanged
  <2>2. s \notin TypeSignals /\ s \notin PageSignals
      BY <1>h, <2>1 DEF TypeSignals, PageSignals
  <2> QED BY <1>0, <1>6, <2>1, <2>2, CalmSame DEF OnCanGoForwardChanged
<1>7. CASE OnReply
  <2>1. Hear("reply")
      BY <1>7 DEF OnReply
  <2>2. s \notin TypeSignals /\ s \notin PageSignals /\ s.type \in Paths
      BY <1>h, <2>1, SignalFields DEF TypeSignals, PageSignals
  <2>3. CASE s.type # NoType /\ s.inModel
    <3> DEFINE c == SetContentTypeCall(s.type)
    <3>1. UpdateContentType(s.type)
        BY <1>7, <2>3 DEF OnReply, s
    <3>2. /\ c \in Call /\ (connected => calls' = Append(calls, c))
          /\ (~connected => calls' = calls)
        BY <2>2, <3>1, AskForSends DEF UpdateContentType
    <3>3. c \notin FetchCalls /\ c \notin SetupCalls
        BY CallKinds DEF SetContentTypeCall
    <3> HIDE DEF c
    <3>4. Calm(calls, Append(calls, c)) /\ Calm(calls, calls)
        BY <1>h, <2>1, <3>2, <3>3, CalmAppend, CalmSame
    <3>5. Calm(calls, calls')
        BY <3>2, <3>4
    <3> QED BY <1>0, <2>1, <2>2, <3>1, <3>5 DEF UpdateContentType
  <2>4. CASE ~(s.type # NoType /\ s.inModel)
    <3>1. UNCHANGED <<modelVars, calls, stale>>
        BY <1>7, <2>4 DEF OnReply, s
    <3> QED BY <1>0, <2>1, <2>2, <3>1, CalmSame
  <2> QED BY <2>3, <2>4
<1>4. CASE OnContentTypeChanged
  <2> DEFINE f == SetupFilterCall(query)
             c == FetchCall(0)
  <2>1. /\ Hear("contentTypeChanged") /\ itemList' = <<>> /\ ~moreAvailable'
        /\ stale' = stale \cup (IF PageUnderWay THEN {"flags", "rows"} ELSE {})
      BY <1>4 DEF OnContentTypeChanged
  <2> SUFFICES ASSUME "rows" \notin stale' PROVE RowsInv'
      BY DEF RowsInv
  <2>2. ~PageUnderWay
      BY <2>1
  <2>3. /\ NoneIn(calls, FetchCalls) /\ NoneIn(signals, PageSignals)
        /\ NoneIn(signals, FlagSignals)
        /\ \A j \in Range(jobs) : j.id # identifier
      BY <2>2, NoPage
  <2>4. /\ signals' = Tail(signals) /\ signals # <<>> /\ signals \in Seq(Signal)
        /\ calls \in Seq(Call) /\ UNCHANGED <<identifier, jobs>>
      BY <1>h, <2>1
  <2>5. NoneIn(signals', PageSignals) /\ NoneIn(signals', FlagSignals)
      BY <2>3, <2>4, FewTail
  <2>6. /\ c \in Call /\ c.kind = "fetchData" /\ c.start = 0 /\ f.kind = "setupFilter"
        /\ c \notin SetupCalls /\ f \notin FetchCalls
      BY <1>4, Confirms, CallKinds DEF FetchCall, SetupFilterCall
  <2>7. PICK t \in Seq(Call) : calls' = Append(t, c) /\ NoneIn(t, FetchCalls)
    <3>1. CASE Parsed = {}
        BY <1>4, <2>3, <2>4, <3>1, Confirms
    <3>2. CASE Parsed # {}
      <4>1. f \in Call /\ Append(calls, f) \in Seq(Call)
            /\ calls' = Append(Append(calls, f), c)
          BY <1>4, <3>2, Confirms
      <4> HIDE DEF c, f
      <4>2. NoneIn(Append(calls, f), FetchCalls)
          BY <2>3, <2>4, <2>6, <4>1, FewAppend
      <4> QED BY <4>1, <4>2
    <3> QED BY <3>1, <3>2
  <2> HIDE DEF c
  <2>8. AtMostOne(calls', FetchCalls)
      BY <2>6, <2>7, FewAppend
  <2>9. NoneBehind(calls', FetchCalls, SetupCalls)
    <3>1. NoneBehind(t, FetchCalls, SetupCalls)
        BY <2>7 DEF NoneBehind, NoneIn
    <3>2. NoneBehind(Append(t, c), FetchCalls, SetupCalls)
        BY <2>6, <2>7, <3>1, BehindAppend
    <3> QED BY <2>7, <3>2
  <2>10. \A d \in Range(calls') : d \in FetchCalls => d.start = 0
    <3>1. Range(Append(t, c)) = Range(t) \cup {c}
        BY <2>6, <2>7, RangeAppend
    <3>2. \A d \in Range(t) : d \notin FetchCalls
        BY <2>7 DEF NoneIn, Range
    <3> QED BY <2>6, <2>7, <3>1, <3>2
  <2>11. /\ FetchCalls' = FetchCalls /\ SetupCalls' = SetupCalls
         /\ PageSignals' = PageSignals /\ FlagSignals' = FlagSignals
      BY <2>4, SameSets
  <2>12. Restarted'
      BY <2>1, <2>3, <2>4, <2>5, <2>8, <2>9, <2>10, <2>11 DEF Restarted
  <2>13. TypeOK'
      BY TypeModel
  <2> QED BY <2>12, <2>13, RowsRestarted, PTL
<1>5. CASE OnDataFetched
  <2> DEFINE n == Len(itemList)
             k == Len(s.items)
             page == Page(Asked(n))
  <2>1. /\ Hear("dataFetched") /\ Concerned /\ itemList' = itemList \o s.items
        /\ UNCHANGED <<contentType, queryTerm, calls, stale>>
      BY <1>5 DEF OnDataFetched, s
  <2>2. /\ signals' = Tail(signals) /\ signals # <<>> /\ signals \in Seq(Signal)
        /\ s \in Signal /\ s.kind = "dataFetched" /\ s = Head(signals)
        /\ UNCHANGED <<identifier, jobs>>
      BY <1>h, <2>1 DEF s
  <2>3. s \in PageSignals
      BY <2>1, <2>2 DEF PageSignals, Concerned, s
  <2> SUFFICES ASSUME "rows" \notin stale
               PROVE  OnePage' /\ PagesFit' /\ FlagsFollow' /\ RowsFit'
      BY <2>1 DEF RowsInv
  <2>4. OnePage /\ PagesFit /\ FlagsFollow /\ RowsFit
      BY DEF RowsInv
  <2>5. /\ FetchCalls' = FetchCalls /\ SetupCalls' = SetupCalls
        /\ OpenJobs' = OpenJobs /\ PageSignals' = PageSignals
        /\ FlagSignals' = FlagSignals /\ TypeSignals' = TypeSignals
      BY <2>2, SameSets
  <2>6. ~NoneIn(signals, PageSignals)
      BY <2>2, <2>3, FewTail
  <2>7. NoneIn(calls, FetchCalls) /\ NoneIn(jobs, OpenJobs)
      BY <2>4, <2>6 DEF OnePage
  <2>8. NoneIn(Tail(signals), PageSignals)
      BY <2>2, <2>3, <2>4, FewTail DEF OnePage
  <2>9. OnePage'
    <3>1. AtMostOne(Tail(signals), PageSignals)
        BY <2>8 DEF NoneIn, AtMostOne
    <3> QED BY <2>1, <2>2, <2>4, <2>5, <2>7, <2>8, <3>1 DEF OnePage
  <2>10. PagesFit'
    <3>1. /\ \A c \in Range(calls) : c \notin FetchCalls
          /\ \A j \in Range(jobs) : j \notin OpenJobs
        BY <2>7 DEF NoneIn, Range
    <3>2. \A p : Hold(Tail(signals), PageSignals, TypeSignals, p)
        BY <2>8 DEF NoneIn, Hold
    <3> QED BY <2>1, <2>2, <2>4, <2>5, <3>1, <3>2 DEF PagesFit
  <2>11. s.items = page
      BY <2>2, <2>3, <2>4, HoldTail DEF PagesFit
  <2>12. /\ Len(itemList') = n + k
         /\ Len(itemList') <= Len(Listing(contentType, queryTerm))
         /\ itemList' = SubSeq(Listing(contentType, queryTerm), 1, Len(itemList'))
    <3>1. /\ contentType \in Paths /\ queryTerm \in Terms /\ itemList \in Seq(Rows)
          /\ page = Page([type |-> contentType, term |-> queryTerm, start |-> Len(itemList)])
          /\ itemList' = itemList \o page
        BY <2>1, <2>11 DEF TypeOK, Asked
    <3>2. Len(itemList) <= Len(Listing(contentType, queryTerm))
          /\ itemList = SubSeq(Listing(contentType, queryTerm), 1, Len(itemList))
        BY <2>4 DEF RowsFit
    <3> HIDE DEF page
    <3>3. /\ Len(itemList \o page) = Len(itemList) + Len(page)
          /\ Len(itemList \o page) <= Len(Listing(contentType, queryTerm))
          /\ itemList \o page = SubSeq(Listing(contentType, queryTerm), 1, Len(itemList \o page))
        BY <3>1, <3>2, MoreRows
    <3> QED BY <2>11, <3>1, <3>3
  <2>13. RowsFit'
      BY <2>1, <2>12 DEF RowsFit
  <2>14. n \in Nat /\ k \in Nat
      BY <2>2, SignalFields, LenProperties DEF TypeOK
  <2>15. FlagsFollow'
    <3>1. ASSUME NEW j \in Range(jobs), j.id = identifier, j.fetched
          PROVE  j.start + Len(Page(j)) <= n + k
      <4>1. j \in Job
          BY RangeTail DEF TypeOK, Range
      <4>2. j.start \in Nat /\ Len(Page(j)) \in Nat
          BY <4>1, JobFields
      <4>3. CASE j.start + Len(Page(j)) <= n
          BY <2>14, <4>2, <4>3
      <4>4. ASSUME NEW t \in Range(signals), t \in PageSignals,
                   j.start + Len(Page(j)) <= n + Len(t.items)
            PROVE  j.start + Len(Page(j)) <= n + k
        <5>1. t = s
          <6>1. PICK i \in DOMAIN signals : t = signals[i]
              BY DEF Range
          <6>2. 1 \in DOMAIN signals /\ s = signals[1]
              BY <2>2, TailAt
          <6> QED BY <2>3, <2>4, <4>4, <6>1, <6>2 DEF OnePage, AtMostOne
        <5> QED BY <4>4, <5>1
      <4> QED BY <2>4, <3>1, <4>3, <4>4 DEF FlagsFollow
    <3>2. \A x \in FlagSignals : x.start \in Nat /\ x.count \in Nat
        BY SignalFields DEF FlagSignals
    <3>3. \A x \in PageSignals : Len(x.items) \in Nat
        BY SignalFields, LenProperties DEF PageSignals
    <3>4. Covered(Tail(signals), FlagSignals, PageSignals, n + k)
        BY <2>2, <2>3, <2>4, <2>14, <3>2, <3>3, CoveredTail DEF FlagsFollow
    <3> HIDE DEF n, k
    <3> QED BY <2>2, <2>5, <2>12, <3>1, <3>4 DEF FlagsFollow
  <2> QED BY <2>9, <2>10, <2>13, <2>15
<1> QED BY <1>1, <1>2, <1>3, <1>4, <1>5, <1>6, <1>7 DEF Model

\* A page is searched for as it was asked for.
LEMMA SearchedAsAsked ==
    ASSUME TypeOK, SessionInv, AgreeInv, ShownInv, calls # <<>>,
           Head(calls) \in FetchCalls, NoneBehind(calls, FetchCalls, SetupCalls)
    PROVE  /\ state[identifier].term = queryTerm
           /\ NoneIn(signals, TypeSignals) => state[identifier].contentType = contentType
<1>1. calls \in Seq(Call) /\ Head(calls).kind = "fetchData" /\ Head(calls) \notin SetupCalls
      /\ Head(calls) \notin NamedCalls
    BY CallKinds DEF TypeOK
<1>2. NoneIn(Tail(calls), SetupCalls)
    BY <1>1, BehindTail
<1>3. NoneIn(calls, SetupCalls)
    BY <1>1, <1>2, FewTail
<1>4. state[identifier].term = queryTerm
  <2>1. CASE ~initialized
      BY <2>1 DEF ShownInv, Unfiltered, SessionInv, Unheard
  <2>2. CASE LastIn(calls, SetupFilterCall(queryTerm), TermCalls)
    <3>1. SetupFilterCall(queryTerm) \in SetupCalls
        BY <2>2 DEF LastIn, TermCalls, SetupFilterCall, SetupCalls
    <3> QED BY <1>3, <2>2, <3>1 DEF LastIn, NoneIn
  <2>3. CASE LastIn(calls, RegisterCall, TermCalls) /\ queryTerm = NoQuery
    <3>1. RegisterCall \in Range(calls)
        BY <2>3 DEF LastIn, Range
    <3> QED BY <2>3, <3>1 DEF ShownInv, Unfiltered
  <2>4. CASE NoneIn(calls, TermCalls) /\ state[identifier].term = queryTerm
      BY <2>4
  <2> QED BY <2>1, <2>2, <2>3, <2>4 DEF AgreeInv, TermAgrees
<1>5. NoneIn(signals, TypeSignals) => state[identifier].contentType = contentType
    BY <1>1 DEF ShownInv, TypeShown, LastIn, NoneIn
<1> QED BY <1>4, <1>5

LEMMA RowsBackend ==
    TypeOK /\ SessionInv /\ AgreeInv /\ ShownInv /\ RowsInv /\ Backend => RowsInv'
<1> SUFFICES ASSUME TypeOK, SessionInv, AgreeInv, ShownInv, RowsInv, Backend PROVE RowsInv'
    OBVIOUS
<1> USE DEF modelVars, sessionVars
<1> DEFINE c == Head(calls)
<1>h. ASSUME NEW kind, Take(kind)
      PROVE  /\ c \in Call /\ c.kind = kind /\ calls' = Tail(calls) /\ c = Head(calls)
             /\ calls # <<>> /\ calls \in Seq(Call) /\ signals \in Seq(Signal)
             /\ jobs \in Seq(Job) /\ Caller = c.id /\ Caller \in Session
             /\ UNCHANGED <<identifier, contentType, queryTerm, itemList, moreAvailable,
                            stale>>
             /\ Calm(calls, calls')
  <2>1. UNCHANGED <<identifier, contentType, queryTerm, itemList, moreAvailable, stale>>
      BY <1>h DEF Take
  <2>2. calls \in Seq(Call) /\ signals \in Seq(Signal) /\ jobs \in Seq(Job)
      BY DEF TypeOK
  <2> QED BY <1>h, <2>1, <2>2, HeadCall, CalmTail DEF Caller
<1> HIDE DEF c
<1>0. ASSUME NEW kind, Take(kind), Idle(jobs, jobs'), Quiet(signals, signals')
      PROVE  RowsInv'
  <2>1. SameRows
      BY <1>0, <1>h DEF SameRows
  <2> QED BY <2>1, RowsKept
<1>s. ASSUME NEW s \in Signal, signals' = Append(signals, s),
             s.kind \notin {"dataFetched", "canGoForwardChanged"}
      PROVE  Quiet(signals, signals')
  <2>1. s \notin PageSignals /\ s \notin FlagSignals
      BY <1>s DEF PageSignals, FlagSignals
  <2> QED BY <1>s, <2>1, QuietAppend DEF TypeOK
<1>1. CASE RegisterInstance \/ UnregisterInstance \/ ServeSetupFilter
  <2>1. signals' = signals /\ jobs' = jobs
      BY <1>1 DEF RegisterInstance, UnregisterInstance, ServeSetupFilter
  <2>2. \E kind : Take(kind)
      BY <1>1 DEF RegisterInstance, UnregisterInstance, ServeSetupFilter
  <2> QED BY <1>0, <2>1, <2>2, IdleSame, QuietSame
<1>2. CASE ServeSetContentType
  <2> DEFINE type == c.type
             b == [kind |-> "canGoBackChanged", id |-> Caller,
                   can |-> Parent[type] # NoType]
             m == [kind |-> "contentTypeChanged", id |-> Caller, type |-> type]
  <2>1. /\ Take("setContentType") /\ jobs' = jobs
        /\ signals' = IF type \in Types THEN signals \o <<b, m>> ELSE signals
      BY <1>2 DEF ServeSetContentType, c
  <2>2. signals \in Seq(Signal) /\ Caller \in Session
      BY <1>h, <2>1
  <2>3. CASE type \in Types
    <3> DEFINE more == Append(signals, b)
    <3>1. b \in Signal /\ m \in Signal /\ signals' = signals \o <<b, m>>
          /\ b \notin PageSignals /\ b \notin FlagSignals
          /\ m \notin PageSignals /\ m \notin FlagSignals
        BY <2>1, <2>2, <2>3 DEF Signal, PageSignals, FlagSignals
    <3> HIDE DEF b, m
    <3>2. signals' = Append(more, m) /\ more \in Seq(Signal)
        BY <2>2, <3>1
    <3>3. Quiet(signals, more)
        BY <2>2, <3>1, QuietAppend
    <3> HIDE DEF more
    <3>4. Quiet(more, Append(more, m))
        BY <3>1, <3>2, QuietAppend
    <3>5. Quiet(signals, Append(more, m))
        BY <3>3, <3>4, QuietTwice
    <3>6. Quiet(signals, signals')
        BY <3>2, <3>5, Zenon
    <3> QED BY <1>0, <2>1, <3>6, IdleSame
  <2>4. CASE type \notin Types
      BY <1>0, <2>1, <2>4, IdleSame, QuietSame
  <2> QED BY <2>3, <2>4
<1>3. CASE ServeGoBack \/ ServeGoForward
  <2>1. (Take("goBack") \/ Take("goForward")) /\ jobs' = jobs
      BY <1>3 DEF ServeGoBack, ServeGoForward
  <2>2. PICK s : s.kind = "reply" /\ signals' = Append(signals, s)
      BY <1>3 DEF ServeGoBack, ServeGoForward
  <2>3. s \in Signal
      BY <2>2, TypeBackend DEF TypeOK
  <2>4. Quiet(signals, signals')
      BY <1>s, <2>2, <2>3
  <2> QED BY <1>0, <2>1, <2>4, IdleSame
<1>4. CASE ServeFetchData
  <2> DEFINE told == [kind |-> "supportedCapabilitiesChanged", id |-> Caller]
             job == [id |-> Caller, type |-> state[Caller].contentType,
                     term |-> state[Caller].term, start |-> c.start, fetched |-> FALSE]
  <2>1. /\ Take("fetchData") /\ signals' = Append(signals, told)
        /\ jobs' = IF Caller \in instances THEN Append(jobs, job) ELSE jobs
      BY <1>4 DEF ServeFetchData, c
  <2>2. /\ c \in Call /\ c.kind = "fetchData" /\ c.id = Caller /\ c.start \in Nat
        /\ jobs \in Seq(Job) /\ signals \in Seq(Signal) /\ calls \in Seq(Call)
        /\ calls # <<>> /\ c = Head(calls) /\ Caller \in Session
        /\ calls' = Tail(calls)
      BY <1>h, <2>1, CallFields
  <2>3. told \in Signal /\ told.kind = "supportedCapabilitiesChanged"
      BY <2>2 DEF Signal
  <2>4. job \in Job /\ job.id = Caller /\ ~job.fetched /\ job.start = c.start
        /\ job.type = state[Caller].contentType /\ job.term = state[Caller].term
      BY <2>2 DEF TypeOK, State, Job
  <2> HIDE DEF told, job
  <2>5. Quiet(signals, signals')
      BY <1>s, <2>1, <2>3
  <2>6. CASE Caller \notin instances
      BY <1>0, <2>1, <2>5, <2>6, IdleSame
  <2>7. CASE Caller \in instances /\ Caller # identifier
    <3>1. Idle(jobs, Append(jobs, job))
        BY <2>2, <2>4, <2>7, IdleAppend
    <3> QED BY <1>0, <2>1, <2>5, <2>7, <3>1
  <2>8. CASE Caller \in instances /\ Caller = identifier
    <3> SUFFICES ASSUME "rows" \notin stale
                 PROVE  OnePage' /\ PagesFit' /\ FlagsFollow' /\ RowsFit'
        BY <1>h, <2>1 DEF RowsInv
    <3>1. OnePage /\ PagesFit /\ FlagsFollow /\ RowsFit
        BY DEF RowsInv
    <3>2. /\ UNCHANGED <<identifier, contentType, queryTerm, itemList, moreAvailable>>
          /\ jobs' = Append(jobs, job)
        BY <1>h, <2>1, <2>8
    <3>3. /\ FetchCalls' = FetchCalls /\ SetupCalls' = SetupCalls
          /\ OpenJobs' = OpenJobs /\ PageSignals' = PageSignals
          /\ FlagSignals' = FlagSignals /\ TypeSignals' = TypeSignals
        BY <3>2, SameSets
    <3>4. c \in FetchCalls /\ ~NoneIn(calls, FetchCalls)
      <4>1. c \in FetchCalls
          BY <2>2, <2>8 DEF FetchCalls
      <4> QED BY <2>2, <4>1, FewTail
    <3>5. NoneIn(jobs, OpenJobs) /\ NoneIn(signals, PageSignals) /\ ~moreAvailable
        BY <3>1, <3>4 DEF OnePage
    <3>6. NoneIn(calls', FetchCalls)
        BY <2>2, <3>1, <3>4, FewTail DEF OnePage
    <3>7. Still(signals, signals') /\ NoneIn(signals', PageSignals)
        BY <2>5, <3>5 DEF Quiet, Still
    <3>8. AtMostOne(jobs', OpenJobs)
        BY <2>2, <2>4, <3>2, <3>5, FewAppend
    <3>9. OnePage'
      <4>1. AtMostOne(calls', FetchCalls) /\ AtMostOne(signals', PageSignals)
          BY <3>6, <3>7 DEF NoneIn, AtMostOne
      <4> QED BY <3>2, <3>3, <3>5, <3>6, <3>7, <3>8, <4>1 DEF OnePage
    <3>10. Range(jobs') = Range(jobs) \cup {job}
        BY <2>2, <2>4, <3>2, RangeAppend
    <3>11. \A j \in Range(jobs) : j \notin OpenJobs
        BY <3>5 DEF NoneIn, Range
    <3>12. PagesFit'
      <4>1. \A d \in Range(calls') : d \notin FetchCalls
          BY <3>6 DEF NoneIn, Range
      <4>2. job.start = Len(itemList)
        <5>1. c \in Range(calls)
            BY <2>2, RangeTail
        <5> QED BY <2>4, <3>1, <3>4, <5>1 DEF PagesFit
      <4>3. job.term = queryTerm
          BY <2>2, <2>4, <2>8, <3>1, <3>4, SearchedAsAsked DEF PagesFit
      <4>4. NoneIn(signals', TypeSignals) => job.type = contentType
        <5>1. NoneIn(signals', TypeSignals) => NoneIn(signals, TypeSignals)
            BY <3>7 DEF Still
        <5> QED BY <2>2, <2>4, <2>8, <3>1, <3>4, <5>1, SearchedAsAsked DEF PagesFit
      <4>5. \A p : Hold(signals', PageSignals, TypeSignals, p)
          BY <3>7 DEF NoneIn, Hold
      <4>6. NoneBehind(calls', FetchCalls, SetupCalls)
          BY <3>6 DEF NoneIn, NoneBehind
      <4>7. \A j \in Range(jobs') : j \in OpenJobs =>
                /\ j.start = Len(itemList)
                /\ NoneIn(signals', TypeSignals) =>
                       j.type = contentType /\ j.term = queryTerm
          BY <3>10, <3>11, <4>2, <4>3, <4>4
      <4> QED BY <3>2, <3>3, <4>1, <4>5, <4>6, <4>7 DEF PagesFit
    <3>13. FlagsFollow'
      <4>1. Covered(signals', FlagSignals, PageSignals, Len(itemList))
        <5>1. Len(itemList) \in Nat
            BY LenProperties DEF TypeOK
        <5> QED BY <2>5, <3>1, <5>1 DEF FlagsFollow, Quiet
      <4>2. \A j \in Range(jobs') : (j.id = identifier /\ j.fetched) =>
                j.start + Len(Page(j)) <= Len(itemList)
          BY <2>4, <3>1, <3>5, <3>10 DEF FlagsFollow, NoneIn, Range
      <4> QED BY <3>2, <3>3, <4>1, <4>2 DEF FlagsFollow
    <3>14. RowsFit'
        BY <3>1, <3>2 DEF RowsFit
    <3> QED BY <3>9, <3>12, <3>13, <3>14
  <2> QED BY <2>6, <2>7, <2>8
<1> QED BY <1>1, <1>2, <1>3, <1>4 DEF Backend

\* A page that has been searched for has the rows it had.
LEMMA BegunPage ==
    ASSUME NEW job \in Job
    PROVE  /\ Begun(job).id = job.id /\ Begun(job).start = job.start
           /\ Begun(job).fetched /\ Page(Begun(job)) = Page(job)
<1>1. /\ Begun(job).id = job.id /\ Begun(job).start = job.start /\ Begun(job).fetched
      /\ Begun(job).type = job.type /\ Begun(job).term = job.term
    BY DEF Begun, Job
<1> QED BY <1>1 DEF Page

LEMMA RowsSearch == TypeOK /\ RowsInv /\ Search => RowsInv'
<1> SUFFICES ASSUME TypeOK, RowsInv, Search PROVE RowsInv'
    OBVIOUS
<1> USE DEF modelVars, sessionVars
<1> DEFINE job == Head(jobs)
           b == Begun(job)
           p == [kind |-> "dataFetched", id |-> job.id, items |-> Page(job),
                 start |-> job.start, more |-> HasMore(Page(job))]
<1>1. /\ signals' = Append(signals, p) /\ ~job.fetched /\ calls' = calls
      /\ UNCHANGED <<identifier, contentType, queryTerm, itemList, moreAvailable, stale>>
    BY DEF Search
<1>2. /\ job \in Job /\ b \in Job /\ 1 \in DOMAIN jobs /\ job = jobs[1]
      /\ DOMAIN jobs' = DOMAIN jobs /\ jobs'[1] = b
      /\ \A i \in DOMAIN jobs : i # 1 => jobs'[i] = jobs[i]
    BY SearchLeaves
<1>3. /\ job.id \in Session /\ job.start \in Nat /\ job.type \in Paths
      /\ Page(job) \in Seq(Rows) /\ Len(Page(job)) \in Nat
    BY <1>2, JobFields
<1>4. b.id = job.id /\ b.start = job.start /\ b.fetched /\ Page(b) = Page(job)
    BY <1>2, BegunPage
<1>5. /\ p \in Signal /\ p.kind = "dataFetched" /\ p.id = job.id /\ p.items = Page(job)
      /\ p \notin FlagSignals /\ (p \in PageSignals <=> job.id = identifier)
    BY <1>3 DEF Signal, HasMore, FlagSignals, PageSignals
<1>6. signals \in Seq(Signal) /\ jobs \in Seq(Job) /\ Len(itemList) \in Nat
    BY LenProperties DEF TypeOK
<1>7. b \notin OpenJobs /\ (job \in OpenJobs <=> job.id = identifier)
    BY <1>1, <1>2, <1>4 DEF OpenJobs
<1>8. \A j \in Range(jobs') : j = b \/ j \in Range(jobs)
    BY <1>2 DEF Range
<1> HIDE DEF job, b, p
<1>9. CASE job.id # identifier
  <2>1. Quiet(signals, signals')
      BY <1>1, <1>5, <1>6, <1>9, QuietAppend
  <2>2. Idle(jobs, jobs')
    <3>1. NoneIn(jobs, OpenJobs) => NoneIn(jobs', OpenJobs)
        BY <1>2, <1>7 DEF NoneIn
    <3>2. AtMostOne(jobs, OpenJobs) => AtMostOne(jobs', OpenJobs)
        BY <1>2, <1>7 DEF AtMostOne
    <3> QED BY <1>4, <1>8, <1>9, <3>1, <3>2 DEF Idle
  <2>3. SameRows
      BY <1>1, <2>1, <2>2, CalmSame DEF SameRows
  <2> QED BY <2>3, RowsKept
<1>10. CASE job.id = identifier
  <2> SUFFICES ASSUME "rows" \notin stale
               PROVE  OnePage' /\ PagesFit' /\ FlagsFollow' /\ RowsFit'
      BY <1>1 DEF RowsInv
  <2>1. OnePage /\ PagesFit /\ FlagsFollow /\ RowsFit
      BY DEF RowsInv
  <2>2. /\ FetchCalls' = FetchCalls /\ SetupCalls' = SetupCalls
        /\ OpenJobs' = OpenJobs /\ PageSignals' = PageSignals
        /\ FlagSignals' = FlagSignals /\ TypeSignals' = TypeSignals
      BY <1>1, SameSets
  <2>3. job \in OpenJobs /\ ~NoneIn(jobs, OpenJobs)
      BY <1>2, <1>7, <1>10 DEF NoneIn
  <2>4. NoneIn(calls, FetchCalls) /\ NoneIn(signals, PageSignals) /\ ~moreAvailable
      BY <2>1, <2>3 DEF OnePage
  <2>5. NoneIn(jobs', OpenJobs)
      BY <1>2, <1>7, <2>1, <2>3 DEF OnePage, AtMostOne, NoneIn
  <2>6. AtMostOne(signals', PageSignals)
      BY <1>1, <1>5, <1>6, <2>4, FewAppend
  <2>7. OnePage'
    <3>1. AtMostOne(jobs', OpenJobs)
        BY <2>5 DEF NoneIn, AtMostOne
    <3> QED BY <1>1, <2>1, <2>2, <2>4, <2>5, <2>6, <3>1 DEF OnePage
  <2>8. /\ job.start = Len(itemList)
        /\ NoneIn(signals, TypeSignals) => job.type = contentType /\ job.term = queryTerm
    <3>1. job \in Range(jobs)
        BY <1>2 DEF Range
    <3> QED BY <2>1, <2>3, <3>1 DEF PagesFit
  <2>9. NoneIn(signals, TypeSignals) => p.items = Page(Asked(Len(itemList)))
      BY <1>5, <2>8 DEF Page, Asked
  <2>10. Hold(signals', PageSignals, TypeSignals, Page(Asked(Len(itemList))))
      BY <1>1, <1>5, <1>6, <2>1, <2>9, HoldAppend DEF PagesFit
  <2>11. PagesFit'
    <3>1. \A d \in Range(calls) : d \notin FetchCalls
        BY <2>4 DEF NoneIn, Range
    <3>2. \A j \in Range(jobs') : j \notin OpenJobs
        BY <2>5 DEF NoneIn, Range
    <3>3. Page(Asked(Len(itemList)))' = Page(Asked(Len(itemList)))
        BY <1>1 DEF Page, Asked
    <3> QED BY <1>1, <2>1, <2>2, <2>10, <3>1, <3>2, <3>3 DEF PagesFit
  <2>12. FlagsFollow'
    <3>1. Covered(signals', FlagSignals, PageSignals, Len(itemList))
        BY <1>1, <1>5, <1>6, <2>1, CoveredAppend DEF FlagsFollow
    <3>2. p \in Range(signals') /\ p \in PageSignals
        BY <1>1, <1>5, <1>6, <1>10, RangeAppend
    <3>3. ASSUME NEW j \in Range(jobs'), j.id = identifier, j.fetched
          PROVE  \/ j.start + Len(Page(j)) <= Len(itemList)
                 \/ j.start + Len(Page(j)) <= Len(itemList) + Len(p.items)
      <4>1. CASE j = b
        <5>1. j.start = Len(itemList) /\ Page(j) = p.items
            BY <1>4, <1>5, <2>8, <4>1
        <5> DEFINE n == Len(itemList)
                   k == Len(p.items)
        <5>2. n \in Nat /\ k \in Nat
            BY <1>3, <1>5, <1>6
        <5>3. j.start + Len(Page(j)) = n + k
            BY <5>1
        <5> HIDE DEF n, k
        <5>4. j.start + Len(Page(j)) <= n + k
            BY <5>2, <5>3
        <5> QED BY <5>4 DEF n, k
      <4>2. CASE j \in Range(jobs)
          BY <2>1, <2>4, <3>3, <4>2 DEF FlagsFollow, NoneIn, Range
      <4> QED BY <1>8, <4>1, <4>2
    <3> QED BY <1>1, <2>2, <3>1, <3>2, <3>3 DEF FlagsFollow
  <2>13. RowsFit'
      BY <1>1, <2>1 DEF RowsFit
  <2> QED BY <2>7, <2>11, <2>12, <2>13
<1> QED BY <1>9, <1>10

LEMMA RowsRecord == TypeOK /\ RowsInv /\ Record => RowsInv'
<1> SUFFICES ASSUME TypeOK, RowsInv, Record PROVE SameRows
    BY RowsKept
<1> USE DEF modelVars, sessionVars
<1> DEFINE job == Head(jobs)
           f == [kind |-> "canGoForwardChanged", id |-> job.id,
                 start |-> FirstFlag(job), count |-> Len(Page(job))]
<1>1. /\ jobs # <<>> /\ job.fetched /\ jobs' = Tail(jobs) /\ calls' = calls
      /\ signals' = Append(signals, f) \/ signals' = signals
      /\ UNCHANGED <<identifier, contentType, queryTerm, itemList, moreAvailable, stale>>
    BY DEF Record
<1>2. jobs \in Seq(Job) /\ signals \in Seq(Signal)
    BY DEF TypeOK
<1>3. job \in Job /\ job \in Range(jobs) /\ Idle(jobs, jobs')
    BY <1>1, <1>2, TailAt, RangeTail, IdleTail
<1>4. f \in Signal
    BY <1>3, JobFields DEF Signal, FirstFlag
<1>5. /\ f \notin PageSignals /\ f \notin TypeSignals /\ f.start = job.start
      /\ f.count = Len(Page(job)) /\ (f \in FlagSignals => job.id = identifier)
    BY DEF PageSignals, TypeSignals, FlagSignals, FirstFlag
<1> HIDE DEF job, f
<1>6. CASE signals' = signals \/ f \notin FlagSignals
  <2>1. Quiet(signals, signals')
      BY <1>1, <1>2, <1>4, <1>5, <1>6, QuietAppend, QuietSame
  <2> QED BY <1>1, <1>3, <2>1, CalmSame DEF SameRows
<1>7. CASE signals' = Append(signals, f) /\ f \in FlagSignals
  <2> DEFINE t == Append(signals, f)
  <2>1. /\ NoneIn(signals, PageSignals) => NoneIn(t, PageSignals)
        /\ AtMostOne(signals, PageSignals) => AtMostOne(t, PageSignals)
      BY <1>2, <1>4, <1>5, FewAppend
  <2>2. NoneIn(t, TypeSignals) => NoneIn(signals, TypeSignals)
      BY <1>2, <1>4, AppendAt DEF NoneIn
  <2>3. \A page : Hold(signals, PageSignals, TypeSignals, page) =>
             Hold(t, PageSignals, TypeSignals, page)
      BY <1>2, <1>4, <1>5, HoldAppend
  <2>4. Range(t) = Range(signals) \cup {f}
      BY <1>2, <1>4, RangeAppend
  <2>5. ASSUME "rows" \notin stale
        PROVE  Covered(t, FlagSignals, PageSignals, Len(itemList))
    <3>1. FlagsFollow
        BY <2>5 DEF RowsInv
    <3>2. \/ f.start + f.count <= Len(itemList)
          \/ \E x \in Range(signals) : x \in PageSignals
                 /\ f.start + f.count <= Len(itemList) + Len(x.items)
        BY <1>1, <1>3, <1>5, <1>7, <3>1 DEF FlagsFollow
    <3> QED BY <1>2, <1>4, <3>1, <3>2, CoveredAppend DEF FlagsFollow
  <2> HIDE DEF t
  <2>6. Still(signals, t)
      BY <2>1, <2>2, <2>3, <2>4 DEF Still
  <2>7. signals' = t
      BY <1>7 DEF t
  <2> QED BY <1>1, <1>3, <2>5, <2>6, <2>7, CalmSame DEF SameRows
<1> QED BY <1>1, <1>6, <1>7

LEMMA RowsNext ==
    TypeOK /\ SessionInv /\ AgreeInv /\ ShownInv /\ RowsInv /\ [Next]_vars => RowsInv'
<1>1. TypeOK /\ RowsInv /\ UNCHANGED vars => RowsInv'
  <2> SUFFICES ASSUME TypeOK, RowsInv, UNCHANGED vars PROVE SameRows
      BY RowsKept
  <2> QED BY CalmSame, IdleSame, QuietSame
          DEF SameRows, vars, modelVars, sessionVars, backendVars
<1> QED BY <1>1, RowsUser, RowsModel, RowsBackend, RowsSearch, RowsRecord DEF Next

LEMMA RowsFollow == TypeOK /\ RowsInv => RowsBelong /\ FlagsWithinList
<1> SUFFICES ASSUME TypeOK, RowsInv PROVE RowsBelong /\ FlagsWithinList
    OBVIOUS
<1>1. RowsBelong
    BY DEF RowsInv, RowsFit, RowsBelong
<1>2. FlagsWithinList
  <2> DEFINE s == Head(signals)
  <2> SUFFICES ASSUME "rows" \notin stale, signals # <<>>,
                      s.kind = "canGoForwardChanged", s.id = identifier
               PROVE  s.start + s.count <= Longest(Len(itemList), s.count)
      BY DEF FlagsWithinList
  <2>1. signals \in Seq(Signal) /\ Len(itemList) \in Nat
      BY LenProperties DEF TypeOK
  <2>2. s \in Signal
      BY <2>1, TailAt
  <2>3. s \in FlagSignals /\ s.start \in Nat /\ s.count \in Nat
      BY <2>2, SignalFields DEF FlagSignals
  <2>4. s.start + s.count <= Len(itemList)
      BY <2>1, <2>3, CoveredTail DEF RowsInv, FlagsFollow
  <2> HIDE DEF s
  <2> QED BY <2>1, <2>3, <2>4 DEF Longest
<1> QED BY <1>1, <1>2

------------------------------------------------------------------------------
(* The flags of the rows, and what the rows lead to.                         *)

\* What connects a session that has not been initialized with the backend.
InstancesKnown ==
    /\ \A id \in instances : id <= identifier
    /\ ~connected => identifier \notin instances

\* It has been asked for nothing of its content type, and has heard nothing.
Unannounced ==
    /\ ~initialized /\ requested # NoType
    /\ NoneIn(calls, NamedCalls) /\ NoneIn(signals, TypeSignals)
Unreached ==
    /\ identifier \notin instances
    /\ \A c \in Range(calls) : c.id = identifier => c.kind = "fetchData"
    /\ \A j \in Range(jobs) : j.id # identifier
Unserved == (~initialized => ~canGoBack) /\ (Unannounced => Unreached)

\* The worker has one search in its hands.
OneBegun == \A i \in DOMAIN jobs : jobs[i].fetched => i = 1

WorkInv == InstancesKnown /\ Unserved /\ OneBegun

\* No rows of a content type are on their way before the registration, which
\* would lose them.
RegisteredFirst ==
    contentType \in Types /\ RegisterCall \in Range(calls) =>
        /\ itemList = <<>> /\ NoneIn(signals, PageSignals)
        /\ \A j \in Range(jobs) : j.id # identifier
        /\ NoneBehind(calls, FetchCalls, {RegisterCall})

\* The page in the worker's hands is the last one shown or the next one.
BegunJobs == {j \in Job : j.id = identifier /\ j.fetched}
LastShown(job) ==
    /\ NoneIn(signals, PageSignals)
    /\ Len(itemList) = job.start + Len(Page(job))
    /\ \A x \in 1..Len(Page(job)) : itemList[job.start + x] = Page(job)[x]
NextShown(job) ==
    /\ job.start = Len(itemList)
    /\ \E s \in Range(signals) : s \in PageSignals /\ s.items = Page(job)
BegunFit == \A j \in Range(jobs) : j \in BegunJobs => LastShown(j) \/ NextShown(j)

\* The backend has the rows the model shows, but those still to be recorded.
Recorded(r, row) == r <= Len(state[identifier].items) /\ state[identifier].items[r] = row
Pending(r) == \E j \in Range(jobs) : j \in BegunJobs /\ j.start < r
Mirrored ==
    contentType \in Types =>
        /\ \A r \in DOMAIN itemList : Recorded(r, itemList[r]) \/ Pending(r)
        /\ \A s \in Range(signals) : s \in PageSignals =>
               \A x \in DOMAIN s.items : \/ Recorded(Len(itemList) + x, s.items[x])
                                         \/ Pending(Len(itemList) + x)

RecordInv == "rows" \notin stale => RegisteredFirst /\ BegunFit /\ Mirrored

\* The content type is the one asked for and will stay it.
Steady ==
    /\ contentType = requested /\ state[identifier].contentType = requested
    /\ \A c \in Range(calls) : c \in NamedCalls => c.type = requested
    /\ \A s \in Range(signals) : s \in TypeSignals => s.type = requested
    /\ requested = NoType \/ RegisterCall \notin Range(calls)

\* An entry of S has none of T ahead of it.
Free(s, S, T) ==
    \E k \in DOMAIN s : s[k] \in S /\ \A j \in DOMAIN s : j < k => s[j] \notin T

\* A page asked for before the registration gets lost.
OtherCalls == {c \in Call : c.id = identifier /\ c.kind # "fetchData"}
Lost ==
    /\ identifier \notin instances
    /\ NoneBehind(calls, OtherCalls, FetchCalls)
    /\ \A j \in Range(jobs) : j.id # identifier

\* Flags, and pages that no new content type will come ahead of, are of the
\* content type there is.
Flagged(i) == i \in DOMAIN canGoForward /\ canGoForward[i]
FlagsSteady ==
    /\ \A i \in DOMAIN canGoForward : Flagged(i) => Steady /\ contentType \in Browsable
    /\ Free(signals, FlagSignals, TypeSignals) => Steady /\ contentType \in Browsable
    /\ \A j \in Range(jobs) : j.id = identifier /\ NoneIn(signals, TypeSignals) =>
           Steady /\ j.type = contentType
    /\ Free(calls, FetchCalls, NamedCalls) /\ NoneIn(signals, TypeSignals) =>
           Steady \/ Lost

\* Rows that lead on have their flags, or will.
Flagging(start, count) ==
    \/ \E j \in Range(jobs) : /\ j \in BegunJobs /\ j.type \in Browsable
                              /\ j.start = start /\ Len(Page(j)) = count
    \/ \E f \in Range(signals) : /\ f \in FlagSignals
                                 /\ f.start = start /\ f.count = count
Unchallenged == NoneIn(calls, NamedCalls) /\ NoneIn(signals, TypeSignals)
FlagsComplete ==
    contentType \in Browsable /\ Unchallenged =>
        /\ \A i \in DOMAIN itemList :
               \/ Flagged(i)
               \/ \E start, count \in Nat : /\ start < i /\ i <= start + count
                                            /\ Flagging(start, count)
        /\ \A s \in Range(signals) : s \in PageSignals /\ s.items # <<>> =>
               Flagging(Len(itemList), Len(s.items))

FlagInv == stale = {} => FlagsSteady /\ FlagsComplete

\* A row to go forward to is still the row it was when the backend gets there.
Alters(c, id) ==
    c.id = id /\ \/ c.kind \in {"registerInstance", "unregisterInstance", "fetchData"}
                 \/ c.kind = "setContentType" /\ c.type # state[id].contentType
Forwards == {c \in Call : c.kind = "goForward" /\ c.expected # NoType}
Led(c) ==
    /\ Forward(c.id, c.index) = c.expected
    /\ \A j \in Range(jobs) : j.id # c.id
Leading(s) ==
    \A k \in DOMAIN s : s[k] \in Forwards =>
        Led(s[k]) /\ \A j \in DOMAIN s : j < k => ~Alters(s[j], s[k].id)
ForwardInv == GoesWhereShown /\ Leading(calls)

LEMMA WorkInit == Init => WorkInv
<1> SUFFICES ASSUME Init PROVE WorkInv
    OBVIOUS
<1>1. Range(<<>>) = {} /\ DOMAIN <<>> = {}
    BY DEF Range
<1> QED BY <1>1 DEF Init, WorkInv, InstancesKnown, Unserved, Unannounced, Unreached, OneBegun

\* Asking for a content type that there is names one.
LEMMA AskForNames ==
    ASSUME TypeOK, NEW type \in Paths, AskFor(type)
    PROVE  /\ connected /\ type \in Types => ~NoneIn(calls', NamedCalls)
           /\ NoneIn(calls', NamedCalls) => NoneIn(calls, NamedCalls)
<1> DEFINE c == SetContentTypeCall(type)
<1>1. c \in Call /\ calls \in Seq(Call) /\ (connected => calls' = Append(calls, c))
      /\ (~connected => calls' = calls)
    BY AskForSends DEF TypeOK
<1>2. c.id = identifier /\ c.kind = "setContentType" /\ c.type = type
    BY DEF SetContentTypeCall
<1>3. type \in Types => c \in NamedCalls
    BY <1>1, <1>2 DEF NamedCalls, SetCalls
<1> HIDE DEF c
<1>4. type \in Types => ~NoneIn(Append(calls, c), NamedCalls)
    BY <1>1, <1>3, AppendAt DEF NoneIn
<1>5. NoneIn(Append(calls, c), NamedCalls) => NoneIn(calls, NamedCalls)
    BY <1>1, AppendAt DEF NoneIn
<1> QED BY <1>1, <1>4, <1>5

\* Without a connection the backend does not know of the session.
LEMMA Unconnected ==
    ASSUME SessionInv, WorkInv, ~connected
    PROVE  Unreached /\ ~initialized
    BY DEF SessionInv, Unused, WorkInv, InstancesKnown, Unreached

LEMMA WorkUser ==
    TypeOK /\ SessionInv /\ WorkInv /\ (User \/ OnInitializationDone \/ FetchMore) => WorkInv'
<1> SUFFICES ASSUME TypeOK, SessionInv, WorkInv, User \/ OnInitializationDone \/ FetchMore
             PROVE  WorkInv'
    OBVIOUS
<1> USE DEF modelVars, sessionVars, backendVars
<1>j. UNCHANGED <<instances, jobs>>
    BY DEF User, Connect, Disconnect, SetContentType, SetQuery, GoBack, GoForward,
           OnInitializationDone, FetchMore
<1>o. OneBegun'
    BY <1>j DEF WorkInv, OneBegun
\* the session stays, and nothing is sent that would make it known
<1>0. ASSUME UNCHANGED <<connected, identifier>>, initialized \/ ~canGoBack',
             initialized => initialized', Unannounced' => Unreached'
      PROVE  WorkInv'
  <2>1. InstancesKnown'
      BY <1>0, <1>j DEF WorkInv, InstancesKnown
  <2>2. Unserved'
      BY <1>0 DEF Unserved
  <2> QED BY <1>o, <2>1, <2>2 DEF WorkInv
<1>u. Unserved /\ InstancesKnown
    BY DEF WorkInv
<1>n. identifier' = identifier => NamedCalls' = NamedCalls /\ TypeSignals' = TypeSignals
    BY SameSets
<1>1. CASE Connect
  <2>1. Unreached
      BY <1>1, Unconnected DEF Connect
  <2>2. Unreached'
      BY <1>1, <2>1 DEF Connect, Unreached
  <2>3. UNCHANGED <<initialized, identifier, canGoBack>> /\ connected'
      BY <1>1 DEF Connect
  <2>4. InstancesKnown'
      BY <1>j, <1>u, <2>3 DEF InstancesKnown
  <2>5. Unserved'
      BY <1>u, <2>2, <2>3 DEF Unserved
  <2> QED BY <1>o, <2>4, <2>5 DEF WorkInv
<1>2. CASE Disconnect
  <2>1. identifier' = identifier + 1 /\ requested' = NoType /\ ~canGoBack'
        /\ identifier \in Nat
      BY <1>2 DEF Disconnect, TypeOK, Session
  <2>2. instances' = instances /\ \A id \in instances : id \in Nat /\ id <= identifier
      BY <1>j, <1>u DEF InstancesKnown, TypeOK, Session
  <2>3. InstancesKnown'
      BY <2>1, <2>2 DEF InstancesKnown
  <2>4. Unserved'
      BY <2>1 DEF Unserved, Unannounced
  <2> QED BY <1>o, <2>3, <2>4 DEF WorkInv
<1>3. CASE GoBack
  <2>1. canGoBack /\ UNCHANGED <<connected, initialized, identifier>>
      BY <1>3 DEF GoBack
  <2>2. initialized
      BY <1>u, <2>1 DEF Unserved
  <2>3. initialized' /\ (Unannounced' => Unreached')
      BY <2>1, <2>2 DEF Unannounced
  <2> QED BY <1>0, <2>1, <2>2, <2>3
\* a content type is asked for
<1>a. ASSUME NEW type \in Paths, AskFor(type), requested' = type,
             UNCHANGED <<connected, initialized, identifier, signals>>,
             initialized \/ ~canGoBack'
      PROVE  WorkInv'
  <2>1. CASE connected
    <3>1. Unannounced' => FALSE
      <4>1. type # NoType => ~NoneIn(calls', NamedCalls)
          BY <1>a, <2>1, AskForNames DEF Paths
      <4> QED BY <1>a, <1>n, <4>1 DEF Unannounced
    <3> QED BY <1>0, <1>a, <3>1
  <2>2. CASE ~connected
    <3>1. calls' = calls
        BY <1>a, <2>2, AskForSends
    <3>2. Unreached
        BY <2>2, Unconnected
    <3>3. Unreached'
        BY <1>a, <1>j, <3>1, <3>2 DEF Unreached
    <3> QED BY <1>0, <1>a, <3>3
  <2> QED BY <2>1, <2>2
<1>4. ASSUME NEW type \in Offered, SetContentType(type) PROVE WorkInv'
  <2>1. type \in Paths
      BY BrowseAssumption DEF Paths
  <2>2. UpdateContentType(type) /\ UNCHANGED <<connected, initialized, identifier, signals>>
      BY <1>4 DEF SetContentType
  <2>3. AskFor(type) /\ requested' = type /\ ~canGoBack'
      BY <2>2 DEF UpdateContentType
  <2> QED BY <1>a, <2>1, <2>2, <2>3
<1>5. ASSUME NEW new \in Terms \cup Unparsable, SetQuery(new) PROVE WorkInv'
  <2>1. requested \in Paths
      BY DEF TypeOK
  <2>2. AskFor(requested) /\ requested' = requested /\ canGoBack' = canGoBack
        /\ UNCHANGED <<connected, initialized, identifier, signals>>
      BY <1>5 DEF SetQuery
  <2>3. initialized \/ ~canGoBack'
      BY <1>u, <2>2 DEF Unserved
  <2> QED BY <1>a, <2>1, <2>2, <2>3
<1>6. ASSUME NEW i \in DOMAIN itemList, NEW inModel \in BOOLEAN,
             GoForward(i - 1, inModel)
      PROVE  WorkInv'
  <2>1. itemList # <<>> /\ UNCHANGED <<connected, initialized, identifier>>
      BY <1>6 DEF GoForward
  <2>2. initialized
      BY <2>1 DEF SessionInv, Unheard
  <2>3. initialized' /\ (Unannounced' => Unreached')
      BY <2>1, <2>2 DEF Unannounced
  <2> QED BY <1>0, <2>1, <2>2, <2>3
<1>7. CASE OnInitializationDone
  <2>1. initialized' /\ canGoBack' = canGoBack /\ UNCHANGED <<connected, identifier>>
      BY <1>7 DEF OnInitializationDone
  <2>2. initialized \/ ~canGoBack'
      BY <1>u, <2>1 DEF Unserved
  <2> QED BY <1>0, <2>1, <2>2 DEF Unannounced
<1>8. CASE FetchMore
  <2> DEFINE c == FetchCall(Len(itemList))
  <2>1. /\ calls' = Append(calls, c) /\ canGoBack' = canGoBack
        /\ UNCHANGED <<connected, initialized, identifier, requested, signals>>
      BY <1>8 DEF FetchMore
  <2>2. c \in Call /\ c.kind = "fetchData" /\ calls \in Seq(Call)
      BY CallsTyped, LenProperties DEF TypeOK, FetchCall
  <2> HIDE DEF c
  <2>3. initialized \/ ~canGoBack'
      BY <1>u, <2>1 DEF Unserved
  <2>4. ASSUME Unannounced' PROVE Unreached'
    <3>1. NoneIn(Append(calls, c), NamedCalls) => NoneIn(calls, NamedCalls)
        BY <2>2, AppendAt DEF NoneIn
    <3>2. Unannounced
        BY <1>n, <2>1, <2>4, <3>1 DEF Unannounced
    <3>3. Range(calls') = Range(calls) \cup {c}
        BY <2>1, <2>2, RangeAppend
    <3>4. Unreached
        BY <1>u, <3>2 DEF Unserved
    <3> QED BY <1>j, <2>1, <2>2, <3>3, <3>4 DEF Unreached
  <2> QED BY <1>0, <2>1, <2>3, <2>4
<1> QED BY <1>1, <1>2, <1>3, <1>4, <1>5, <1>6, <1>7, <1>8 DEF User

LEMMA WorkModel == TypeOK /\ SessionInv /\ WorkInv /\ Model => WorkInv'
<1> SUFFICES ASSUME TypeOK, SessionInv, WorkInv, Model PROVE WorkInv'
    OBVIOUS
<1> USE DEF modelVars, sessionVars, backendVars
<1>1. /\ UNCHANGED <<connected, initialized, identifier, instances, jobs>>
      /\ connected => initialized
    BY DEF Model, OnIgnored, OnCapabilitiesChanged, OnCanGoBackChanged, OnContentTypeChanged,
           OnDataFetched, OnCanGoForwardChanged, OnReply, Hear
<1>2. InstancesKnown' /\ OneBegun'
    BY <1>1 DEF WorkInv, InstancesKnown, OneBegun
<1>3. CASE connected
    BY <1>1, <1>2, <1>3 DEF WorkInv, Unserved, Unannounced
<1>4. CASE ~connected
  <2>1. Unreached /\ ~initialized /\ ~canGoBack
      BY <1>4, Unconnected DEF WorkInv, Unserved
  <2>2. CASE OnIgnored
      BY <1>1, <1>2, <2>1, <2>2 DEF OnIgnored, WorkInv, Unserved, Unreached
  <2>3. CASE OnReply
    <3>1. \/ UpdateContentType(Head(signals).type)
          \/ UNCHANGED <<modelVars, calls, stale>>
        BY <2>3 DEF OnReply
    <3>2. calls' = calls /\ ~canGoBack'
        BY <1>4, <2>1, <3>1 DEF UpdateContentType, AskFor
    <3> QED BY <1>1, <1>2, <2>1, <3>2 DEF WorkInv, Unserved, Unreached
  <2>4. OnIgnored \/ OnReply
      BY <1>4 DEF Model, OnCapabilitiesChanged, OnCanGoBackChanged, OnContentTypeChanged,
                  OnDataFetched, OnCanGoForwardChanged, Concerned
  <2> QED BY <2>2, <2>3, <2>4
<1> QED BY <1>3, <1>4

\* What the backend does for a call, it does for the session of the call.
LEMMA BackendServes ==
    ASSUME TypeOK, Backend
    PROVE  /\ calls \in Seq(Call) /\ calls # <<>> /\ calls' = Tail(calls)
           /\ Head(calls) \in Call /\ Caller = Head(calls).id /\ Caller \in Session
           /\ Head(calls) \in Range(calls) /\ Range(calls') \subseteq Range(calls)
           /\ instances' \subseteq instances \cup {Caller}
           /\ Head(calls).kind = "fetchData" => instances' = instances
           /\ \/ jobs' = jobs
              \/ /\ Head(calls).kind = "fetchData" /\ Caller \in instances
                 /\ \E j \in Job : /\ jobs' = Append(jobs, j) /\ j.id = Caller /\ ~j.fetched
                                   /\ j.type = state[Caller].contentType
                                   /\ j.term = state[Caller].term
           /\ UNCHANGED <<modelVars, sessionVars, uses, stale>>
<1> USE DEF modelVars, sessionVars
<1>1. \E kind : Take(kind)
    BY DEF Backend, RegisterInstance, UnregisterInstance, ServeSetContentType,
           ServeSetupFilter, ServeFetchData, ServeGoBack, ServeGoForward
<1>2. /\ calls \in Seq(Call) /\ calls # <<>> /\ calls' = Tail(calls)
      /\ Head(calls) \in Call /\ Caller = Head(calls).id /\ Caller \in Session
      /\ Head(calls) \in Range(calls) /\ Range(calls') \subseteq Range(calls)
      /\ UNCHANGED <<modelVars, sessionVars, uses, stale>>
  <2>1. calls \in Seq(Call) /\ Caller = Head(calls).id
      BY DEF TypeOK, Caller
  <2>2. UNCHANGED <<modelVars, sessionVars, uses, stale>>
      BY <1>1 DEF Take
  <2> QED BY <1>1, <2>1, <2>2, HeadCall, Taken
<1>3. instances' \subseteq instances \cup {Caller}
    BY DEF Backend, RegisterInstance, UnregisterInstance, ServeSetContentType,
           ServeSetupFilter, ServeFetchData, ServeGoBack, ServeGoForward
<1>4. Head(calls).kind = "fetchData" => instances' = instances
    BY DEF Backend, RegisterInstance, UnregisterInstance, ServeSetContentType,
           ServeSetupFilter, ServeFetchData, ServeGoBack, ServeGoForward, Take
<1>5. \/ jobs' = jobs
      \/ /\ Head(calls).kind = "fetchData" /\ Caller \in instances
         /\ \E j \in Job : /\ jobs' = Append(jobs, j) /\ j.id = Caller /\ ~j.fetched
                           /\ j.type = state[Caller].contentType
                           /\ j.term = state[Caller].term
  <2>1. CASE ServeFetchData
    <3> DEFINE j == [id |-> Caller, type |-> state[Caller].contentType,
                     term |-> state[Caller].term, start |-> Head(calls).start,
                     fetched |-> FALSE]
    <3>1. Head(calls).kind = "fetchData"
        BY <2>1 DEF ServeFetchData, Take
    <3>2. Head(calls).start \in Nat
        BY <1>2, <3>1, CallFields
    <3>3. j \in Job
        BY <1>2, <3>2 DEF TypeOK, State, Job
    <3>4. jobs' = IF Caller \in instances THEN Append(jobs, j) ELSE jobs
        BY <2>1 DEF ServeFetchData
    <3>5. /\ j.id = Caller /\ ~j.fetched
          /\ j.type = state[Caller].contentType /\ j.term = state[Caller].term
        OBVIOUS
    <3> HIDE DEF j
    <3> QED BY <3>1, <3>3, <3>4, <3>5
  <2>2. CASE ~ServeFetchData
      BY <2>2 DEF Backend, RegisterInstance, UnregisterInstance, ServeSetContentType,
                  ServeSetupFilter, ServeGoBack, ServeGoForward
  <2> QED BY <2>1, <2>2
<1> QED BY <1>2, <1>3, <1>4, <1>5

\* What the backend tells a session: of a content type only if it was named one.
LEMMA BackendTells ==
    ASSUME TypeOK, Backend
    PROVE  \/ /\ signals' = signals
              /\ Head(calls).kind = "setContentType" => Head(calls).type \notin Types
           \/ \E s \in Signal :
                  /\ signals' = Append(signals, s)
                  /\ Head(calls).kind # "setContentType"
                  /\ s.kind \in {"supportedCapabilitiesChanged", "reply"}
           \/ \E b, m \in Signal :
                  /\ signals' = Append(Append(signals, b), m)
                  /\ Append(signals, b) \in Seq(Signal)
                  /\ b.kind = "canGoBackChanged"
                  /\ m.kind = "contentTypeChanged" /\ m.id = Caller
                  /\ m.type = Head(calls).type
                  /\ Head(calls).kind = "setContentType" /\ Head(calls).type \in Types
<1>1. signals \in Seq(Signal) /\ signals' \in Seq(Signal)
    BY TypeBackend DEF TypeOK
<1>2. CASE RegisterInstance \/ UnregisterInstance \/ ServeSetupFilter
    BY <1>2 DEF RegisterInstance, UnregisterInstance, ServeSetupFilter, Take
<1>3. CASE ServeFetchData \/ ServeGoBack \/ ServeGoForward
  <2>1. PICK s : /\ signals' = Append(signals, s)
                 /\ s.kind \in {"supportedCapabilitiesChanged", "reply"}
                 /\ Head(calls).kind # "setContentType"
      BY <1>3 DEF Take, ServeFetchData, ServeGoBack, ServeGoForward
  <2>2. s \in Signal
      BY <1>1, <2>1
  <2> QED BY <2>1, <2>2
<1>4. CASE ServeSetContentType
  <2> DEFINE type == Head(calls).type
             b == [kind |-> "canGoBackChanged", id |-> Caller,
                   can |-> Parent[type] # NoType]
             m == [kind |-> "contentTypeChanged", id |-> Caller, type |-> type]
  <2>1. /\ signals' = IF type \in Types THEN signals \o <<b, m>> ELSE signals
        /\ Head(calls).kind = "setContentType"
      BY <1>4 DEF ServeSetContentType, Take
  <2>2. CASE type \in Types
    <3>1. b \in Signal /\ m \in Signal
        BY <2>2, BackendServes DEF Signal
    <3>2. signals' = signals \o <<b, m>> /\ b.kind = "canGoBackChanged"
          /\ m.kind = "contentTypeChanged" /\ m.id = Caller /\ m.type = type
        BY <2>1, <2>2
    <3> HIDE DEF b, m
    <3>3. signals' = Append(Append(signals, b), m) /\ Append(signals, b) \in Seq(Signal)
        BY <1>1, <3>1, <3>2
    <3> QED BY <2>1, <2>2, <3>1, <3>2, <3>3
  <2>3. CASE type \notin Types
      BY <2>1, <2>3
  <2> QED BY <2>2, <2>3
<1> QED BY <1>2, <1>3, <1>4 DEF Backend

\* A queue that gets longer keeps what it has.
LEMMA NoneAppend ==
    ASSUME NEW Q, NEW s \in Seq(Q), NEW e \in Q, NEW S, NoneIn(Append(s, e), S)
    PROVE  NoneIn(s, S) /\ e \notin S
    BY AppendAt DEF NoneIn

LEMMA BackendNames ==
    ASSUME TypeOK, Backend, NoneIn(calls', NamedCalls), NoneIn(signals', TypeSignals)
    PROVE  NoneIn(calls, NamedCalls) /\ NoneIn(signals, TypeSignals)
<1>1. calls \in Seq(Call) /\ calls # <<>> /\ calls' = Tail(calls) /\ Head(calls) \in Call
      /\ Caller = Head(calls).id
    BY BackendServes
<1>2. signals \in Seq(Signal)
    BY DEF TypeOK
<1>3. NoneIn(signals, TypeSignals)
  <2>1. ASSUME NEW s \in Signal, signals' = Append(signals, s)
        PROVE  NoneIn(signals, TypeSignals)
      BY <1>2, <2>1, NoneAppend
  <2>2. ASSUME NEW b \in Signal, NEW m \in Signal, Append(signals, b) \in Seq(Signal),
               signals' = Append(Append(signals, b), m)
        PROVE  NoneIn(signals, TypeSignals)
    <3>1. NoneIn(Append(signals, b), TypeSignals)
        BY <2>2, NoneAppend
    <3> QED BY <1>2, <3>1, NoneAppend
  <2> QED BY <2>1, <2>2, BackendTells
<1>4. Head(calls) \notin NamedCalls
  <2> SUFFICES ASSUME Head(calls) \in NamedCalls PROVE FALSE
      OBVIOUS
  <2>1. /\ Head(calls).kind = "setContentType" /\ Head(calls).id = identifier
        /\ Head(calls).type \in Types
      BY CallKinds DEF NamedCalls
  <2>2. PICK b \in Signal, m \in Signal :
            /\ signals' = Append(Append(signals, b), m)
            /\ Append(signals, b) \in Seq(Signal)
            /\ m.kind = "contentTypeChanged" /\ m.id = Caller
      BY <2>1, BackendTells
  <2>3. m \in TypeSignals
      BY <1>1, <2>1, <2>2 DEF TypeSignals
  <2> QED BY <2>2, <2>3, NoneAppend
<1> QED BY <1>1, <1>3, <1>4, FewTail

LEMMA WorkBackend == TypeOK /\ SessionInv /\ WorkInv /\ Backend => WorkInv'
<1> SUFFICES ASSUME TypeOK, SessionInv, WorkInv, Backend PROVE WorkInv'
    OBVIOUS
<1> USE DEF modelVars, sessionVars
<1> DEFINE c == Head(calls)
<1>1. /\ Caller = c.id /\ c \in Range(calls) /\ Range(calls') \subseteq Range(calls)
      /\ instances' \subseteq instances \cup {Caller}
      /\ c.kind = "fetchData" => instances' = instances
      /\ UNCHANGED <<connected, initialized, identifier, requested, canGoBack>>
    BY BackendServes
<1>2. InstancesKnown'
  <2>1. c.id <= identifier /\ (~connected => c.id # identifier)
      BY <1>1 DEF SessionInv, IdsKnown, Unused
  <2> HIDE DEF c
  <2> QED BY <1>1, <2>1 DEF WorkInv, InstancesKnown
<1>3. OneBegun'
  <2>1. CASE jobs' = jobs
      BY <2>1 DEF WorkInv, OneBegun
  <2>2. ASSUME NEW j \in Job, jobs' = Append(jobs, j), ~j.fetched
        PROVE  OneBegun'
    <3>1. jobs \in Seq(Job)
        BY DEF TypeOK
    <3> QED BY <2>2, <3>1, AppendAt DEF WorkInv, OneBegun
  <2> QED BY <2>1, <2>2, BackendServes
<1>4. ASSUME Unannounced' PROVE Unreached'
  <2>1. NamedCalls' = NamedCalls /\ TypeSignals' = TypeSignals
      BY <1>1, SameSets
  <2>2. Unannounced
      BY <1>1, <1>4, <2>1, BackendNames DEF Unannounced
  <2>3. Unreached
      BY <2>2 DEF WorkInv, Unserved
  <2>4. c.id = identifier => c.kind = "fetchData"
      BY <1>1, <2>3 DEF Unreached
  <2>5. identifier \notin instances'
      BY <1>1, <2>3, <2>4 DEF Unreached
  <2>6. \A j \in Range(jobs') : j.id # identifier
    <3>1. CASE jobs' = jobs
        BY <2>3, <3>1 DEF Unreached
    <3>2. ASSUME NEW j \in Job, jobs' = Append(jobs, j), j.id = Caller, Caller \in instances
          PROVE  \A x \in Range(jobs') : x.id # identifier
      <4>1. Range(jobs') = Range(jobs) \cup {j}
          BY <3>2, RangeAppend DEF TypeOK
      <4> QED BY <2>3, <3>2, <4>1 DEF Unreached
    <3> QED BY <3>1, <3>2, BackendServes
  <2> QED BY <1>1, <2>3, <2>5, <2>6 DEF Unreached
<1>5. Unserved'
    BY <1>1, <1>4 DEF WorkInv, Unserved
<1> QED BY <1>2, <1>3, <1>5 DEF WorkInv

\* What the worker tells, and whom.
LEMMA WorkerServes ==
    ASSUME TypeOK, Search \/ Record
    PROVE  /\ jobs \in Seq(Job) /\ jobs # <<>> /\ signals \in Seq(Signal)
           /\ Head(jobs) \in Job /\ Head(jobs) \in Range(jobs)
           /\ instances' \subseteq instances \cup {Head(jobs).id}
           /\ Search => instances' = instances
           /\ \/ signals' = signals
              \/ \E s \in Signal :
                     /\ signals' = Append(signals, s) /\ s.id = Head(jobs).id
                     /\ s.kind \in {"dataFetched", "canGoForwardChanged"}
           /\ UNCHANGED <<modelVars, sessionVars, calls, uses, stale>>
<1>1. jobs \in Seq(Job) /\ jobs # <<>> /\ signals \in Seq(Signal) /\ signals' \in Seq(Signal)
    BY TypeWorker DEF TypeOK, Search, Record
<1>2. Head(jobs) \in Job /\ Head(jobs) \in Range(jobs)
    BY <1>1, TailAt, RangeTail
<1>3. /\ instances' \subseteq instances \cup {Head(jobs).id}
      /\ Search => instances' = instances
      /\ UNCHANGED <<modelVars, sessionVars, calls, uses, stale>>
    BY DEF Search, Record
<1>4. \/ signals' = signals
      \/ \E s : /\ signals' = Append(signals, s) /\ s.id = Head(jobs).id
                /\ s.kind \in {"dataFetched", "canGoForwardChanged"}
    BY DEF Search, Record
<1>5. \A s : signals' = Append(signals, s) => s \in Signal
    BY <1>1
<1> QED BY <1>1, <1>2, <1>3, <1>4, <1>5

LEMMA WorkWorker == TypeOK /\ SessionInv /\ WorkInv /\ (Search \/ Record) => WorkInv'
<1> SUFFICES ASSUME TypeOK, SessionInv, WorkInv, Search \/ Record PROVE WorkInv'
    OBVIOUS
<1> USE DEF modelVars, sessionVars
<1> DEFINE job == Head(jobs)
<1>1. /\ jobs \in Seq(Job) /\ jobs # <<>> /\ signals \in Seq(Signal)
      /\ job \in Job /\ job \in Range(jobs)
      /\ instances' \subseteq instances \cup {job.id} /\ (Search => instances' = instances)
      /\ UNCHANGED <<connected, initialized, identifier, requested, canGoBack, calls>>
    BY WorkerServes
<1> HIDE DEF job
<1>2. InstancesKnown'
  <2>1. job.id <= identifier /\ (~connected => job.id # identifier)
      BY <1>1 DEF SessionInv, IdsKnown, Unused
  <2> QED BY <1>1, <2>1 DEF WorkInv, InstancesKnown
<1>3. OneBegun'
  <2>1. CASE Search
    <3>1. ~Head(jobs).fetched
        BY <2>1 DEF Search
    <3> QED BY <2>1, <3>1, SearchLeaves DEF WorkInv, OneBegun
  <2>2. CASE Record
    <3>1. jobs' = Tail(jobs)
        BY <2>2 DEF Record
    <3>2. ASSUME NEW i \in DOMAIN jobs', jobs'[i].fetched
          PROVE  FALSE
      <4>1. i \in Nat /\ i > 0 /\ i + 1 \in DOMAIN jobs /\ jobs'[i] = jobs[i + 1]
          BY <1>1, <3>1, <3>2, TailAt
      <4>2. i + 1 = 1
          BY <3>2, <4>1 DEF WorkInv, OneBegun
      <4> QED BY <4>1, <4>2
    <3> QED BY <3>2 DEF OneBegun
  <2> QED BY <2>1, <2>2
<1>4. ASSUME Unannounced' PROVE Unreached'
  <2>1. NamedCalls' = NamedCalls /\ TypeSignals' = TypeSignals
      BY <1>1, SameSets
  <2>2. NoneIn(signals, TypeSignals)
      BY <1>1, <1>4, <2>1, NoneAppend, WorkerServes DEF Unannounced
  <2>3. Unreached
      BY <1>1, <1>4, <2>1, <2>2 DEF Unannounced, WorkInv, Unserved
  <2>4. identifier \notin instances'
      BY <1>1, <2>3 DEF Unreached
  <2>5. \A j \in Range(jobs') : j.id # identifier
    <3>1. CASE Search
      <4>1. Begun(job).id = job.id
          BY <1>1, BegunPage
      <4>2. \A j \in Range(jobs') : j = Begun(job) \/ j \in Range(jobs)
          BY <3>1, SearchLeaves DEF Range, job
      <4> QED BY <1>1, <2>3, <4>1, <4>2 DEF Unreached
    <3>2. CASE Record
      <4>1. Range(jobs') \subseteq Range(jobs)
          BY <1>1, <3>2, RangeTail DEF Record
      <4> QED BY <2>3, <4>1 DEF Unreached
    <3> QED BY <3>1, <3>2
  <2> QED BY <1>1, <2>3, <2>4, <2>5 DEF Unreached
<1>5. Unserved'
    BY <1>1, <1>4 DEF WorkInv, Unserved
<1> QED BY <1>2, <1>3, <1>5 DEF WorkInv

LEMMA WorkNext == TypeOK /\ SessionInv /\ WorkInv /\ [Next]_vars => WorkInv'
<1>1. WorkInv /\ UNCHANGED vars => WorkInv'
  <2> SUFFICES ASSUME WorkInv, UNCHANGED vars PROVE WorkInv'
      OBVIOUS
  <2> USE DEF vars, modelVars, sessionVars, backendVars
  <2>1. NamedCalls' = NamedCalls /\ TypeSignals' = TypeSignals
      BY SameSets
  <2>2. InstancesKnown' /\ OneBegun'
      BY DEF WorkInv, InstancesKnown, OneBegun
  <2>3. Unserved'
      BY <2>1 DEF WorkInv, Unserved, Unannounced, Unreached
  <2> QED BY <2>2, <2>3 DEF WorkInv
<1> QED BY <1>1, WorkUser, WorkModel, WorkBackend, WorkWorker DEF Next

\* The backend's rows follow those of the model.
LEMMA SameBegun ==
    identifier' = identifier => BegunJobs' = BegunJobs /\ OtherCalls' = OtherCalls
    BY DEF BegunJobs, OtherCalls

\* Signals come and go, but none that brings rows.
SamePages(s, t) ==
    /\ NoneIn(s, PageSignals) => NoneIn(t, PageSignals)
    /\ \A x \in PageSignals : x \in Range(s) <=> x \in Range(t)

LEMMA PagesAppend ==
    ASSUME NEW s \in Seq(Signal), NEW e \in Signal, e \notin PageSignals
    PROVE  SamePages(s, Append(s, e))
<1>1. NoneIn(s, PageSignals) => NoneIn(Append(s, e), PageSignals)
    BY FewAppend
<1>2. Range(Append(s, e)) = Range(s) \cup {e}
    BY RangeAppend
<1> QED BY <1>1, <1>2 DEF SamePages

LEMMA PagesTail ==
    ASSUME NEW s \in Seq(Signal), s # <<>>, Head(s) \notin PageSignals
    PROVE  SamePages(s, Tail(s))
<1>1. NoneIn(s, PageSignals) => NoneIn(Tail(s), PageSignals)
    BY FewTail
<1>2. Range(Tail(s)) \subseteq Range(s) /\ Range(s) \subseteq Range(Tail(s)) \cup {Head(s)}
    BY RangeTail
<1> QED BY <1>1, <1>2 DEF SamePages

\* A step that leaves the rows alone, and what is kept of them.
SameRecord ==
    /\ UNCHANGED <<identifier, contentType, itemList>>
    /\ "rows" \in stale => "rows" \in stale'
    /\ contentType \in Types /\ RegisterCall \in Range(calls') =>
          /\ RegisterCall \in Range(calls)
          /\ NoneBehind(calls, FetchCalls, {RegisterCall}) =>
                 NoneBehind(calls', FetchCalls, {RegisterCall})
          /\ \A j \in Range(jobs') :
                 j.id = identifier => \E i \in Range(jobs) : i.id = identifier
    /\ SamePages(signals, signals')
    /\ \A j \in BegunJobs : j \in Range(jobs) <=> j \in Range(jobs')
    /\ state'[identifier].items = state[identifier].items

LEMMA RecordKept == RecordInv /\ SameRecord => RecordInv'
<1> SUFFICES ASSUME RecordInv, SameRecord, "rows" \notin stale'
             PROVE  RegisteredFirst' /\ BegunFit' /\ Mirrored'
    BY DEF RecordInv
<1>1. RegisteredFirst /\ BegunFit /\ Mirrored
    BY DEF RecordInv, SameRecord
<1>2. /\ UNCHANGED <<identifier, contentType, itemList>>
      /\ FetchCalls' = FetchCalls /\ PageSignals' = PageSignals
      /\ RegisterCall' = RegisterCall /\ BegunJobs' = BegunJobs
    BY SameSets, SameBegun DEF SameRecord
<1>3. /\ NoneIn(signals, PageSignals) => NoneIn(signals', PageSignals)
      /\ \A x \in PageSignals : x \in Range(signals) <=> x \in Range(signals')
      /\ \A j \in BegunJobs : j \in Range(jobs) <=> j \in Range(jobs')
      /\ state'[identifier].items = state[identifier].items
    BY DEF SameRecord, SamePages
<1>4. RegisteredFirst'
    BY <1>1, <1>2, <1>3 DEF RegisteredFirst, SameRecord
<1>5. BegunFit'
    BY <1>1, <1>2, <1>3 DEF BegunFit, LastShown, NextShown
<1>6. Mirrored'
  <2>1. \A r, row : Recorded(r, row)' <=> Recorded(r, row)
      BY <1>2, <1>3 DEF Recorded
  <2>2. \A r : Pending(r)' <=> Pending(r)
      BY <1>2, <1>3 DEF Pending
  <2>3. /\ \A r, row : (r <= Len(state'[identifier].items) /\ state'[identifier].items[r] = row)
                          <=> Recorded(r, row)
        /\ \A r : (\E j \in Range(jobs') : j \in BegunJobs /\ j.start < r) <=> Pending(r)
      BY <1>3 DEF Recorded, Pending
  <2> QED BY <1>1, <1>2, <1>3, <2>3 DEF Mirrored, Recorded, Pending
<1> QED BY <1>4, <1>5, <1>6

\* There are no rows, and none on their way but those asked for last.
Emptied ==
    /\ itemList = <<>> /\ NoneIn(signals, PageSignals)
    /\ \A j \in Range(jobs) : j.id # identifier
    /\ NoneBehind(calls, FetchCalls, {RegisterCall})

LEMMA RecordRestarts == Emptied => RecordInv
<1> SUFFICES ASSUME Emptied PROVE RecordInv
    OBVIOUS
<1> USE DEF Emptied
<1>1. \A s \in Range(signals) : s \notin PageSignals
    BY DEF NoneIn, Range
<1>2. \A j \in Range(jobs) : j \notin BegunJobs
    BY DEF BegunJobs
<1> QED BY <1>1, <1>2 DEF RecordInv, RegisteredFirst, BegunFit, Mirrored

LEMMA RecordInit == Init => RecordInv
<1> SUFFICES ASSUME Init PROVE RecordInv
    OBVIOUS
<1>1. Range(<<>>) = {} /\ DOMAIN <<>> = {}
    BY DEF Range
<1>2. /\ itemList = <<>> /\ NoneIn(signals, PageSignals)
      /\ \A j \in Range(jobs) : j.id # identifier
      /\ NoneBehind(calls, FetchCalls, {RegisterCall})
    BY <1>1 DEF Init, NoneIn, NoneBehind
<1> QED BY <1>2, RecordRestarts DEF Emptied

LEMMA RecordUser ==
    TypeOK /\ SessionInv /\ RecordInv /\ (User \/ OnInitializationDone \/ FetchMore)
        => RecordInv'
<1> SUFFICES ASSUME TypeOK, SessionInv, RecordInv,
                    User \/ OnInitializationDone \/ FetchMore
             PROVE  RecordInv'
    OBVIOUS
<1> USE DEF modelVars, sessionVars, backendVars
<1>c. calls \in Seq(Call)
    BY DEF TypeOK
<1>0. ASSUME \/ calls' = calls
             \/ \E c \in Call : calls' = Append(calls, c) /\ c # RegisterCall
             \/ contentType = NoType,
             "rows" \in stale => "rows" \in stale',
             UNCHANGED <<identifier, contentType, itemList, jobs, signals, state>>
      PROVE  RecordInv'
  <2>1. SamePages(signals, signals')
      BY <1>0 DEF SamePages
  <2>2. ASSUME NEW c \in Call, calls' = Append(calls, c), c # RegisterCall
        PROVE  /\ RegisterCall \in Range(calls') => RegisterCall \in Range(calls)
               /\ NoneBehind(calls, FetchCalls, {RegisterCall}) =>
                      NoneBehind(calls', FetchCalls, {RegisterCall})
    <3>1. Range(calls') = Range(calls) \cup {c}
        BY <1>c, <2>2, RangeAppend
    <3> QED BY <1>c, <2>2, <3>1, BehindAppend
  <2>3. SameRecord
      BY <1>0, <2>1, <2>2, BrowseAssumption DEF SameRecord
  <2> QED BY <2>3, RecordKept
<1>a. ASSUME NEW type \in Paths, AskFor(type)
      PROVE  \/ calls' = calls
             \/ \E c \in Call : calls' = Append(calls, c) /\ c # RegisterCall
  <2>1. SetContentTypeCall(type) # RegisterCall
      BY CallKinds DEF SetContentTypeCall
  <2> QED BY <1>a, <2>1, AskForSends
<1>1. CASE Connect
    BY <1>0, <1>1 DEF Connect
<1>2. CASE Disconnect
  <2>1. Unused' /\ ~connected' /\ itemList' = <<>>
      BY <1>2, SessionUser DEF Disconnect, SessionInv, User
  <2>2. /\ \A c \in Range(calls') : c.id # identifier'
        /\ \A j \in Range(jobs') : j.id # identifier'
        /\ \A s \in Range(signals') : s.kind # "reply" => s.id # identifier'
      BY <2>1 DEF Unused
  <2>3. /\ \A k \in DOMAIN calls' : calls'[k] \in Range(calls')
        /\ \A k \in DOMAIN signals' : signals'[k] \in Range(signals')
      BY DEF Range
  <2>4. NoneBehind(calls, FetchCalls, {RegisterCall})'
      BY <2>2, <2>3 DEF FetchCalls, NoneBehind
  <2>5. NoneIn(signals, PageSignals)'
      BY <2>2, <2>3 DEF PageSignals, NoneIn
  <2>6. Emptied'
      BY <2>1, <2>2, <2>4, <2>5 DEF Emptied
  <2> QED BY <2>6, RecordRestarts, PTL
<1>3. CASE GoBack
  <2>1. [kind |-> "goBack", id |-> identifier] \in Call
      BY CallsTyped DEF TypeOK
  <2>2. [kind |-> "goBack", id |-> identifier] # RegisterCall
      BY DEF RegisterCall
  <2> QED BY <1>0, <1>3, <2>1, <2>2 DEF GoBack
<1>4. ASSUME NEW type \in Offered, SetContentType(type) PROVE RecordInv'
  <2>1. type \in Paths
      BY BrowseAssumption DEF Paths
  <2> QED BY <1>0, <1>4, <1>a, <2>1 DEF SetContentType, UpdateContentType
<1>5. ASSUME NEW new \in Terms \cup Unparsable, SetQuery(new) PROVE RecordInv'
  <2>1. requested \in Paths
      BY DEF TypeOK
  <2> QED BY <1>0, <1>5, <1>a, <2>1 DEF SetQuery
<1>6. ASSUME NEW i \in DOMAIN itemList, NEW inModel \in BOOLEAN,
             GoForward(i - 1, inModel)
      PROVE  RecordInv'
  <2>1. PICK c : c.kind = "goForward" /\ calls' = Append(calls, c)
      BY <1>6 DEF GoForward
  <2>2. calls' \in Seq(Call)
      BY <1>6, TypeUser DEF User, TypeOK
  <2>3. c \in Call /\ c # RegisterCall
      BY <1>c, <2>1, <2>2, CallKinds
  <2> QED BY <1>0, <1>6, <2>1, <2>3 DEF GoForward
<1>7. CASE OnInitializationDone
  <2>1. contentType = NoType
      BY <1>7 DEF OnInitializationDone, SessionInv, Unheard
  <2> QED BY <1>0, <1>7, <2>1 DEF OnInitializationDone
<1>8. CASE FetchMore
  <2>1. FetchCall(Len(itemList)) \in Call /\ FetchCall(Len(itemList)) # RegisterCall
      BY CallsTyped, CallKinds, LenProperties DEF TypeOK, FetchCall
  <2> QED BY <1>0, <1>8, <2>1 DEF FetchMore
<1> QED BY <1>1, <1>2, <1>3, <1>4, <1>5, <1>6, <1>7, <1>8 DEF User

LEMMA RecordModel == TypeOK /\ SessionInv /\ RowsInv /\ RecordInv /\ Model => RecordInv'
<1> SUFFICES ASSUME TypeOK, SessionInv, RowsInv, RecordInv, Model PROVE RecordInv'
    OBVIOUS
<1> USE DEF modelVars, sessionVars, backendVars
<1> DEFINE s == Head(signals)
<1>h. ASSUME NEW kind, Hear(kind)
      PROVE  /\ s \in Signal /\ s.kind = kind /\ signals' = Tail(signals)
             /\ signals # <<>> /\ signals \in Seq(Signal) /\ calls \in Seq(Call)
             /\ UNCHANGED <<identifier, jobs, state>>
             /\ kind # "reply" => Concerned \/ s.id # identifier
  <2>1. kind # "reply" => Concerned \/ s.id # identifier
      BY <1>h, Heard, HeadSignal DEF SessionInv, Unused, Concerned
  <2>2. signals \in Seq(Signal) /\ calls \in Seq(Call)
      BY DEF TypeOK
  <2> QED BY <1>h, <2>1, <2>2, HeadSignal DEF Hear
<1> HIDE DEF s
\* a signal that brings no rows, and at most a call for a content type
<1>0. ASSUME NEW kind, Hear(kind), s \notin PageSignals,
             UNCHANGED <<contentType, itemList>>, "rows" \in stale => "rows" \in stale',
             \/ calls' = calls
             \/ \E c \in Call : calls' = Append(calls, c) /\ c # RegisterCall
      PROVE  RecordInv'
  <2>1. SamePages(signals, signals')
      BY <1>0, <1>h, PagesTail DEF s
  <2>2. ASSUME NEW c \in Call, calls' = Append(calls, c), c # RegisterCall
        PROVE  /\ RegisterCall \in Range(calls') => RegisterCall \in Range(calls)
               /\ NoneBehind(calls, FetchCalls, {RegisterCall}) =>
                      NoneBehind(calls', FetchCalls, {RegisterCall})
    <3>0. calls \in Seq(Call)
        BY DEF TypeOK
    <3>1. Range(calls') = Range(calls) \cup {c}
        BY <2>2, <3>0, RangeAppend
    <3> QED BY <2>2, <3>0, <3>1, BehindAppend
  <2>3. UNCHANGED <<identifier, jobs, state>>
      BY <1>0, <1>h
  <2>4. SameRecord
      BY <1>0, <2>1, <2>2, <2>3 DEF SameRecord
  <2> QED BY <2>4, RecordKept
<1>1. CASE OnIgnored
  <2>1. Hear(s.kind) /\ s.kind # "reply" /\ ~Concerned
      BY <1>1 DEF OnIgnored, s
  <2>2. s \notin PageSignals
      BY <1>h, <2>1 DEF PageSignals
  <2> QED BY <1>0, <1>1, <2>1, <2>2 DEF OnIgnored
<1>2. CASE OnCapabilitiesChanged
  <2>1. Hear("supportedCapabilitiesChanged")
      BY <1>2 DEF OnCapabilitiesChanged
  <2>2. s \notin PageSignals
      BY <1>h, <2>1 DEF PageSignals
  <2> QED BY <1>0, <1>2, <2>1, <2>2 DEF OnCapabilitiesChanged
<1>3. CASE OnCanGoBackChanged
  <2>1. Hear("canGoBackChanged")
      BY <1>3 DEF OnCanGoBackChanged
  <2>2. s \notin PageSignals
      BY <1>h, <2>1 DEF PageSignals
  <2> QED BY <1>0, <1>3, <2>1, <2>2 DEF OnCanGoBackChanged
<1>6. CASE OnCanGoForwardChanged
  <2>1. Hear("canGoForwardChanged")
      BY <1>6 DEF OnCanGoForwardChanged
  <2>2. s \notin PageSignals
      BY <1>h, <2>1 DEF PageSignals
  <2> QED BY <1>0, <1>6, <2>1, <2>2 DEF OnCanGoForwardChanged
<1>7. CASE OnReply
  <2>1. Hear("reply")
      BY <1>7 DEF OnReply
  <2>2. s \notin PageSignals /\ s.type \in Paths
      BY <1>h, <2>1, SignalFields DEF PageSignals
  <2>3. CASE s.type # NoType /\ s.inModel
    <3>1. UpdateContentType(s.type)
        BY <1>7, <2>3 DEF OnReply, s
    <3>2. /\ SetContentTypeCall(s.type) \in Call
          /\ calls' = calls \/ calls' = Append(calls, SetContentTypeCall(s.type))
        BY <2>2, <3>1, AskForSends DEF UpdateContentType
    <3>3. SetContentTypeCall(s.type) # RegisterCall
        BY CallKinds DEF SetContentTypeCall
    <3> QED BY <1>0, <2>1, <2>2, <3>1, <3>2, <3>3 DEF UpdateContentType
  <2>4. CASE ~(s.type # NoType /\ s.inModel)
    <3>1. UNCHANGED <<modelVars, calls, stale>>
        BY <1>7, <2>4 DEF OnReply, s
    <3> QED BY <1>0, <2>1, <2>2, <3>1
  <2> QED BY <2>3, <2>4
<1>4. CASE OnContentTypeChanged
  <2> DEFINE f == SetupFilterCall(query)
             c == FetchCall(0)
  <2>1. /\ Hear("contentTypeChanged") /\ itemList' = <<>>
        /\ stale' = stale \cup (IF PageUnderWay THEN {"flags", "rows"} ELSE {})
      BY <1>4 DEF OnContentTypeChanged
  <2> SUFFICES ASSUME "rows" \notin stale' PROVE RecordInv'
      BY DEF RecordInv
  <2>2. ~PageUnderWay
      BY <2>1
  <2>3. /\ NoneIn(calls, FetchCalls) /\ NoneIn(signals, PageSignals)
        /\ \A j \in Range(jobs) : j.id # identifier
      BY <2>2, NoPage
  <2>4. /\ signals' = Tail(signals) /\ signals # <<>> /\ signals \in Seq(Signal)
        /\ calls \in Seq(Call) /\ UNCHANGED <<identifier, jobs>>
      BY <1>h, <2>1
  <2>5. NoneIn(signals', PageSignals)
      BY <2>3, <2>4, FewTail
  <2>6. c \in Call /\ c.kind = "fetchData" /\ f \notin FetchCalls
      BY <1>4, Confirms, CallKinds DEF FetchCall, SetupFilterCall
  <2>7. PICK t \in Seq(Call) : calls' = Append(t, c) /\ NoneIn(t, FetchCalls)
    <3>1. CASE Parsed = {}
        BY <1>4, <2>3, <2>4, <3>1, Confirms
    <3>2. CASE Parsed # {}
      <4>1. f \in Call /\ Append(calls, f) \in Seq(Call)
            /\ calls' = Append(Append(calls, f), c)
          BY <1>4, <3>2, Confirms
      <4> HIDE DEF c, f
      <4>2. NoneIn(Append(calls, f), FetchCalls)
          BY <2>3, <2>4, <2>6, <4>1, FewAppend
      <4> QED BY <4>1, <4>2
    <3> QED BY <3>1, <3>2
  <2>8. c # RegisterCall
      BY <2>6, CallKinds
  <2> HIDE DEF c
  <2>9. NoneBehind(calls', FetchCalls, {RegisterCall})
    <3>1. NoneBehind(t, FetchCalls, {RegisterCall})
        BY <2>7 DEF NoneBehind, NoneIn
    <3>2. NoneBehind(Append(t, c), FetchCalls, {RegisterCall})
        BY <2>6, <2>7, <2>8, <3>1, BehindAppend
    <3> QED BY <2>7, <3>2
  <2>11. /\ FetchCalls' = FetchCalls /\ PageSignals' = PageSignals
         /\ RegisterCall' = RegisterCall
      BY <2>4, SameSets
  <2>12. Emptied'
      BY <2>1, <2>3, <2>4, <2>5, <2>9, <2>11 DEF Emptied
  <2> QED BY <2>12, RecordRestarts, PTL
<1>5. CASE OnDataFetched
  <2> DEFINE n == Len(itemList)
             k == Len(s.items)
  <2>1. /\ Hear("dataFetched") /\ Concerned /\ itemList' = itemList \o s.items
        /\ UNCHANGED <<contentType, calls, stale>>
      BY <1>5 DEF OnDataFetched, s
  <2>2. /\ signals' = Tail(signals) /\ signals # <<>> /\ signals \in Seq(Signal)
        /\ s \in Signal /\ s.kind = "dataFetched" /\ s = Head(signals)
        /\ UNCHANGED <<identifier, jobs, state>>
      BY <1>h, <2>1 DEF s
  <2>3. s \in PageSignals
      BY <2>1, <2>2 DEF PageSignals, Concerned, s
  <2> SUFFICES ASSUME "rows" \notin stale
               PROVE  RegisteredFirst' /\ BegunFit' /\ Mirrored'
      BY <2>1 DEF RecordInv
  <2>4. OnePage /\ RegisteredFirst /\ BegunFit /\ Mirrored
      BY DEF RowsInv, RecordInv
  <2>5. /\ FetchCalls' = FetchCalls /\ RegisterCall' = RegisterCall
        /\ PageSignals' = PageSignals /\ BegunJobs' = BegunJobs
      BY <2>2, SameSets, SameBegun
  <2>6. ~NoneIn(signals, PageSignals) /\ s \in Range(signals)
      BY <2>2, <2>3, FewTail, RangeTail
  <2>7. RegisteredFirst'
      BY <2>1, <2>4, <2>5, <2>6 DEF RegisteredFirst
  <2>8. NoneIn(Tail(signals), PageSignals)
      BY <2>2, <2>3, <2>4, FewTail DEF OnePage
  <2>9. \A t \in Range(signals) : t \in PageSignals => t = s
    <3>1. ASSUME NEW t \in Range(signals), t \in PageSignals PROVE t = s
      <4>1. PICK i \in DOMAIN signals : t = signals[i]
          BY DEF Range
      <4>2. 1 \in DOMAIN signals /\ s = signals[1]
          BY <2>2, TailAt
      <4> QED BY <2>3, <2>4, <3>1, <4>1, <4>2 DEF OnePage, AtMostOne
    <3> QED BY <3>1
  <2>10. /\ n \in Nat /\ k \in Nat /\ Len(itemList') = n + k
         /\ \A i \in DOMAIN itemList : itemList'[i] = itemList[i]
         /\ \A x \in 1..k : itemList'[n + x] = s.items[x]
         /\ DOMAIN itemList = 1..n /\ DOMAIN itemList' = 1..(n + k)
         /\ DOMAIN s.items = 1..k
    <3>1. itemList \in Seq(Rows) /\ s.items \in Seq(Rows)
        BY <2>2, SignalFields DEF TypeOK
    <3> QED BY <2>1, <3>1, ConcatProperties, LenProperties
  <2>11. BegunFit'
    <3>1. ASSUME NEW j \in Range(jobs), j \in BegunJobs PROVE LastShown(j)'
      <4>1. NextShown(j)
          BY <2>4, <2>6, <3>1 DEF BegunFit, LastShown
      <4>2. j.start = n /\ s.items = Page(j)
          BY <2>9, <4>1 DEF NextShown
      <4> HIDE DEF n
      <4> QED BY <2>2, <2>5, <2>8, <2>10, <4>2 DEF LastShown, Page, Listing
    <3> QED BY <2>2, <2>5, <3>1 DEF BegunFit
  <2>12. Mirrored'
    <3>1. ASSUME contentType \in Types, NEW r \in DOMAIN itemList'
          PROVE  Recorded(r, itemList'[r]) \/ Pending(r)
      <4>1. CASE r \in DOMAIN itemList
          BY <2>4, <2>10, <3>1, <4>1 DEF Mirrored
      <4>2. CASE r \notin DOMAIN itemList
        <5>1. PICK x \in 1..k : r = n + x
          <6> HIDE DEF n, k
          <6>1. r \in 1..(n + k) /\ r \notin 1..n
              BY <2>10, <3>1, <4>2
          <6>2. r - n \in 1..k /\ r = n + (r - n)
              BY <2>10, <6>1
          <6> QED BY <6>2
        <5>2. itemList'[r] = s.items[x] /\ x \in DOMAIN s.items
            BY <2>10, <5>1
        <5> QED BY <2>3, <2>4, <2>6, <3>1, <5>1, <5>2 DEF Mirrored
      <4> QED BY <4>1, <4>2
    <3>2. \A r, row : Recorded(r, row)' <=> Recorded(r, row)
        BY <2>2 DEF Recorded
    <3>3. \A r : Pending(r)' <=> Pending(r)
        BY <2>2, <2>5 DEF Pending
    <3>4. \A t \in Range(signals') : t \notin PageSignals
        BY <2>2, <2>8 DEF NoneIn, Range
    <3> QED BY <2>1, <2>2, <2>5, <3>1, <3>4 DEF Mirrored, Recorded, Pending
  <2> QED BY <2>7, <2>11, <2>12
<1> QED BY <1>1, <1>2, <1>3, <1>4, <1>5, <1>6, <1>7 DEF Model

LEMMA RecordBackend == TypeOK /\ SessionInv /\ RecordInv /\ Backend => RecordInv'
<1> SUFFICES ASSUME TypeOK, SessionInv, RecordInv, Backend PROVE RecordInv'
    OBVIOUS
<1> USE DEF modelVars, sessionVars
<1> DEFINE c == Head(calls)
<1>1. /\ calls \in Seq(Call) /\ calls # <<>> /\ calls' = Tail(calls)
      /\ c \in Call /\ Caller = c.id /\ c \in Range(calls)
      /\ Range(calls') \subseteq Range(calls)
      /\ UNCHANGED <<identifier, contentType, itemList, stale>>
    BY BackendServes
<1>2. /\ signals \in Seq(Signal) /\ jobs \in Seq(Job) /\ identifier \in Session
      /\ state \in [Session -> State]
    BY DEF TypeOK
<1> SUFFICES ASSUME "rows" \notin stale PROVE RecordInv'
    BY <1>1 DEF RecordInv
<1>3. RegisteredFirst /\ BegunFit /\ Mirrored
    BY DEF RecordInv
<1>4. SamePages(signals, signals')
  <2>1. CASE signals' = signals
      BY <2>1 DEF SamePages
  <2>2. ASSUME NEW x \in Signal, signals' = Append(signals, x),
               x.kind \in {"supportedCapabilitiesChanged", "reply"}
        PROVE  SamePages(signals, signals')
    <3>1. x \notin PageSignals
        BY <2>2 DEF PageSignals
    <3> QED BY <1>2, <2>2, <3>1, PagesAppend
  <2>3. ASSUME NEW b \in Signal, NEW m \in Signal,
               signals' = Append(Append(signals, b), m),
               Append(signals, b) \in Seq(Signal),
               b.kind = "canGoBackChanged", m.kind = "contentTypeChanged"
        PROVE  SamePages(signals, signals')
    <3>1. b \notin PageSignals /\ m \notin PageSignals
        BY <2>3 DEF PageSignals
    <3>2. SamePages(signals, Append(signals, b))
        BY <1>2, <2>3, <3>1, PagesAppend
    <3> DEFINE more == Append(signals, b)
    <3>3. SamePages(more, Append(more, m))
        BY <2>3, <3>1, PagesAppend
    <3> QED BY <2>3, <3>2, <3>3 DEF SamePages
  <2> QED BY <2>1, <2>2, <2>3, BackendTells
<1>5. \A j \in BegunJobs : j \in Range(jobs) <=> j \in Range(jobs')
  <2>1. ASSUME NEW j \in Job, jobs' = Append(jobs, j), ~j.fetched
        PROVE  \A i \in BegunJobs : i \in Range(jobs) <=> i \in Range(jobs')
    <3>1. Range(jobs') = Range(jobs) \cup {j}
        BY <1>2, <2>1, RangeAppend
    <3> QED BY <2>1, <3>1 DEF BegunJobs
  <2> QED BY <2>1, BackendServes
<1>6. NoneBehind(calls, FetchCalls, {RegisterCall}) =>
          NoneBehind(calls', FetchCalls, {RegisterCall})
    BY <1>1, BehindTail
<1>7. ASSUME contentType \in Types, RegisterCall \in Range(calls')
      PROVE  \A j \in Range(jobs') : j.id # identifier
  <2>1. /\ NoneBehind(calls, FetchCalls, {RegisterCall})
        /\ \A j \in Range(jobs) : j.id # identifier
      BY <1>1, <1>3, <1>7 DEF RegisteredFirst
  <2>2. ASSUME NEW j \in Job, jobs' = Append(jobs, j), j.id = Caller, c.kind = "fetchData"
        PROVE  \A i \in Range(jobs') : i.id # identifier
    <3>1. Range(jobs') = Range(jobs) \cup {j}
        BY <1>2, <2>2, RangeAppend
    <3>2. c \in FetchCalls => NoneIn(Tail(calls), {RegisterCall})
        BY <1>1, <2>1, BehindTail
    <3>3. Caller # identifier
        BY <1>1, <1>7, <2>2, <3>2 DEF FetchCalls, NoneIn, Range
    <3> QED BY <2>1, <2>2, <3>1, <3>3
  <2> QED BY <2>1, <2>2, BackendServes
<1>8. CASE state'[identifier].items = state[identifier].items
  <2>1. SameRecord
      BY <1>1, <1>4, <1>5, <1>6, <1>7, <1>8 DEF SameRecord
  <2> QED BY <2>1, RecordKept
<1>9. CASE RegisterInstance /\ Caller = identifier
  <2>1. /\ c.kind = "registerInstance" /\ UNCHANGED <<signals, jobs>>
      BY <1>9 DEF RegisterInstance, Take
  <2>2. c = RegisterCall
      BY <1>1, <1>9, <2>1, IsRegisterCall
  <2>3. /\ FetchCalls' = FetchCalls /\ RegisterCall' = RegisterCall
        /\ PageSignals' = PageSignals /\ BegunJobs' = BegunJobs
      BY <1>1, SameSets, SameBegun
  <2>4. CASE contentType \in Types
    <3>1. Emptied'
        BY <1>1, <1>3, <1>6, <2>1, <2>2, <2>3, <2>4 DEF RegisteredFirst, Emptied
    <3> QED BY <3>1, RecordRestarts, PTL
  <2>5. CASE contentType \notin Types
    <3>1. RegisteredFirst' /\ Mirrored'
        BY <1>1, <2>5 DEF RegisteredFirst, Mirrored
    <3>2. BegunFit'
        BY <1>1, <1>3, <2>1, <2>3 DEF BegunFit, LastShown, NextShown
    <3> QED BY <3>1, <3>2 DEF RecordInv
  <2> QED BY <2>4, <2>5
<1>10. state'[identifier].items = state[identifier].items
           \/ (RegisterInstance /\ Caller = identifier)
  <2>1. CASE RegisterInstance
      BY <1>2, <2>1 DEF RegisterInstance
  <2>2. CASE UnregisterInstance
    <3>1. c.kind = "unregisterInstance"
        BY <2>2 DEF UnregisterInstance, Take
    <3>2. Caller # identifier
        BY <1>1, <3>1 DEF SessionInv, IdsKnown
    <3> QED BY <1>2, <2>2, <3>2 DEF UnregisterInstance
  <2>3. CASE ServeSetContentType
      BY <1>2, <2>3 DEF ServeSetContentType, State
  <2>4. CASE ServeSetupFilter
      BY <1>2, <2>4 DEF ServeSetupFilter, State
  <2>5. CASE ServeFetchData \/ ServeGoBack \/ ServeGoForward
      BY <2>5 DEF ServeFetchData, ServeGoBack, ServeGoForward
  <2> QED BY <2>1, <2>2, <2>3, <2>4, <2>5 DEF Backend
<1> QED BY <1>8, <1>9, <1>10

\* The job the worker has in its hands is the first one.
LEMMA BegunFirst ==
    ASSUME TypeOK, WorkInv, jobs # <<>>
    PROVE  /\ jobs \in Seq(Job) /\ Head(jobs) \in Job /\ Head(jobs) \in Range(jobs)
           /\ \A j \in Range(jobs) : j.fetched => j = Head(jobs)
           /\ \A j \in Range(Tail(jobs)) : j \in Range(jobs) /\ ~j.fetched
<1>1. jobs \in Seq(Job)
    BY DEF TypeOK
<1>2. /\ \A i \in DOMAIN jobs : jobs[i].fetched => i = 1
      /\ Head(jobs) = jobs[1] /\ 1 \in DOMAIN jobs
      /\ \A i \in DOMAIN Tail(jobs) :
            i \in Nat /\ i > 0 /\ i + 1 \in DOMAIN jobs /\ Tail(jobs)[i] = jobs[i + 1]
    BY <1>1, TailAt DEF WorkInv, OneBegun
<1>3. \A j \in Range(jobs) : j.fetched => j = Head(jobs)
    BY <1>2 DEF Range
<1>4. ASSUME NEW j \in Range(Tail(jobs)) PROVE j \in Range(jobs) /\ ~j.fetched
  <2>1. PICK i \in DOMAIN Tail(jobs) : j = Tail(jobs)[i]
      BY DEF Range
  <2>2. i \in Nat /\ i > 0 /\ i + 1 \in DOMAIN jobs /\ j = jobs[i + 1]
      BY <1>2, <2>1
  <2>3. i + 1 # 1
      BY <2>2
  <2> QED BY <1>2, <2>2, <2>3 DEF Range
<1> QED BY <1>1, <1>2, <1>3, <1>4, RangeTail

LEMMA RecordSearch == TypeOK /\ WorkInv /\ RowsInv /\ RecordInv /\ Search => RecordInv'
<1> SUFFICES ASSUME TypeOK, WorkInv, RowsInv, RecordInv, Search PROVE RecordInv'
    OBVIOUS
<1> USE DEF modelVars, sessionVars
<1> DEFINE job == Head(jobs)
           b == Begun(job)
           p == [kind |-> "dataFetched", id |-> job.id, items |-> Page(job),
                 start |-> job.start, more |-> HasMore(Page(job))]
<1>1. /\ jobs # <<>> /\ ~job.fetched /\ signals' = Append(signals, p)
      /\ UNCHANGED <<identifier, contentType, itemList, calls, state, stale>>
    BY DEF Search
<1>2. /\ job \in Job /\ job \in Range(jobs)
      /\ \A j \in Range(jobs) : j.fetched => j = job
    BY <1>1, BegunFirst
<1>3. \A j \in Range(jobs) : ~j.fetched
    BY <1>1, <1>2
<1>4. /\ b \in Range(jobs') /\ b \in Job
      /\ \A j \in Range(jobs') : j = b \/ j \in Range(jobs)
    BY SearchLeaves DEF Range
<1>5. /\ job.id \in Session /\ job.start \in Nat /\ Page(job) \in Seq(Rows)
      /\ Len(Page(job)) \in Nat
      /\ b.id = job.id /\ b.start = job.start /\ b.fetched /\ Page(b) = Page(job)
    BY <1>2, JobFields, BegunPage
<1>6. /\ p \in Signal /\ p.id = job.id /\ p.items = Page(job)
      /\ (p \in PageSignals <=> job.id = identifier)
    BY <1>5 DEF Signal, HasMore, PageSignals
<1>7. /\ signals \in Seq(Signal) /\ Len(itemList) \in Nat
      /\ PageSignals' = PageSignals /\ BegunJobs' = BegunJobs /\ RegisterCall' = RegisterCall
      /\ FetchCalls' = FetchCalls
    BY <1>1, SameSets, SameBegun, LenProperties DEF TypeOK
<1> HIDE DEF job, b, p
<1>8. CASE job.id # identifier
  <2>1. SamePages(signals, signals')
      BY <1>1, <1>6, <1>7, <1>8, PagesAppend
  <2>2. \A j \in BegunJobs : j \in Range(jobs) <=> j \in Range(jobs')
      BY <1>3, <1>4, <1>5, <1>8 DEF BegunJobs
  <2>3. SameRecord
      BY <1>1, <1>4, <1>5, <1>8, <2>1, <2>2 DEF SameRecord
  <2> QED BY <2>3, RecordKept
<1>9. CASE job.id = identifier
  <2> SUFFICES ASSUME "rows" \notin stale
               PROVE  RegisteredFirst' /\ BegunFit' /\ Mirrored'
      BY <1>1 DEF RecordInv
  <2>1. OnePage /\ PagesFit /\ RegisteredFirst /\ Mirrored
      BY DEF RowsInv, RecordInv
  <2>2. RegisteredFirst'
      BY <1>1, <1>2, <1>7, <1>9, <2>1 DEF RegisteredFirst
  <2>3. job \in OpenJobs
      BY <1>1, <1>2, <1>9 DEF OpenJobs
  <2>4. job.start = Len(itemList) /\ NoneIn(signals, PageSignals)
      BY <1>2, <2>1, <2>3 DEF PagesFit, OnePage, NoneIn, Range
  <2>5. Range(signals') = Range(signals) \cup {p}
      BY <1>1, <1>6, <1>7, RangeAppend
  <2>6. \A x \in Range(signals') : x \in PageSignals => x = p
      BY <2>4, <2>5 DEF NoneIn, Range
  <2>7. BegunFit'
    <3>1. ASSUME NEW j \in Range(jobs'), j \in BegunJobs PROVE NextShown(j)'
      <4>1. j = b
          BY <1>3, <1>4, <3>1 DEF BegunJobs
      <4>2. j.start = Len(itemList') /\ p.items = Page(j)
          BY <1>1, <1>5, <1>6, <2>4, <4>1
      <4>3. p \in Range(signals') /\ p \in PageSignals'
          BY <1>6, <1>7, <1>9, <2>5
      <4> QED BY <1>1, <4>2, <4>3 DEF NextShown, Page, Listing
    <3> QED BY <1>7, <3>1 DEF BegunFit
  <2>8. Mirrored'
    <3>1. \A r : ~Pending(r)
        BY <1>3 DEF Pending, BegunJobs
    <3>2. contentType \in Types => \A r \in DOMAIN itemList : Recorded(r, itemList[r])
        BY <2>1, <3>1 DEF Mirrored
    <3>3. ASSUME NEW x \in DOMAIN p.items PROVE Pending(Len(itemList) + x)'
      <4>1. x \in Nat /\ x > 0
          BY <1>5, <1>6, LenProperties
      <4>2. b \in BegunJobs' /\ b.start < Len(itemList) + x
          BY <1>4, <1>5, <1>7, <1>9, <2>4, <4>1 DEF BegunJobs
      <4> QED BY <1>1, <1>4, <4>2 DEF Pending
    <3> QED BY <1>1, <1>7, <2>6, <3>2, <3>3 DEF Mirrored, Recorded
  <2> QED BY <2>2, <2>7, <2>8
<1> QED BY <1>8, <1>9

LEMMA RecordRecord == TypeOK /\ WorkInv /\ RowsInv /\ RecordInv /\ Record => RecordInv'
<1> SUFFICES ASSUME TypeOK, WorkInv, RowsInv, RecordInv, Record PROVE RecordInv'
    OBVIOUS
<1> USE DEF modelVars, sessionVars
<1> DEFINE job == Head(jobs)
           page == Page(job)
           items == state[identifier].items
           f == [kind |-> "canGoForwardChanged", id |-> job.id,
                 start |-> FirstFlag(job), count |-> Len(Page(job))]
<1>1. /\ jobs # <<>> /\ job.fetched /\ jobs' = Tail(jobs)
      /\ signals' = Append(signals, f) \/ signals' = signals
      /\ state' = [state EXCEPT ![job.id].items = Kept(@, page, job.start)]
      /\ UNCHANGED <<identifier, contentType, itemList, calls, stale>>
    BY DEF Record
<1>2. /\ job \in Job /\ job \in Range(jobs) /\ jobs \in Seq(Job)
      /\ \A j \in Range(jobs) : j.fetched => j = job
      /\ \A j \in Range(jobs') : j \in Range(jobs) /\ ~j.fetched
    BY <1>1, BegunFirst
<1>3. /\ job.id \in Session /\ job.start \in Nat /\ page \in Seq(Rows) /\ Len(page) \in Nat
    BY <1>2, JobFields
<1>4. f \in Signal /\ f \notin PageSignals
    BY <1>3 DEF Signal, FirstFlag, PageSignals
<1>5. /\ signals \in Seq(Signal) /\ Len(itemList) \in Nat /\ itemList \in Seq(Rows)
      /\ identifier \in Session /\ state \in [Session -> State] /\ items \in Seq(Rows)
      /\ PageSignals' = PageSignals /\ BegunJobs' = BegunJobs /\ RegisterCall' = RegisterCall
      /\ FetchCalls' = FetchCalls
    BY <1>1, SameSets, SameBegun, LenProperties DEF TypeOK, State
<1>6. SamePages(signals, signals')
  <2>1. SamePages(signals, signals)
      BY DEF SamePages
  <2> HIDE DEF f
  <2> QED BY <1>1, <1>4, <1>5, <2>1, PagesAppend
<1> HIDE DEF job, f
<1>7. CASE job.id # identifier
  <2>1. state'[identifier].items = items
      BY <1>1, <1>3, <1>5, <1>7
  <2>2. \A j \in BegunJobs : j \in Range(jobs) <=> j \in Range(jobs')
      BY <1>2, <1>7 DEF BegunJobs
  <2>3. SameRecord
      BY <1>1, <1>2, <1>6, <2>1, <2>2 DEF SameRecord
  <2> QED BY <2>3, RecordKept
<1>8. CASE job.id = identifier
  <2> SUFFICES ASSUME "rows" \notin stale
               PROVE  RegisteredFirst' /\ BegunFit' /\ Mirrored'
      BY <1>1 DEF RecordInv
  <2> DEFINE kept == Kept(items, page, job.start)
             n == Len(itemList)
             m == Len(page)
             start == job.start
  <2>1. OnePage /\ RegisteredFirst /\ BegunFit /\ Mirrored
      BY DEF RowsInv, RecordInv
  <2>2. RegisteredFirst'
      BY <1>1, <1>2, <1>5, <1>8, <2>1 DEF RegisteredFirst
  <2>3. BegunFit'
      BY <1>2, <1>5 DEF BegunFit, BegunJobs
  <2>4. state'[identifier].items = kept
      BY <1>1, <1>5, <1>8 DEF State
  <2>5. job \in BegunJobs
      BY <1>1, <1>2, <1>8 DEF BegunJobs
  <2>6. LastShown(job) \/ NextShown(job)
      BY <1>2, <2>1, <2>5 DEF BegunFit
  <2>7. \A r : Pending(r) => start < r
      BY <1>2 DEF Pending, BegunJobs
  <2>8. n \in Nat /\ m \in Nat /\ start \in Nat /\ DOMAIN itemList = 1..n
      BY <1>3, <1>5, LenProperties
  <2>9. start <= n
      BY <2>6, <2>8 DEF LastShown, NextShown
  <2> SUFFICES ASSUME contentType \in Types PROVE Mirrored'
      BY <1>1, <2>2, <2>3 DEF Mirrored
  <2>10. \A r \in 1..start : r <= Len(items) /\ items[r] = itemList[r]
    <3>1. ASSUME NEW r \in 1..start PROVE Recorded(r, itemList[r])
      <4> HIDE DEF n, start
      <4>1. r \in DOMAIN itemList /\ ~(start < r)
          BY <2>8, <2>9
      <4> QED BY <2>1, <2>7, <4>1 DEF Mirrored
    <3> QED BY <3>1 DEF Recorded
  <2>11. start <= Len(items)
    <3>1. CASE start = 0
        BY <1>5, <3>1, LenProperties
    <3>2. CASE start # 0
      <4> HIDE DEF n, start
      <4>1. start \in 1..start
          BY <2>8, <3>2
      <4> QED BY <2>10, <4>1
    <3> QED BY <3>1, <3>2
  <2>12. /\ Len(kept) \in Nat /\ Len(kept) >= start + m
         /\ \A i \in 1..m : kept[start + i] = page[i]
         /\ \A i \in 1..start : kept[i] = items[i]
      BY <1>3, <1>5, <2>11, KeptIs
  <2>13. ASSUME NEW r \in DOMAIN itemList PROVE Recorded(r, itemList[r])'
    <3>1. CASE r \in 1..start
      <4>1. kept[r] = itemList[r]
          BY <2>10, <2>12, <3>1
      <4>2. r <= Len(kept)
        <5> HIDE DEF kept, m, start
        <5> QED BY <2>8, <2>12, <3>1
      <4> QED BY <1>1, <2>4, <4>1, <4>2 DEF Recorded
    <3>2. CASE r \notin 1..start
      <4>1. r \in Nat /\ r > start /\ r <= n
        <5> HIDE DEF n, start
        <5> QED BY <2>8, <2>13, <3>2
      <4>2. n = start + m /\ \A x \in 1..m : itemList[start + x] = page[x]
        <5>1. ~NextShown(job)
          <6> HIDE DEF n, start
          <6>1. n # start
              BY <2>8, <4>1
          <6> QED BY <6>1 DEF NextShown, n, start
        <5> QED BY <2>6, <5>1 DEF LastShown
      <4>3. PICK x \in 1..m : r = start + x
        <5> HIDE DEF n, m, start
        <5>1. r - start \in 1..m /\ r = start + (r - start)
            BY <2>8, <4>1, <4>2
        <5> QED BY <5>1
      <4>4. kept[r] = itemList[r]
          BY <2>12, <4>2, <4>3
      <4>5. r <= Len(kept)
        <5> HIDE DEF kept, n, m, start
        <5> QED BY <2>8, <2>12, <4>1, <4>2
      <4> QED BY <1>1, <2>4, <4>4, <4>5 DEF Recorded
    <3> QED BY <3>1, <3>2
  <2>14. ASSUME NEW s \in Range(signals'), s \in PageSignals, NEW x \in DOMAIN s.items
         PROVE  Recorded(n + x, s.items[x])'
    <3>1. s \in Range(signals)
        BY <1>6, <2>14 DEF SamePages
    <3>2. ~LastShown(job)
        BY <2>14, <3>1 DEF LastShown, NoneIn, Range
    <3>3. start = n /\ \E t \in Range(signals) : t \in PageSignals /\ t.items = page
        BY <2>6, <3>2 DEF NextShown
    <3>4. s.items = page
        BY <2>1, <2>14, <3>1, <3>3 DEF OnePage, AtMostOne, Range
    <3>5. x \in 1..m
        BY <1>3, <2>14, <3>4, LenProperties
    <3>6. kept[n + x] = s.items[x]
        BY <2>12, <3>3, <3>4, <3>5
    <3>7. n + x <= Len(kept)
      <4> HIDE DEF kept, n, m, start
      <4> QED BY <2>8, <2>12, <3>3, <3>5
    <3> QED BY <2>4, <1>1, <3>6, <3>7 DEF Recorded
  <2> QED BY <1>1, <1>5, <2>13, <2>14 DEF Mirrored, Recorded
<1> QED BY <1>7, <1>8

LEMMA RecordNext ==
    TypeOK /\ SessionInv /\ WorkInv /\ RowsInv /\ RecordInv /\ [Next]_vars => RecordInv'
<1>1. ASSUME RecordInv, UNCHANGED vars PROVE RecordInv'
  <2>1. SameRecord
      BY <1>1 DEF vars, modelVars, sessionVars, backendVars, SameRecord, SamePages
  <2> QED BY <1>1, <2>1, RecordKept
<1> QED BY <1>1, RecordUser, RecordModel, RecordBackend, RecordSearch, RecordRecord DEF Next

\* An entry with none of T ahead of it, as entries come and go.
LEMMA FreeAppend ==
    ASSUME NEW Q, NEW s \in Seq(Q), NEW e \in Q, NEW S, NEW T, Free(Append(s, e), S, T)
    PROVE  Free(s, S, T) \/ (e \in S /\ NoneIn(s, T))
<1>1. /\ \A i \in DOMAIN s : i < Len(s) + 1 /\ i \in DOMAIN Append(s, e)
                               /\ Append(s, e)[i] = s[i]
      /\ \A i \in DOMAIN Append(s, e) :
            \/ i \in DOMAIN s /\ Append(s, e)[i] = s[i]
            \/ i = Len(s) + 1 /\ Append(s, e)[i] = e
    BY AppendAt
<1> QED BY <1>1 DEF Free, NoneIn

LEMMA FreeTail ==
    ASSUME NEW Q, NEW s \in Seq(Q), s # <<>>, NEW S, NEW T, Head(s) \notin T,
           Free(Tail(s), S, T)
    PROVE  Free(s, S, T)
<1>1. /\ Head(s) = s[1]
      /\ \A i \in DOMAIN Tail(s) :
            i \in Nat /\ i > 0 /\ i + 1 \in DOMAIN s /\ Tail(s)[i] = s[i + 1]
      /\ \A i \in DOMAIN s :
            /\ i \in Nat /\ i > 0
            /\ i = 1 \/ (i - 1 \in DOMAIN Tail(s) /\ Tail(s)[i - 1] = s[i])
    BY TailAt
<1>2. PICK k \in DOMAIN Tail(s) :
          Tail(s)[k] \in S /\ \A j \in DOMAIN Tail(s) : j < k => Tail(s)[j] \notin T
    BY DEF Free
<1>3. ASSUME NEW j \in DOMAIN s, j < k + 1 PROVE s[j] \notin T
  <2>1. CASE j = 1
      BY <1>1, <2>1
  <2>2. CASE j # 1
    <3>1. j - 1 \in DOMAIN Tail(s) /\ Tail(s)[j - 1] = s[j]
        BY <1>1, <2>2
    <3>2. j \in Nat /\ k \in Nat
        BY <1>1
    <3>3. j - 1 < k
        BY <1>3, <3>2
    <3> QED BY <1>2, <3>1, <3>3
  <2> QED BY <2>1, <2>2
<1> QED BY <1>1, <1>2, <1>3 DEF Free

LEMMA FreeHead ==
    ASSUME NEW Q, NEW s \in Seq(Q), s # <<>>, NEW S, NEW T, Head(s) \in S
    PROVE  Free(s, S, T)
<1>1. /\ Head(s) = s[1] /\ 1 \in DOMAIN s
      /\ \A i \in DOMAIN s : i \in Nat /\ i > 0
    BY TailAt
<1>2. \A i \in DOMAIN s : ~(i < 1)
    BY <1>1
<1> QED BY <1>1, <1>2 DEF Free

LEMMA FreeOfNone == \A s, S, T : NoneIn(s, S) => ~Free(s, S, T)
    BY DEF NoneIn, Free

\* When no content type is on its way, the one there is is the one asked for.
LEMMA SteadyNow ==
    TypeOK /\ AgreeInv /\ ShownInv /\ NoneIn(calls, NamedCalls)
        /\ NoneIn(signals, TypeSignals) /\ (initialized \/ requested = NoType) => Steady
<1> SUFFICES ASSUME TypeOK, AgreeInv, ShownInv, NoneIn(calls, NamedCalls),
                    NoneIn(signals, TypeSignals), initialized \/ requested = NoType
             PROVE  Steady
    OBVIOUS
<1>1. /\ \A c \in Range(calls) : c \notin NamedCalls
      /\ \A s \in Range(signals) : s \notin TypeSignals
    BY DEF NoneIn, Range
<1>2. CASE requested = NoType
    BY <1>1, <1>2, NothingNamed DEF Steady
<1>3. CASE requested # NoType
  <2>1. ~LastIn(calls, SetContentTypeCall(requested), TypeCalls)
    <3>1. SUFFICES ASSUME LastIn(calls, SetContentTypeCall(requested), TypeCalls) PROVE FALSE
        OBVIOUS
    <3>2. SetContentTypeCall(requested) \in Range(calls)
          /\ SetContentTypeCall(requested) \in TypeCalls
        BY <3>1 DEF LastIn, Range
    <3>3. requested \in Types
        BY <1>3 DEF TypeOK, Paths
    <3>4. SetContentTypeCall(requested) \in NamedCalls
        BY <3>2, <3>3 DEF TypeCalls, NamedCalls, SetCalls, SetContentTypeCall
    <3> QED BY <1>1, <3>2, <3>4
  <2>2. /\ NoneIn(calls, TypeCalls) /\ state[identifier].contentType = requested
        /\ ModelAgrees
      BY <1>3, <2>1 DEF AgreeInv, TypeAgrees
  <2>3. contentType = requested
    <3>1. ~LastIn(signals, TypeSignal(requested), TypeSignals)
        BY <1>1 DEF LastIn, Range
    <3> QED BY <2>2, <3>1 DEF ModelAgrees
  <2>4. RegisterCall \notin Range(calls)
    <3>1. RegisterCall \in TypeCalls
        BY CallsTyped DEF RegisterCall, TypeCalls, TypeOK
    <3> QED BY <2>2, <3>1 DEF NoneIn, Range
  <2> QED BY <1>1, <2>2, <2>3, <2>4 DEF Steady
<1> QED BY <1>2, <1>3

\* A step that leaves a content type asked for alone.
LEMMA SteadyStays ==
    ASSUME Steady, UNCHANGED <<identifier, contentType, requested>>,
           state'[identifier].contentType = state[identifier].contentType,
           \A c \in Range(calls') : c \in NamedCalls => c \in Range(calls) \/ c.type = requested,
           \A s \in Range(signals') :
               s \in TypeSignals => s \in Range(signals) \/ s.type = requested,
           RegisterCall \in Range(calls') => RegisterCall \in Range(calls)
    PROVE  Steady'
<1>1. NamedCalls' = NamedCalls /\ TypeSignals' = TypeSignals /\ RegisterCall' = RegisterCall
    BY SameSets
<1> QED BY <1>1 DEF Steady

\* A step whose flags, and pages on their way, are those there were, or of a
\* steady content type.
SameSteady ==
    /\ UNCHANGED <<identifier, contentType>>
    /\ Steady => Steady'
    /\ \A i \in DOMAIN canGoForward' : canGoForward'[i] =>
          Flagged(i) \/ (Steady /\ contentType \in Browsable)
    /\ Free(signals', FlagSignals, TypeSignals) =>
          \/ Free(signals, FlagSignals, TypeSignals)
          \/ Steady /\ contentType \in Browsable
    /\ NoneIn(signals', TypeSignals) =>
          /\ NoneIn(signals, TypeSignals)
          /\ \A j \in Range(jobs') : j.id = identifier =>
                \/ \E i \in Range(jobs) : i.id = identifier /\ i.type = j.type
                \/ Steady /\ j.type = contentType
          /\ Free(calls', FetchCalls, NamedCalls) =>
                \/ Free(calls, FetchCalls, NamedCalls) /\ (Lost => Lost')
                \/ Steady \/ Lost'

LEMMA SteadyKept == FlagsSteady /\ SameSteady => FlagsSteady'
<1> SUFFICES ASSUME FlagsSteady, SameSteady PROVE FlagsSteady'
    OBVIOUS
<1>1. UNCHANGED <<identifier, contentType>> /\ (Steady => Steady')
    BY DEF SameSteady
<1>2. /\ FetchCalls' = FetchCalls /\ NamedCalls' = NamedCalls
      /\ FlagSignals' = FlagSignals /\ TypeSignals' = TypeSignals
    BY <1>1, SameSets
<1>3. ASSUME NEW i \in DOMAIN canGoForward', canGoForward'[i]
      PROVE  Steady' /\ contentType' \in Browsable
    BY <1>1, <1>3 DEF SameSteady, FlagsSteady, Flagged
<1>4. Free(signals', FlagSignals, TypeSignals) => Steady' /\ contentType' \in Browsable
    BY <1>1 DEF SameSteady, FlagsSteady
<1>5. ASSUME NEW j \in Range(jobs'), j.id = identifier, NoneIn(signals', TypeSignals)
      PROVE  Steady' /\ j.type = contentType'
    BY <1>1, <1>5 DEF SameSteady, FlagsSteady
<1>6. Free(calls', FetchCalls, NamedCalls) /\ NoneIn(signals', TypeSignals) =>
          Steady' \/ Lost'
    BY <1>1 DEF SameSteady, FlagsSteady
<1>7. /\ Free(signals, FlagSignals, TypeSignals)' <=> Free(signals', FlagSignals, TypeSignals)
      /\ Free(calls, FetchCalls, NamedCalls)' <=> Free(calls', FetchCalls, NamedCalls)
    BY <1>2 DEF Free
<1> QED BY <1>1, <1>2, <1>3, <1>4, <1>5, <1>6, <1>7 DEF FlagsSteady, Flagged, NoneIn

\* A step that leaves the rows alone, and the flags they have or will have.
SameComplete ==
    /\ UNCHANGED <<identifier, contentType, itemList>>
    /\ Unchallenged' => Unchallenged
    /\ \A i \in DOMAIN itemList : Flagged(i) => Flagged(i)'
    /\ \A start, count \in Nat : Flagging(start, count) => Flagging(start, count)'
    /\ \A s \in PageSignals : s \in Range(signals') => s \in Range(signals)

LEMMA CompleteKept == TypeOK /\ FlagsComplete /\ SameComplete => FlagsComplete'
<1> SUFFICES ASSUME TypeOK, FlagsComplete, SameComplete,
                    contentType \in Browsable, Unchallenged'
             PROVE  FlagsComplete'
    BY DEF FlagsComplete, SameComplete
<1>1. Unchallenged /\ UNCHANGED <<identifier, contentType, itemList>>
    BY DEF SameComplete
<1>2. \A start, count \in Nat : Flagging(start, count) => Flagging(start, count)'
    BY DEF SameComplete
<1>3. ASSUME NEW i \in DOMAIN itemList'
      PROVE  \/ Flagged(i)'
             \/ \E start, count \in Nat : /\ start < i /\ i <= start + count
                                          /\ Flagging(start, count)'
  <2>1. \/ Flagged(i)
        \/ \E start, count \in Nat : /\ start < i /\ i <= start + count
                                     /\ Flagging(start, count)
      BY <1>1, <1>3 DEF FlagsComplete
  <2>2. Flagged(i) => Flagged(i)'
      BY <1>1, <1>3 DEF SameComplete
  <2> QED BY <1>2, <2>1, <2>2
<1>4. ASSUME NEW s \in Range(signals'), s \in PageSignals', s.items # <<>>
      PROVE  Flagging(Len(itemList), Len(s.items))'
  <2>1. s \in PageSignals /\ s \in Range(signals)
      BY <1>1, <1>4, SameSets DEF SameComplete
  <2>2. Len(itemList) \in Nat /\ Len(s.items) \in Nat
      BY <2>1, SignalFields, LenProperties DEF TypeOK, PageSignals
  <2>3. Flagging(Len(itemList), Len(s.items))
      BY <1>1, <1>4, <2>1 DEF FlagsComplete
  <2>4. PICK n \in Nat, k \in Nat : n = Len(itemList) /\ k = Len(s.items)
      BY <2>2
  <2>5. Flagging(n, k)'
      BY <1>2, <2>3, <2>4
  <2>6. n = Len(itemList')
      BY <1>1, <2>4
  <2> QED BY <2>4, <2>5, <2>6 DEF Flagging
<1> QED BY <1>1, <1>3, <1>4 DEF FlagsComplete, Flagging

\* Flags to come still do if their jobs and signals are there.
LEMMA FlaggingKept ==
    ASSUME UNCHANGED identifier,
           \A j \in BegunJobs : j \in Range(jobs) => j \in Range(jobs'),
           \A f \in FlagSignals : f \in Range(signals) => f \in Range(signals')
    PROVE  \A start, count \in Nat : Flagging(start, count) => Flagging(start, count)'
<1>1. BegunJobs' = BegunJobs /\ FlagSignals' = FlagSignals
    BY SameSets, SameBegun
<1> QED BY <1>1 DEF Flagging, Page, Listing

\* There are no flags and no pages, and none of the rows will stay.
Unflagged ==
    /\ canGoForward = <<>> /\ NoneIn(signals, FlagSignals) /\ NoneIn(calls, FetchCalls)
    /\ \A j \in Range(jobs) : j.id # identifier
    /\ ~Unchallenged \/ (itemList = <<>> /\ NoneIn(signals, PageSignals))

LEMMA FlagsRestart == Unflagged => FlagInv
<1> SUFFICES ASSUME Unflagged PROVE FlagsSteady /\ FlagsComplete
    BY DEF FlagInv
<1>1. /\ ~Free(signals, FlagSignals, TypeSignals) /\ ~Free(calls, FetchCalls, NamedCalls)
      /\ DOMAIN canGoForward = {}
    BY FreeOfNone DEF Unflagged
<1>2. FlagsSteady
    BY <1>1 DEF FlagsSteady, Unflagged
<1>3. FlagsComplete
    BY DEF FlagsComplete, Unflagged, NoneIn, Range
<1> QED BY <1>2, <1>3

LEMMA FlagInit == Init => FlagInv
<1> SUFFICES ASSUME Init PROVE Unflagged
    BY FlagsRestart
<1>1. Range(<<>>) = {} /\ DOMAIN <<>> = {}
    BY DEF Range
<1> QED BY <1>1 DEF Init, Unflagged, NoneIn

\* A call comes that fetches no page.
LEMMA CallComes ==
    ASSUME NEW s \in Seq(Call), NEW c \in Call, c \notin FetchCalls
    PROVE  /\ Append(s, c) \in Seq(Call) /\ Range(Append(s, c)) = Range(s) \cup {c}
           /\ Free(Append(s, c), FetchCalls, NamedCalls) => Free(s, FetchCalls, NamedCalls)
           /\ NoneBehind(s, OtherCalls, FetchCalls) =>
                  NoneBehind(Append(s, c), OtherCalls, FetchCalls)
           /\ NoneIn(Append(s, c), NamedCalls) => NoneIn(s, NamedCalls)
<1>1. Free(Append(s, c), FetchCalls, NamedCalls) => Free(s, FetchCalls, NamedCalls)
    BY FreeAppend
<1>2. NoneBehind(s, OtherCalls, FetchCalls) => NoneBehind(Append(s, c), OtherCalls, FetchCalls)
    BY BehindAppend
<1>3. NoneIn(Append(s, c), NamedCalls) => NoneIn(s, NamedCalls)
    BY NoneAppend
<1> QED BY <1>1, <1>2, <1>3, RangeAppend

LEMMA LostKept ==
    ASSUME Lost, UNCHANGED identifier, identifier \notin instances',
           \A j \in Range(jobs') : j.id # identifier,
           NoneBehind(calls', OtherCalls, FetchCalls)
    PROVE  Lost'
<1>1. OtherCalls' = OtherCalls /\ FetchCalls' = FetchCalls
    BY SameSets, SameBegun
<1> QED BY <1>1 DEF Lost

\* A call for something else than a page, or a content type not asked for yet.
LEMMA FlagsCall ==
    ASSUME TypeOK, FlagInv, NEW c \in Call, c \notin FetchCalls, c # RegisterCall,
           c \in NamedCalls => c.type = requested, calls' = Append(calls, c),
           UNCHANGED <<identifier, contentType, requested, canGoForward, itemList, jobs,
                       signals, state, instances, stale>>
    PROVE  FlagInv'
<1> SUFFICES ASSUME stale = {} PROVE FlagsSteady' /\ FlagsComplete'
    BY DEF FlagInv
<1>1. FlagsSteady /\ FlagsComplete
    BY DEF FlagInv
<1>2. /\ NamedCalls' = NamedCalls /\ TypeSignals' = TypeSignals
      /\ calls \in Seq(Call)
    BY SameSets DEF TypeOK
<1>3. /\ Range(calls') = Range(calls) \cup {c}
      /\ Free(calls', FetchCalls, NamedCalls) => Free(calls, FetchCalls, NamedCalls)
      /\ NoneBehind(calls, OtherCalls, FetchCalls) =>
             NoneBehind(calls', OtherCalls, FetchCalls)
      /\ NoneIn(calls', NamedCalls) => NoneIn(calls, NamedCalls)
    BY <1>2, CallComes
<1>4. Steady => Steady'
    BY <1>3, SteadyStays
<1>5. Lost => Lost'
  <2> SUFFICES ASSUME Lost PROVE Lost'
      OBVIOUS
  <2>1. /\ identifier \notin instances' /\ \A j \in Range(jobs') : j.id # identifier
        /\ NoneBehind(calls', OtherCalls, FetchCalls)
      BY <1>3 DEF Lost
  <2> QED BY <2>1, LostKept
<1>6. SameSteady
    BY <1>3, <1>4, <1>5 DEF SameSteady, Flagged
<1>7. SameComplete
  <2>1. Unchallenged' => Unchallenged
      BY <1>2, <1>3 DEF Unchallenged
  <2>2. \A start, count \in Nat : Flagging(start, count) => Flagging(start, count)'
      BY FlaggingKept
  <2> QED BY <2>1, <2>2 DEF SameComplete, Flagged
<1> QED BY <1>1, <1>6, <1>7, SteadyKept, CompleteKept

\* A new content type is asked for, by the user or by a reply: its flags come
\* with its pages.
LEMMA FlagsUpdate ==
    ASSUME TypeOK, SessionInv, NEW type \in Types, UpdateContentType(type),
           UNCHANGED <<connected, identifier, jobs>>,
           signals' = signals \/ (signals # <<>> /\ signals' = Tail(signals))
    PROVE  FlagInv'
<1> SUFFICES ASSUME stale' = {} PROVE FlagInv'
    BY DEF FlagInv
<1>1. ~PageUnderWay /\ canGoForward' = <<>> /\ AskFor(type) /\ itemList' = itemList
    BY DEF UpdateContentType
<1>2. /\ NoneIn(calls, FetchCalls) /\ NoneIn(signals, PageSignals)
      /\ NoneIn(signals, FlagSignals)
      /\ \A j \in Range(jobs) : j.id # identifier
    BY <1>1, NoPage
<1>3. /\ calls \in Seq(Call) /\ signals \in Seq(Signal) /\ type \in Paths
    BY DEF TypeOK, Paths
<1>4. NoneIn(signals', PageSignals) /\ NoneIn(signals', FlagSignals)
  <2>1. CASE signals' = signals
      BY <1>2, <2>1
  <2>2. CASE signals # <<>> /\ signals' = Tail(signals)
      BY <1>2, <1>3, <2>2, FewTail
  <2> QED BY <2>1, <2>2
<1>5. NoneIn(calls', FetchCalls)
  <2>1. CASE calls' = calls
      BY <1>2, <2>1
  <2>2. CASE calls' = Append(calls, SetContentTypeCall(type))
    <3> DEFINE c == SetContentTypeCall(type)
    <3>1. c \in Call /\ c \notin FetchCalls
        BY <1>1, <1>3, AskForSends, CallKinds DEF SetContentTypeCall
    <3> HIDE DEF c
    <3>2. NoneIn(Append(calls, c), FetchCalls)
        BY <1>2, <1>3, <3>1, FewAppend
    <3> QED BY <2>2, <3>2 DEF c
  <2> QED BY <1>1, <1>3, <2>1, <2>2, AskForSends
<1>6. /\ FetchCalls' = FetchCalls /\ PageSignals' = PageSignals
      /\ FlagSignals' = FlagSignals /\ NamedCalls' = NamedCalls
    BY SameSets
<1>7. ~Unchallenged' \/ itemList' = <<>>
  <2>1. CASE connected
      BY <1>1, <1>3, <1>6, <2>1, AskForNames DEF Unchallenged
  <2>2. CASE ~connected
      BY <1>1, <2>2 DEF SessionInv, Unused, Unheard
  <2> QED BY <2>1, <2>2
<1>8. Unflagged'
    BY <1>1, <1>2, <1>4, <1>5, <1>6, <1>7 DEF Unflagged
<1> QED BY <1>8, FlagsRestart, PTL

LEMMA FlagUser ==
    TypeOK /\ SessionInv /\ AgreeInv /\ ShownInv /\ WorkInv /\ RowsInv /\ FlagInv
        /\ (User \/ OnInitializationDone \/ FetchMore) => FlagInv'
<1> SUFFICES ASSUME TypeOK, SessionInv, AgreeInv, ShownInv, WorkInv, RowsInv, FlagInv,
                    User \/ OnInitializationDone \/ FetchMore
             PROVE  FlagInv'
    OBVIOUS
<1> USE DEF modelVars, sessionVars, backendVars
<1>c. calls \in Seq(Call) /\ identifier \in Session /\ requested \in Paths
    BY DEF TypeOK
<1>0. ASSUME UNCHANGED <<identifier, contentType, requested, canGoForward, itemList, jobs,
                         signals, state, instances, stale, calls>>
      PROVE  FlagInv'
  <2>1. SameSteady
    <3>1. Steady => Steady'
        BY <1>0, SteadyStays
    <3>2. Lost => Lost'
        BY <1>0, SameSets, SameBegun DEF Lost
    <3> QED BY <1>0, <3>1, <3>2 DEF SameSteady, Flagged
  <2>2. SameComplete
    <3>1. \A start, count \in Nat : Flagging(start, count) => Flagging(start, count)'
        BY <1>0, FlaggingKept
    <3>2. Unchallenged' => Unchallenged
        BY <1>0, SameSets DEF Unchallenged
    <3> QED BY <1>0, <3>1, <3>2 DEF SameComplete, Flagged
  <2> QED BY <1>0, <2>1, <2>2, SteadyKept, CompleteKept DEF FlagInv
<1>1. CASE Connect
    BY <1>0, <1>1 DEF Connect
<1>2. CASE Disconnect
  <2>1. Unused' /\ ~connected' /\ itemList' = <<>> /\ canGoForward' = <<>>
      BY <1>2, SessionUser DEF Disconnect, SessionInv, User
  <2>2. /\ \A c \in Range(calls') : c.id # identifier'
        /\ \A j \in Range(jobs') : j.id # identifier'
        /\ \A s \in Range(signals') : s.kind # "reply" => s.id # identifier'
      BY <2>1 DEF Unused
  <2>3. /\ \A k \in DOMAIN calls' : calls'[k] \in Range(calls')
        /\ \A k \in DOMAIN signals' : signals'[k] \in Range(signals')
      BY DEF Range
  <2>4. NoneIn(calls, FetchCalls)'
      BY <2>2, <2>3 DEF FetchCalls, NoneIn
  <2>5. NoneIn(signals, PageSignals)' /\ NoneIn(signals, FlagSignals)'
      BY <2>2, <2>3 DEF PageSignals, FlagSignals, NoneIn
  <2>6. Unflagged'
      BY <2>1, <2>2, <2>4, <2>5 DEF Unflagged
  <2> QED BY <2>6, FlagsRestart, PTL
<1>3. CASE GoBack
  <2> DEFINE c == [kind |-> "goBack", id |-> identifier]
  <2>1. c \in Call
      BY CallsTyped DEF TypeOK
  <2>2. c \notin FetchCalls /\ c # RegisterCall /\ c \notin NamedCalls
      BY CallKinds
  <2> QED BY <1>3, <2>1, <2>2, FlagsCall DEF GoBack
<1>4. ASSUME NEW type \in Offered, SetContentType(type) PROVE FlagInv'
  <2>1. type \in Types
      BY BrowseAssumption
  <2> QED BY <1>4, <2>1, FlagsUpdate DEF SetContentType
<1>5. ASSUME NEW new \in Terms \cup Unparsable, SetQuery(new) PROVE FlagInv'
  <2> DEFINE c == SetContentTypeCall(requested)
  <2>1. /\ AskFor(requested)
        /\ UNCHANGED <<identifier, contentType, requested, canGoForward, itemList, jobs,
                       signals, state, instances, stale>>
      BY <1>5 DEF SetQuery
  <2>2. c \in Call /\ (calls' = calls \/ calls' = Append(calls, c))
      BY <1>c, <2>1, AskForSends
  <2>3. c \notin FetchCalls /\ c # RegisterCall /\ c.type = requested
      BY CallKinds DEF SetContentTypeCall
  <2> HIDE DEF c
  <2> QED BY <1>0, <2>1, <2>2, <2>3, FlagsCall
<1>6. ASSUME NEW i \in DOMAIN itemList, NEW inModel \in BOOLEAN,
             GoForward(i - 1, inModel)
      PROVE  FlagInv'
  <2>1. PICK c : c.kind = "goForward" /\ calls' = Append(calls, c)
      BY <1>6 DEF GoForward
  <2>2. calls' \in Seq(Call)
      BY <1>6, TypeUser DEF User, TypeOK
  <2>3. c \in Call
      BY <1>c, <2>1, <2>2
  <2>4. c \notin FetchCalls /\ c # RegisterCall /\ c \notin NamedCalls
      BY <2>1, CallKinds
  <2> QED BY <1>6, <2>1, <2>3, <2>4, FlagsCall DEF GoForward
<1>7. CASE OnInitializationDone
  <2> DEFINE c == SetContentTypeCall(requested)
             more == Append(calls, RegisterCall)
  <2> SUFFICES ASSUME stale = {} PROVE FlagsSteady' /\ FlagsComplete'
      BY <1>7 DEF OnInitializationDone, FlagInv
  <2>1. /\ RegisterCall \in Call /\ c \in Call /\ calls' = Append(more, c)
        /\ more \in Seq(Call)
        /\ UNCHANGED <<identifier, contentType, requested, canGoForward, itemList, jobs,
                       signals, state, instances, stale>>
      BY <1>7, Initializes DEF OnInitializationDone
  <2>2. contentType = NoType /\ FlagsSteady
      BY <1>7 DEF OnInitializationDone, SessionInv, Unheard, FlagInv
  <2>3. /\ c \notin FetchCalls /\ RegisterCall \notin FetchCalls
        /\ c.type = requested /\ RegisterCall \notin NamedCalls
      BY CallKinds DEF SetContentTypeCall
  <2> HIDE DEF c
  <2>4. /\ Range(more) = Range(calls) \cup {RegisterCall}
        /\ Free(more, FetchCalls, NamedCalls) => Free(calls, FetchCalls, NamedCalls)
        /\ NoneBehind(calls, OtherCalls, FetchCalls) =>
               NoneBehind(more, OtherCalls, FetchCalls)
      BY <1>c, <2>1, <2>3, CallComes
  <2> HIDE DEF more
  <2>5. /\ Range(calls') = Range(calls) \cup {RegisterCall, c}
        /\ Free(calls', FetchCalls, NamedCalls) => Free(calls, FetchCalls, NamedCalls)
        /\ NoneBehind(calls, OtherCalls, FetchCalls) =>
               NoneBehind(calls', OtherCalls, FetchCalls)
    <3>1. /\ Range(Append(more, c)) = Range(more) \cup {c}
          /\ Free(Append(more, c), FetchCalls, NamedCalls) => Free(more, FetchCalls, NamedCalls)
          /\ NoneBehind(more, OtherCalls, FetchCalls) =>
                 NoneBehind(Append(more, c), OtherCalls, FetchCalls)
        BY <2>1, <2>3, CallComes
    <3> QED BY <2>1, <2>4, <3>1
  <2>6. Steady => Steady'
    <3>1. SUFFICES ASSUME Steady PROVE Steady'
        OBVIOUS
    <3>2. requested = NoType
        BY <2>2, <3>1 DEF Steady
    <3>3. NamedCalls' = NamedCalls /\ TypeSignals' = TypeSignals
        BY <2>1, SameSets
    <3>4. \A d \in Range(calls') : d \in NamedCalls => d.type = requested
        BY <2>3, <2>5, <3>1 DEF Steady
    <3> QED BY <2>1, <3>1, <3>2, <3>3, <3>4 DEF Steady
  <2>7. Lost => Lost'
    <3>1. SUFFICES ASSUME Lost PROVE Lost'
        OBVIOUS
    <3>2. /\ identifier \notin instances' /\ \A j \in Range(jobs') : j.id # identifier
          /\ NoneBehind(calls', OtherCalls, FetchCalls)
        BY <2>1, <2>5, <3>1 DEF Lost
    <3> QED BY <2>1, <3>1, <3>2, LostKept
  <2>8. SameSteady
      BY <2>1, <2>5, <2>6, <2>7 DEF SameSteady, Flagged
  <2>9. FlagsComplete'
      BY <2>1, <2>2, BrowseAssumption DEF FlagsComplete
  <2> QED BY <2>2, <2>8, <2>9, SteadyKept
<1>8. CASE FetchMore
  <2> DEFINE c == FetchCall(Len(itemList))
  <2> SUFFICES ASSUME stale = {} PROVE FlagsSteady' /\ FlagsComplete'
      BY <1>8 DEF FetchMore, FlagInv
  <2>1. /\ calls' = Append(calls, c) /\ moreAvailable
        /\ UNCHANGED <<identifier, contentType, requested, canGoForward, itemList, jobs,
                       signals, state, instances, stale, initialized>>
      BY <1>8 DEF FetchMore
  <2>2. c \in Call /\ c.kind = "fetchData" /\ c \notin NamedCalls /\ c # RegisterCall
      BY CallsTyped, CallKinds, LenProperties DEF TypeOK, FetchCall
  <2>3. NoneIn(calls, FetchCalls) /\ FlagsSteady /\ FlagsComplete
      BY <2>1 DEF RowsInv, OnePage, FlagInv
  <2> HIDE DEF c
  <2>4. /\ Range(calls') = Range(calls) \cup {c}
        /\ Free(calls', FetchCalls, NamedCalls) => NoneIn(calls, NamedCalls)
        /\ NoneIn(calls', NamedCalls) => NoneIn(calls, NamedCalls)
      BY <1>c, <2>1, <2>2, <2>3, RangeAppend, FreeAppend, FreeOfNone, NoneAppend
  <2>5. Steady => Steady'
      BY <2>1, <2>2, <2>4, SteadyStays
  <2>6. NoneIn(calls, NamedCalls) /\ NoneIn(signals, TypeSignals) => Steady \/ Lost'
    <3> SUFFICES ASSUME NoneIn(calls, NamedCalls), NoneIn(signals, TypeSignals), ~Steady
                 PROVE  Lost'
        OBVIOUS
    <3>1. Unannounced
        BY SteadyNow DEF Unannounced
    <3>2. Unreached
        BY <3>1 DEF WorkInv, Unserved
    <3>3. \A d \in Range(calls') : d.id = identifier => d.kind = "fetchData"
        BY <2>2, <2>4, <3>2 DEF Unreached
    <3>4. \A d \in Range(calls') : d \notin OtherCalls
        BY <3>3 DEF OtherCalls
    <3>5. NoneBehind(calls', OtherCalls, FetchCalls)
        BY <3>4 DEF NoneBehind, Range
    <3>6. OtherCalls' = OtherCalls /\ FetchCalls' = FetchCalls
        BY <2>1, SameSets, SameBegun
    <3> QED BY <2>1, <3>2, <3>5, <3>6 DEF Lost, Unreached
  <2>7. SameSteady
      BY <2>1, <2>4, <2>5, <2>6 DEF SameSteady, Flagged
  <2>8. SameComplete
    <3>1. Unchallenged' => Unchallenged
        BY <2>1, <2>4, SameSets DEF Unchallenged
    <3>2. \A start, count \in Nat : Flagging(start, count) => Flagging(start, count)'
        BY <2>1, FlaggingKept
    <3> QED BY <2>1, <3>1, <3>2 DEF SameComplete, Flagged
  <2> QED BY <2>3, <2>7, <2>8, SteadyKept, CompleteKept
<1> QED BY <1>1, <1>2, <1>3, <1>4, <1>5, <1>6, <1>7, <1>8 DEF User

\* A signal goes that brings neither a content type nor flags.
LEMMA SignalGoes ==
    ASSUME NEW s \in Seq(Signal), s # <<>>, Head(s) \notin TypeSignals
    PROVE  /\ Tail(s) \in Seq(Signal) /\ Head(s) \in Range(s)
           /\ Range(Tail(s)) \subseteq Range(s) /\ Range(s) \subseteq Range(Tail(s)) \cup {Head(s)}
           /\ NoneIn(Tail(s), TypeSignals) => NoneIn(s, TypeSignals)
           /\ Free(Tail(s), FlagSignals, TypeSignals) => Free(s, FlagSignals, TypeSignals)
<1>1. Free(Tail(s), FlagSignals, TypeSignals) => Free(s, FlagSignals, TypeSignals)
    BY FreeTail
<1>2. NoneIn(Tail(s), TypeSignals) => NoneIn(s, TypeSignals)
    BY FewTail
<1> QED BY <1>1, <1>2, RangeTail, TailAt

LEMMA FlagModel ==
    TypeOK /\ SessionInv /\ AgreeInv /\ ShownInv /\ RowsInv /\ FlagInv /\ Model => FlagInv'
<1> SUFFICES ASSUME TypeOK, SessionInv, AgreeInv, ShownInv, RowsInv, FlagInv, Model
             PROVE  FlagInv'
    OBVIOUS
<1> USE DEF modelVars, sessionVars, backendVars
<1> DEFINE s == Head(signals)
<1>h. ASSUME NEW kind, Hear(kind)
      PROVE  /\ s \in Signal /\ s.kind = kind /\ signals' = Tail(signals)
             /\ signals # <<>> /\ signals \in Seq(Signal) /\ calls \in Seq(Call)
             /\ UNCHANGED <<identifier, jobs, state, instances, connected, initialized>>
             /\ connected => initialized
             /\ kind # "reply" => Concerned \/ s.id # identifier
  <2>1. kind # "reply" => Concerned \/ s.id # identifier
      BY <1>h, Heard, HeadSignal DEF SessionInv, Unused, Concerned
  <2>2. signals \in Seq(Signal) /\ calls \in Seq(Call)
      BY DEF TypeOK
  <2> QED BY <1>h, <2>1, <2>2, HeadSignal DEF Hear
<1> HIDE DEF s
\* a signal that brings no content type goes: what is steady stays it
<1>a. ASSUME NEW kind, Hear(kind), s \notin TypeSignals, FlagsSteady,
             UNCHANGED <<contentType, requested, calls>>,
             \A i \in DOMAIN canGoForward' : canGoForward'[i] =>
                 Flagged(i) \/ (Steady /\ contentType \in Browsable)
      PROVE  FlagsSteady' /\ (Unchallenged' => Unchallenged)
  <2>1. /\ Range(signals') \subseteq Range(signals)
        /\ NoneIn(signals', TypeSignals) => NoneIn(signals, TypeSignals)
        /\ Free(signals', FlagSignals, TypeSignals) => Free(signals, FlagSignals, TypeSignals)
    <3>1. signals' = Tail(signals) /\ signals # <<>> /\ signals \in Seq(Signal)
          /\ Head(signals) \notin TypeSignals
        BY <1>a, <1>h DEF s
    <3>2. /\ Range(Tail(signals)) \subseteq Range(signals)
          /\ NoneIn(Tail(signals), TypeSignals) => NoneIn(signals, TypeSignals)
          /\ Free(Tail(signals), FlagSignals, TypeSignals) =>
                 Free(signals, FlagSignals, TypeSignals)
        BY <3>1, SignalGoes
    <3> QED BY <3>1, <3>2
  <2>2. UNCHANGED <<identifier, jobs, state, instances>>
      BY <1>a, <1>h
  <2>3. Steady => Steady'
      BY <1>a, <2>1, <2>2, SteadyStays
  <2>4. Lost => Lost'
      BY <1>a, <2>2, SameSets, SameBegun DEF Lost
  <2>5. SameSteady
      BY <1>a, <2>1, <2>2, <2>3, <2>4 DEF SameSteady
  <2>6. Unchallenged' => Unchallenged
      BY <1>a, <2>1, <2>2, SameSets DEF Unchallenged
  <2> QED BY <1>a, <2>5, <2>6, SteadyKept
<1>0. ASSUME NEW kind, Hear(kind), s \notin PageSignals, s \notin TypeSignals,
             s \notin FlagSignals,
             UNCHANGED <<contentType, requested, itemList, canGoForward, calls, stale>>
      PROVE  FlagInv'
  <2> SUFFICES ASSUME stale = {} PROVE FlagsSteady' /\ FlagsComplete'
      BY <1>0 DEF FlagInv
  <2>1. FlagsSteady /\ FlagsComplete
      BY DEF FlagInv
  <2>2. FlagsSteady' /\ (Unchallenged' => Unchallenged)
      BY <1>0, <1>a, <2>1 DEF Flagged
  <2>3. /\ Range(signals') \subseteq Range(signals)
        /\ Range(signals) \subseteq Range(signals') \cup {s}
        /\ UNCHANGED <<identifier, jobs>>
    <3>1. /\ signals' = Tail(signals) /\ signals # <<>> /\ signals \in Seq(Signal)
          /\ s = Head(signals) /\ UNCHANGED <<identifier, jobs>>
        BY <1>0, <1>h DEF s
    <3> QED BY <1>0, <3>1, SignalGoes
  <2>4. \A start, count \in Nat : Flagging(start, count) => Flagging(start, count)'
      BY <1>0, <2>3, FlaggingKept
  <2>5. SameComplete
      BY <1>0, <2>2, <2>3, <2>4 DEF SameComplete, Flagged
  <2> QED BY <2>1, <2>2, <2>5, CompleteKept
<1>1. CASE OnIgnored
  <2>1. Hear(s.kind) /\ s.kind # "reply" /\ ~Concerned
      BY <1>1 DEF OnIgnored, s
  <2>2. s \notin PageSignals /\ s \notin TypeSignals /\ s \notin FlagSignals
      BY <1>h, <2>1 DEF PageSignals, TypeSignals, FlagSignals
  <2> QED BY <1>0, <1>1, <2>1, <2>2 DEF OnIgnored
<1>2. CASE OnCapabilitiesChanged
  <2>1. Hear("supportedCapabilitiesChanged")
      BY <1>2 DEF OnCapabilitiesChanged
  <2>2. s \notin PageSignals /\ s \notin TypeSignals /\ s \notin FlagSignals
      BY <1>h, <2>1 DEF PageSignals, TypeSignals, FlagSignals
  <2> QED BY <1>0, <1>2, <2>1, <2>2 DEF OnCapabilitiesChanged
<1>3. CASE OnCanGoBackChanged
  <2>1. Hear("canGoBackChanged")
      BY <1>3 DEF OnCanGoBackChanged
  <2>2. s \notin PageSignals /\ s \notin TypeSignals /\ s \notin FlagSignals
      BY <1>h, <2>1 DEF PageSignals, TypeSignals, FlagSignals
  <2> QED BY <1>0, <1>3, <2>1, <2>2 DEF OnCanGoBackChanged
<1>7. CASE OnReply
  <2>1. Hear("reply")
      BY <1>7 DEF OnReply
  <2>2. /\ s \notin PageSignals /\ s \notin TypeSignals /\ s \notin FlagSignals
        /\ s.type \in Paths
      BY <1>h, <2>1, SignalFields DEF PageSignals, TypeSignals, FlagSignals
  <2>3. CASE s.type # NoType /\ s.inModel
    <3>1. UpdateContentType(s.type) /\ s.type \in Types
        BY <1>7, <2>2, <2>3 DEF OnReply, s, Paths
    <3>2. signals # <<>> /\ signals' = Tail(signals) /\ UNCHANGED <<connected, identifier, jobs>>
        BY <1>h, <2>1
    <3> QED BY <3>1, <3>2, FlagsUpdate
  <2>4. CASE ~(s.type # NoType /\ s.inModel)
    <3>1. UNCHANGED <<modelVars, calls, stale>>
        BY <1>7, <2>4 DEF OnReply, s
    <3> QED BY <1>0, <2>1, <2>2, <3>1
  <2> QED BY <2>3, <2>4
<1>5. CASE OnDataFetched
  <2> DEFINE n == Len(itemList)
             k == Len(s.items)
  <2>1. /\ Hear("dataFetched") /\ Concerned /\ itemList' = itemList \o s.items
        /\ UNCHANGED <<contentType, requested, canGoForward, calls, stale>>
      BY <1>5 DEF OnDataFetched, s
  <2>2. /\ signals' = Tail(signals) /\ signals # <<>> /\ signals \in Seq(Signal)
        /\ s \in Signal /\ s.kind = "dataFetched" /\ s = Head(signals)
        /\ UNCHANGED <<identifier, jobs>>
      BY <1>h, <2>1 DEF s
  <2>3. s \in PageSignals /\ s \notin TypeSignals /\ s \notin FlagSignals
      BY <2>1, <2>2 DEF PageSignals, TypeSignals, FlagSignals, Concerned, s
  <2> SUFFICES ASSUME stale = {} PROVE FlagsSteady' /\ FlagsComplete'
      BY <2>1 DEF FlagInv
  <2>4. FlagsSteady /\ FlagsComplete /\ OnePage
      BY DEF FlagInv, RowsInv
  <2>5. FlagsSteady' /\ (Unchallenged' => Unchallenged)
      BY <1>a, <2>1, <2>3, <2>4 DEF Flagged
  <2>6. NoneIn(Tail(signals), PageSignals) /\ PageSignals' = PageSignals
      BY <2>2, <2>3, <2>4, FewTail, SameSets DEF OnePage
  <2>7. /\ Range(signals) \subseteq Range(signals') \cup {s} /\ s \in Range(signals)
      BY <2>2, <2>3, SignalGoes
  <2>8. \A start, count \in Nat : Flagging(start, count) => Flagging(start, count)'
      BY <2>2, <2>3, <2>7, FlaggingKept
  <2>9. n \in Nat /\ k \in Nat /\ DOMAIN itemList = 1..n /\ DOMAIN itemList' = 1..(n + k)
    <3>1. itemList \in Seq(Rows) /\ s.items \in Seq(Rows)
        BY <2>2, SignalFields DEF TypeOK
    <3> QED BY <2>1, <3>1, ConcatProperties, LenProperties
  <2>10. ASSUME contentType \in Browsable, Unchallenged, NEW i \in DOMAIN itemList'
         PROVE  \/ Flagged(i)'
                \/ \E start, count \in Nat : /\ start < i /\ i <= start + count
                                             /\ Flagging(start, count)'
    <3>1. CASE i \in DOMAIN itemList
      <4>1. \/ Flagged(i)
            \/ \E start, count \in Nat : /\ start < i /\ i <= start + count
                                         /\ Flagging(start, count)
          BY <2>4, <2>10, <3>1 DEF FlagsComplete
      <4>2. Flagged(i) => Flagged(i)'
          BY <2>1 DEF Flagged
      <4> QED BY <2>8, <4>1, <4>2
    <3>2. CASE i \notin DOMAIN itemList
      <4>1. n < i /\ i <= n + k /\ k # 0
        <5> HIDE DEF n, k
        <5> QED BY <2>9, <2>10, <3>2
      <4>2. s.items # <<>>
          BY <4>1
      <4>3. Flagging(n, k)
          BY <2>3, <2>4, <2>7, <2>10, <4>2 DEF FlagsComplete
      <4>4. PICK start \in Nat, count \in Nat : start = n /\ count = k
          BY <2>9
      <4>5. Flagging(start, count)'
          BY <2>8, <4>3, <4>4
      <4> QED BY <4>1, <4>4, <4>5
    <3> QED BY <3>1, <3>2
  <2>11. \A t \in Range(signals') : t \notin PageSignals
      BY <2>2, <2>6 DEF NoneIn, Range
  <2>12. FlagsComplete'
      BY <2>1, <2>5, <2>6, <2>10, <2>11 DEF FlagsComplete
  <2> QED BY <2>5, <2>12
<1>6. CASE OnCanGoForwardChanged
  <2> DEFINE n == Len(itemList)
             count == s.count
             start == s.start
  <2>1. /\ Hear("canGoForwardChanged") /\ Concerned /\ canGoForward' = Flags(start, count)
        /\ UNCHANGED <<contentType, requested, itemList, calls, stale>>
      BY <1>6 DEF OnCanGoForwardChanged, s
  <2>2. /\ signals' = Tail(signals) /\ signals # <<>> /\ signals \in Seq(Signal)
        /\ s \in Signal /\ s.kind = "canGoForwardChanged" /\ s = Head(signals)
        /\ UNCHANGED <<identifier, jobs>>
      BY <1>h, <2>1 DEF s
  <2>3. s \in FlagSignals /\ s \notin TypeSignals /\ s \notin PageSignals
      BY <2>1, <2>2 DEF PageSignals, TypeSignals, FlagSignals, Concerned, s
  <2> SUFFICES ASSUME stale = {} PROVE FlagsSteady' /\ FlagsComplete'
      BY <2>1 DEF FlagInv
  <2>4. FlagsSteady /\ FlagsComplete /\ FlagsFollow
      BY DEF FlagInv, RowsInv
  <2>5. Free(signals, FlagSignals, TypeSignals)
      BY <2>2, <2>3, FreeHead
  <2>6. Steady /\ contentType \in Browsable
      BY <2>4, <2>5 DEF FlagsSteady
  <2>7. FlagsSteady' /\ (Unchallenged' => Unchallenged)
      BY <1>a, <2>1, <2>3, <2>4, <2>6
  <2>8. /\ Range(signals') \subseteq Range(signals)
        /\ Range(signals) \subseteq Range(signals') \cup {s}
      BY <2>2, <2>3, SignalGoes
  <2>9. start \in Nat /\ count \in Nat /\ n \in Nat /\ DOMAIN itemList = 1..n
      BY <2>2, SignalFields, LenProperties DEF TypeOK
  <2>10. start + count <= n
    <3>1. Covered(signals, FlagSignals, PageSignals, n)
        BY <2>4 DEF FlagsFollow
    <3> HIDE DEF n
    <3> QED BY <2>2, <2>3, <2>9, <3>1, CoveredTail
  <2>11. \A i \in DOMAIN itemList :
            /\ Flagged(i) => Flagged(i)'
            /\ start < i /\ i <= start + count => Flagged(i)'
    <3>1. /\ Len(Flags(start, count)) = Longest(n, count)
          /\ Flags(start, count) \in Seq(BOOLEAN)
          /\ \A i \in 1..Longest(n, count) :
                Flags(start, count)[i] <=> \/ i > start /\ i <= start + count
                                           \/ i <= Len(canGoForward) /\ canGoForward[i]
        BY <2>9, FlagsTyped
    <3>2. /\ DOMAIN canGoForward = 1..Len(canGoForward) /\ Len(canGoForward) \in Nat
          /\ DOMAIN canGoForward' = 1..Longest(n, count)
        BY <2>1, <3>1, LenProperties DEF TypeOK
    <3>3. Longest(n, count) >= n /\ Longest(n, count) \in Nat
      <4> HIDE DEF n, count
      <4> QED BY <2>9 DEF Longest
    <3> HIDE DEF n, count, start
    <3>4. ASSUME NEW i \in DOMAIN itemList PROVE i \in 1..Longest(n, count) /\ i \in Nat
        BY <2>9, <3>3
    <3>5. ASSUME NEW i \in DOMAIN itemList, Flagged(i) PROVE i <= Len(canGoForward)
        BY <3>2, <3>5 DEF Flagged
    <3>6. ASSUME NEW i \in DOMAIN itemList, Flagged(i) \/ (start < i /\ i <= start + count)
          PROVE  Flagged(i)'
      <4>1. Flags(start, count)[i]
        <5>1. CASE Flagged(i)
          <6>1. i <= Len(canGoForward)
              BY <3>5, <5>1
          <6>2. canGoForward[i]
              BY <5>1, Zenon DEF Flagged
          <6> QED BY <3>1, <3>4, <6>1, <6>2, Zenon
        <5>2. CASE start < i /\ i <= start + count
          <6>1. i > start /\ i <= start + count
              BY <2>9, <3>4, <5>2
          <6> QED BY <3>1, <3>4, <6>1, Zenon
        <5>3. Flagged(i) \/ (start < i /\ i <= start + count)
            BY <3>6
        <5> QED BY <5>1, <5>2, <5>3, Zenon
      <4>2. i \in DOMAIN canGoForward' /\ canGoForward' = Flags(start, count)
          BY <2>1, <3>2, <3>4
      <4> QED BY <4>1, <4>2, Zenon DEF Flagged
    <3> QED BY <3>6
  \* what was to come still is, but what has come now
  <2>12. ASSUME NEW a \in Nat, NEW m \in Nat, Flagging(a, m)
         PROVE  Flagging(a, m)' \/ (a = start /\ m = count)
    <3>1. BegunJobs' = BegunJobs /\ FlagSignals' = FlagSignals
        BY <2>2, SameSets, SameBegun
    <3> QED BY <2>2, <2>8, <2>12, <3>1 DEF Flagging, Page, Listing
  <2>13. ASSUME Unchallenged, NEW i \in DOMAIN itemList
         PROVE  \/ Flagged(i)'
                \/ \E a, m \in Nat : /\ a < i /\ i <= a + m
                                     /\ Flagging(a, m)'
    <3>1. \/ Flagged(i)
          \/ \E a, m \in Nat : a < i /\ i <= a + m /\ Flagging(a, m)
        BY <2>4, <2>6, <2>13 DEF FlagsComplete
    <3> QED BY <2>11, <2>12, <3>1
  <2>14. ASSUME Unchallenged, NEW t \in Range(signals'), t \in PageSignals, t.items # <<>>
         PROVE  Flagging(n, Len(t.items))'
    <3>1. Len(t.items) \in Nat /\ Len(t.items) > 0 /\ t \in Range(signals)
        BY <2>8, <2>14, SignalFields, LenProperties, EmptySeq DEF PageSignals
    <3>2. PICK a \in Nat, m \in Nat : a = n /\ m = Len(t.items)
        BY <2>9, <3>1
    <3>3. Flagging(a, m)
        BY <2>4, <2>6, <2>14, <3>1, <3>2 DEF FlagsComplete
    <3>4. ~(a = start /\ m = count)
      <4> HIDE DEF n, start, count
      <4> QED BY <2>9, <2>10, <3>1, <3>2
    <3>5. Flagging(a, m)'
        BY <2>12, <3>3, <3>4
    <3>6. n' = n
        BY <2>1
    <3> QED BY <3>2, <3>5, <3>6 DEF Flagging
  <2>15. FlagsComplete'
    <3>1. PageSignals' = PageSignals
        BY <2>2, SameSets
    <3> QED BY <2>1, <2>7, <2>13, <2>14, <3>1 DEF FlagsComplete, Flagging
  <2> QED BY <2>7, <2>15
<1>4. CASE OnContentTypeChanged
  <2> DEFINE c == FetchCall(0)
             f == SetupFilterCall(query)
  <2>1. /\ Hear("contentTypeChanged") /\ Concerned /\ contentType' = s.type /\ itemList' = <<>>
        /\ stale' = stale \cup (IF PageUnderWay THEN {"flags", "rows"} ELSE {})
        /\ UNCHANGED <<requested, canGoForward>>
      BY <1>4 DEF OnContentTypeChanged, s
  <2> SUFFICES ASSUME stale' = {} PROVE FlagsSteady' /\ FlagsComplete'
      BY DEF FlagInv
  <2>2. ~PageUnderWay /\ stale = {}
      BY <2>1
  <2>3. /\ NoneIn(calls, FetchCalls) /\ NoneIn(signals, PageSignals)
        /\ NoneIn(signals, FlagSignals)
        /\ \A j \in Range(jobs) : j.id # identifier
      BY <2>2, NoPage
  <2>4. /\ signals' = Tail(signals) /\ signals # <<>> /\ signals \in Seq(Signal)
        /\ calls \in Seq(Call) /\ UNCHANGED <<identifier, jobs, state, instances, initialized>>
        /\ initialized /\ s \in Range(signals) /\ Range(signals') \subseteq Range(signals)
        /\ s \in TypeSignals
    <3>1. s \in Signal /\ s.kind = "contentTypeChanged" /\ s.id = identifier /\ initialized
        BY <1>h, <2>1 DEF Concerned, s
    <3>2. s \in Range(signals) /\ Range(signals') \subseteq Range(signals)
        BY <1>h, <2>1, RangeTail DEF s
    <3> QED BY <1>h, <2>1, <3>1, <3>2 DEF TypeSignals
  <2>5. /\ FetchCalls' = FetchCalls /\ PageSignals' = PageSignals /\ NamedCalls' = NamedCalls
        /\ FlagSignals' = FlagSignals /\ TypeSignals' = TypeSignals
        /\ RegisterCall' = RegisterCall
      BY <2>4, SameSets
  <2>6. NoneIn(signals', PageSignals) /\ NoneIn(signals', FlagSignals)
      BY <2>3, <2>4, FewTail
  <2>7. /\ f \notin NamedCalls /\ c \notin NamedCalls
        /\ f # RegisterCall /\ c # RegisterCall
        /\ Range(calls') \subseteq Range(calls) \cup {f, c}
      BY <1>4, Confirms, CallKinds DEF FetchCall, SetupFilterCall
  <2>8. Steady => Steady' /\ contentType' = contentType
    <3>1. SUFFICES ASSUME Steady PROVE Steady' /\ contentType' = contentType
        OBVIOUS
    <3>2. s.type = requested
        BY <2>4, <3>1 DEF Steady
    <3>3. contentType' = contentType
        BY <2>1, <3>1, <3>2 DEF Steady
    <3> HIDE DEF c, f
    <3> QED BY <2>1, <2>4, <2>7, <3>1, <3>3, SteadyStays
  \* the page asked for is of the content type confirmed, unless another one is
  \* on its way
  <2>9. NoneIn(calls', NamedCalls) /\ NoneIn(signals', TypeSignals) => Steady'
    <3>1. TypeOK' /\ AgreeInv' /\ ShownInv' /\ initialized'
        BY <2>4, TypeModel, AgreeModel, ShownModel
    <3>2. NoneIn(calls, NamedCalls)' /\ NoneIn(signals, TypeSignals)' => Steady'
        BY <3>1, SteadyNow, PTL
    <3> QED BY <2>5, <3>2 DEF NoneIn
  <2>10. Free(calls', FetchCalls, NamedCalls) => NoneIn(calls', NamedCalls)
    <3>1. PICK t \in Seq(Call) : calls' = Append(t, c) /\ NoneIn(t, FetchCalls)
      <4>1. CASE Parsed = {}
          BY <1>4, <2>3, <2>4, <4>1, Confirms
      <4>2. CASE Parsed # {}
        <5>1. f \in Call /\ Append(calls, f) \in Seq(Call)
              /\ calls' = Append(Append(calls, f), c) /\ f \notin FetchCalls
            BY <1>4, <4>2, Confirms, CallKinds DEF SetupFilterCall
        <5> HIDE DEF c, f
        <5>2. NoneIn(Append(calls, f), FetchCalls)
            BY <2>3, <2>4, <5>1, FewAppend
        <5> QED BY <5>1, <5>2
      <4> QED BY <4>1, <4>2
    <3>2. c \in Call
        BY <1>4, Confirms
    <3> HIDE DEF c
    <3>3. Free(Append(t, c), FetchCalls, NamedCalls) => NoneIn(t, NamedCalls)
        BY <3>1, <3>2, FreeAppend, FreeOfNone
    <3> QED BY <2>7, <3>1, <3>2, <3>3, FewAppend
  <2>11. FlagsSteady'
    <3>1. FlagsSteady
        BY <2>2 DEF FlagInv
    <3>2. ASSUME NEW i \in DOMAIN canGoForward', Flagged(i)'
          PROVE  Steady' /\ contentType' \in Browsable
        BY <2>1, <2>8, <3>1, <3>2 DEF FlagsSteady, Flagged
    <3>3. ~Free(signals', FlagSignals, TypeSignals)
        BY <2>6, FreeOfNone
    <3>4. \A j \in Range(jobs') : j.id # identifier
        BY <2>3, <2>4
    <3>5. Free(calls', FetchCalls, NamedCalls) /\ NoneIn(signals', TypeSignals) => Steady'
        BY <2>9, <2>10
    <3>6. /\ Free(signals, FlagSignals, TypeSignals)' <=> Free(signals', FlagSignals, TypeSignals)
          /\ Free(calls, FetchCalls, NamedCalls)' <=> Free(calls', FetchCalls, NamedCalls)
          /\ NoneIn(signals, TypeSignals)' <=> NoneIn(signals', TypeSignals)
        BY <2>5 DEF Free, NoneIn
    <3> QED BY <2>4, <3>2, <3>3, <3>4, <3>5, <3>6 DEF FlagsSteady
  <2>12. FlagsComplete'
    <3>1. \A t \in Range(signals') : t \notin PageSignals
        BY <2>6 DEF NoneIn, Range
    <3>2. DOMAIN itemList' = {}
        BY <2>1
    <3> QED BY <2>5, <3>1, <3>2 DEF FlagsComplete
  <2> QED BY <2>11, <2>12
<1> QED BY <1>1, <1>2, <1>3, <1>4, <1>5, <1>6, <1>7 DEF Model

\* The content type the backend has for the session after a call.
LEMMA ServedType ==
    ASSUME TypeOK, SessionInv, Backend
    PROVE  \/ state'[identifier].contentType = state[identifier].contentType
           \/ /\ Head(calls) = RegisterCall /\ state'[identifier].contentType = NoType
           \/ /\ Head(calls) \in SetCalls
              /\ state'[identifier].contentType = Head(calls).type
<1>1. /\ identifier \in Session /\ state \in [Session -> State]
      /\ Head(calls) \in Call /\ Caller = Head(calls).id
    BY BackendServes DEF TypeOK
<1>2. CASE RegisterInstance
  <2>1. CASE Caller = identifier
    <3>1. Head(calls) = RegisterCall
        BY <1>1, <1>2, <2>1, IsRegisterCall DEF RegisterInstance, Take
    <3> QED BY <1>1, <1>2, <2>1, <3>1 DEF RegisterInstance, Fresh
  <2>2. CASE Caller # identifier
      BY <1>1, <1>2, <2>2 DEF RegisterInstance
  <2> QED BY <2>1, <2>2
<1>3. CASE UnregisterInstance
  <2>1. Head(calls).kind = "unregisterInstance" /\ Head(calls) \in Range(calls)
      BY <1>3, BackendServes DEF UnregisterInstance, Take
  <2>2. Caller # identifier
      BY <1>1, <2>1 DEF SessionInv, IdsKnown
  <2> QED BY <1>1, <1>3, <2>2 DEF UnregisterInstance
<1>4. CASE ServeSetContentType
  <2>1. CASE Caller = identifier
    <3>1. Head(calls) \in SetCalls
        BY <1>1, <1>4, <2>1 DEF ServeSetContentType, Take, SetCalls
    <3> QED BY <1>1, <1>4, <2>1, <3>1 DEF ServeSetContentType, State
  <2>2. CASE Caller # identifier
      BY <1>1, <1>4, <2>2 DEF ServeSetContentType
  <2> QED BY <2>1, <2>2
<1>5. CASE ServeSetupFilter
    BY <1>1, <1>5 DEF ServeSetupFilter, State
<1>6. CASE ServeFetchData \/ ServeGoBack \/ ServeGoForward
    BY <1>6 DEF ServeFetchData, ServeGoBack, ServeGoForward
<1> QED BY <1>2, <1>3, <1>4, <1>5, <1>6 DEF Backend

\* What a session is told for a call.
Told(c) ==
    /\ Range(signals) \subseteq Range(signals')
    /\ \A s \in Range(signals') : s \in PageSignals => s \in Range(signals)
    /\ \A s \in Range(signals') : s \in TypeSignals =>
           s \in Range(signals) \/ (c \in NamedCalls /\ s.type = c.type)
    /\ Free(signals', FlagSignals, TypeSignals) => Free(signals, FlagSignals, TypeSignals)
    /\ NoneIn(signals', TypeSignals) => NoneIn(signals, TypeSignals) /\ c \notin NamedCalls

LEMMA FlagBackend ==
    TypeOK /\ SessionInv /\ ShownInv /\ FlagInv /\ Backend => FlagInv'
<1> SUFFICES ASSUME TypeOK, SessionInv, ShownInv, FlagInv, Backend PROVE FlagInv'
    OBVIOUS
<1> USE DEF modelVars, sessionVars
<1> DEFINE c == Head(calls)
<1>1. /\ calls \in Seq(Call) /\ calls # <<>> /\ calls' = Tail(calls)
      /\ c \in Call /\ Caller = c.id /\ c \in Range(calls)
      /\ Range(calls') \subseteq Range(calls)
      /\ UNCHANGED <<identifier, contentType, requested, canGoForward, itemList, stale>>
    BY BackendServes
<1>2. /\ signals \in Seq(Signal) /\ jobs \in Seq(Job) /\ identifier \in Session
    BY DEF TypeOK
<1> SUFFICES ASSUME stale = {} PROVE FlagsSteady' /\ FlagsComplete'
    BY <1>1 DEF FlagInv
<1>3. FlagsSteady /\ FlagsComplete
    BY DEF FlagInv
\* what the session hears
<1>4. Told(c)
  <2>1. CASE /\ signals' = signals
             /\ c.kind = "setContentType" => c.type \notin Types
    <3>1. c \notin NamedCalls
        BY <2>1, CallKinds DEF NamedCalls
    <3> QED BY <2>1, <3>1 DEF Told
  <2>2. ASSUME NEW x \in Signal, signals' = Append(signals, x),
               c.kind # "setContentType",
               x.kind \in {"supportedCapabilitiesChanged", "reply"}
        PROVE  Told(c)
    <3>1. x \notin PageSignals /\ x \notin TypeSignals /\ x \notin FlagSignals
        BY <2>2 DEF PageSignals, TypeSignals, FlagSignals
    <3>2. Range(Append(signals, x)) = Range(signals) \cup {x}
        BY <1>2, RangeAppend
    <3>3. Free(Append(signals, x), FlagSignals, TypeSignals) =>
              Free(signals, FlagSignals, TypeSignals)
        BY <1>2, <3>1, FreeAppend
    <3>4. NoneIn(Append(signals, x), TypeSignals) => NoneIn(signals, TypeSignals)
        BY <1>2, NoneAppend
    <3>5. c \notin NamedCalls
        BY <2>2, CallKinds
    <3> QED BY <2>2, <3>1, <3>2, <3>3, <3>4, <3>5 DEF Told
  <2>3. ASSUME NEW b \in Signal, NEW m \in Signal,
               signals' = Append(Append(signals, b), m),
               Append(signals, b) \in Seq(Signal),
               b.kind = "canGoBackChanged", m.kind = "contentTypeChanged",
               m.id = Caller, m.type = c.type,
               c.kind = "setContentType", c.type \in Types
        PROVE  Told(c)
    <3> DEFINE more == Append(signals, b)
    <3>1. /\ b \notin PageSignals /\ b \notin TypeSignals /\ b \notin FlagSignals
          /\ m \notin PageSignals /\ m \notin FlagSignals
          /\ m \in TypeSignals <=> Caller = identifier
        BY <2>3 DEF PageSignals, TypeSignals, FlagSignals
    <3>2. Range(Append(more, m)) = Range(signals) \cup {b, m}
        BY <1>2, <2>3, RangeAppendTwo
    <3>3. Free(more, FlagSignals, TypeSignals) => Free(signals, FlagSignals, TypeSignals)
        BY <1>2, <3>1, FreeAppend
    <3>4. NoneIn(more, TypeSignals) => NoneIn(signals, TypeSignals)
        BY <1>2, NoneAppend
    <3>5. c \in NamedCalls <=> Caller = identifier
        BY <1>1, <2>3 DEF NamedCalls, SetCalls
    <3> HIDE DEF more, c
    <3>6. Free(Append(more, m), FlagSignals, TypeSignals) =>
              Free(more, FlagSignals, TypeSignals)
        BY <2>3, <3>1, FreeAppend DEF more
    <3>7. NoneIn(Append(more, m), TypeSignals) =>
              NoneIn(more, TypeSignals) /\ m \notin TypeSignals
        BY <2>3, NoneAppend DEF more
    <3>8. signals' = Append(more, m)
        BY <2>3 DEF more
    <3> QED BY <2>3, <3>1, <3>2, <3>3, <3>4, <3>5, <3>6, <3>7, <3>8 DEF Told
  <2> QED BY <2>1, <2>2, <2>3, BackendTells
<1>t. /\ Range(signals) \subseteq Range(signals')
      /\ \A s \in Range(signals') : s \in PageSignals => s \in Range(signals)
      /\ \A s \in Range(signals') : s \in TypeSignals =>
             s \in Range(signals) \/ (c \in NamedCalls /\ s.type = c.type)
      /\ Free(signals', FlagSignals, TypeSignals) => Free(signals, FlagSignals, TypeSignals)
      /\ NoneIn(signals', TypeSignals) => NoneIn(signals, TypeSignals) /\ c \notin NamedCalls
    BY <1>4 DEF Told
<1>5. Steady => Steady'
  <2>1. SUFFICES ASSUME Steady PROVE Steady'
      OBVIOUS
  <2>2. c \in NamedCalls => c.type = requested
      BY <1>1, <2>1 DEF Steady
  <2>3. state'[identifier].contentType = state[identifier].contentType
    <3>1. CASE c = RegisterCall /\ state'[identifier].contentType = NoType
        BY <1>1, <2>1, <3>1 DEF Steady
    <3>2. CASE c \in SetCalls /\ state'[identifier].contentType = c.type
      <4>1. CASE c \in NamedCalls
          BY <2>1, <2>2, <3>2, <4>1 DEF Steady
      <4>2. CASE c \in UnnamedCalls
        <5>1. ~NoneIn(calls, UnnamedCalls)
            BY <1>1, <4>2, FewTail
        <5>2. contentType = NoType
            BY <5>1 DEF ShownInv, Unnamed
        <5>3. c.type \in Paths
            BY <1>1, <3>2, CallFields, CallKinds
        <5>4. c.type = NoType
            BY <4>2, <5>3 DEF UnnamedCalls, Paths
        <5> QED BY <2>1, <3>2, <5>2, <5>4 DEF Steady
      <4> QED BY <3>2, <4>1, <4>2, CallKinds
    <3> QED BY <3>1, <3>2, ServedType
  <2> QED BY <1>1, <1>t, <2>1, <2>2, <2>3, SteadyStays
\* a page on its way to the backend
<1>6. ASSUME NoneIn(signals', TypeSignals), Free(calls', FetchCalls, NamedCalls)
      PROVE  Free(calls, FetchCalls, NamedCalls) /\ (Lost => Lost')
  <2>1. Free(calls, FetchCalls, NamedCalls)
      BY <1>1, <1>t, <1>6, FreeTail
  <2>2. ASSUME Lost PROVE Lost'
    <3>1. NoneBehind(calls', OtherCalls, FetchCalls)
          /\ (c \in OtherCalls => NoneIn(calls', FetchCalls))
        BY <1>1, <2>2, BehindTail DEF Lost
    <3>2. c \notin OtherCalls
        BY <1>6, <3>1, FreeOfNone
    <3>3. Caller # identifier \/ c.kind = "fetchData"
        BY <1>1, <3>2 DEF OtherCalls
    <3>4. identifier \notin instances'
        BY <2>2, <3>3, BackendServes DEF Lost
    <3>5. \A j \in Range(jobs') : j.id # identifier
      <4>1. ASSUME NEW j \in Job, jobs' = Append(jobs, j), j.id = Caller, Caller \in instances
            PROVE  \A i \in Range(jobs') : i.id # identifier
        <5>1. Range(jobs') = Range(jobs) \cup {j}
            BY <1>2, <4>1, RangeAppend
        <5> QED BY <2>2, <4>1, <5>1 DEF Lost
      <4>2. CASE jobs' = jobs
          BY <2>2, <4>2 DEF Lost
      <4> QED BY <4>1, <4>2, BackendServes
    <3> QED BY <1>1, <2>2, <3>1, <3>4, <3>5, LostKept
  <2> QED BY <2>1, <2>2
\* a page that is searched for now
<1>7. ASSUME NoneIn(signals', TypeSignals), NEW j \in Range(jobs'), j.id = identifier
      PROVE  \/ j \in Range(jobs)
             \/ Steady /\ j.type = contentType
  <2>1. CASE jobs' = jobs
      BY <1>7, <2>1
  <2>2. ASSUME NEW i \in Job, jobs' = Append(jobs, i), i.id = Caller, Caller \in instances,
               i.type = state[Caller].contentType, c.kind = "fetchData"
        PROVE  j \in Range(jobs) \/ (Steady /\ j.type = contentType)
    <3>1. Range(jobs') = Range(jobs) \cup {i}
        BY <1>2, <2>2, RangeAppend
    <3>2. CASE j = i
      <4>1. c \in FetchCalls /\ Caller = identifier
          BY <1>1, <1>7, <2>2, <3>2 DEF FetchCalls
      <4>2. Free(calls, FetchCalls, NamedCalls)
          BY <1>1, <4>1, FreeHead
      <4>3. Steady
          BY <1>3, <1>t, <1>7, <2>2, <4>1, <4>2 DEF FlagsSteady, Lost
      <4> QED BY <2>2, <3>2, <4>1, <4>3 DEF Steady
    <3> QED BY <1>7, <3>1, <3>2
  <2> QED BY <2>1, <2>2, BackendServes
<1>8. SameSteady
  <2>1. \A i \in DOMAIN canGoForward' : canGoForward'[i] => Flagged(i)
      BY <1>1 DEF Flagged
  <2> HIDE DEF c
  <2> QED BY <1>1, <1>t, <1>5, <1>6, <1>7, <2>1 DEF SameSteady
<1>9. SameComplete
  <2>1. Unchallenged' => Unchallenged
    <3>1. NamedCalls' = NamedCalls /\ TypeSignals' = TypeSignals
        BY <1>1, SameSets
    <3> QED BY <3>1, BackendNames DEF Unchallenged
  <2>2. \A j \in Range(jobs) : j \in Range(jobs')
    <3>1. ASSUME NEW i \in Job, jobs' = Append(jobs, i)
          PROVE  \A j \in Range(jobs) : j \in Range(jobs')
      <4>1. Range(jobs') = Range(jobs) \cup {i}
          BY <1>2, <3>1, RangeAppend
      <4> QED BY <4>1
    <3> QED BY <3>1, BackendServes
  <2>3. \A start, count \in Nat : Flagging(start, count) => Flagging(start, count)'
      BY <1>1, <1>t, <2>2, FlaggingKept
  <2> QED BY <1>1, <1>t, <2>1, <2>3 DEF SameComplete, Flagged
<1> QED BY <1>3, <1>8, <1>9, SteadyKept, CompleteKept

LEMMA FlagSearch == TypeOK /\ WorkInv /\ RowsInv /\ FlagInv /\ Search => FlagInv'
<1> SUFFICES ASSUME TypeOK, WorkInv, RowsInv, FlagInv, Search PROVE FlagInv'
    OBVIOUS
<1> USE DEF modelVars, sessionVars
<1> DEFINE job == Head(jobs)
           b == Begun(job)
           p == [kind |-> "dataFetched", id |-> job.id, items |-> Page(job),
                 start |-> job.start, more |-> HasMore(Page(job))]
           n == Len(itemList)
           k == Len(Page(job))
<1>1. /\ jobs # <<>> /\ ~job.fetched /\ signals' = Append(signals, p)
      /\ UNCHANGED <<identifier, contentType, requested, canGoForward, itemList, calls,
                     state, instances, stale>>
    BY DEF Search
<1> SUFFICES ASSUME stale = {} PROVE FlagsSteady' /\ FlagsComplete'
    BY <1>1 DEF FlagInv
<1>2. /\ job \in Job /\ job \in Range(jobs)
      /\ \A j \in Range(jobs) : j.fetched => j = job
    BY <1>1, BegunFirst
<1>3. \A j \in Range(jobs) : ~j.fetched
    BY <1>1, <1>2
<1>4. /\ b \in Range(jobs') /\ b \in Job
      /\ \A j \in Range(jobs') : j = b \/ j \in Range(jobs)
    BY SearchLeaves DEF Range
<1>5. /\ job.id \in Session /\ job.start \in Nat /\ Page(job) \in Seq(Rows)
      /\ k \in Nat /\ n \in Nat
      /\ b.id = job.id /\ b.start = job.start /\ b.fetched /\ Page(b) = Page(job)
      /\ b.type = job.type
    BY <1>2, JobFields, BegunPage, LenProperties DEF TypeOK, Begun, Job
<1>6. /\ p \in Signal /\ p.id = job.id /\ p.items = Page(job)
      /\ (p \in PageSignals <=> job.id = identifier)
      /\ p \notin TypeSignals /\ p \notin FlagSignals
    BY <1>5 DEF Signal, HasMore, PageSignals, TypeSignals, FlagSignals
<1>7. /\ signals \in Seq(Signal) /\ PageSignals' = PageSignals
      /\ NamedCalls' = NamedCalls /\ TypeSignals' = TypeSignals
      /\ FlagSignals' = FlagSignals /\ BegunJobs' = BegunJobs
    BY <1>1, SameSets, SameBegun DEF TypeOK
<1>8. FlagsSteady /\ FlagsComplete /\ OnePage /\ PagesFit
    BY DEF FlagInv, RowsInv
<1> HIDE DEF job, b, p
<1>9. /\ Range(signals') = Range(signals) \cup {p}
      /\ Free(signals', FlagSignals, TypeSignals) => Free(signals, FlagSignals, TypeSignals)
      /\ NoneIn(signals', TypeSignals) => NoneIn(signals, TypeSignals)
    BY <1>1, <1>6, <1>7, RangeAppend, FreeAppend, NoneAppend
<1>10. Steady => Steady'
    BY <1>1, <1>6, <1>9, SteadyStays
<1>11. Lost => Lost'
  <2>1. SUFFICES ASSUME Lost PROVE Lost'
      OBVIOUS
  <2>2. \A j \in Range(jobs') : j.id # identifier
      BY <1>2, <1>4, <1>5, <2>1 DEF Lost
  <2> QED BY <1>1, <2>1, <2>2, LostKept DEF Lost
<1>12. SameSteady
  <2>1. ASSUME NEW j \in Range(jobs'), j.id = identifier
        PROVE  \E i \in Range(jobs) : i.id = identifier /\ i.type = j.type
      BY <1>2, <1>4, <1>5, <2>1
  <2> QED BY <1>1, <1>9, <1>10, <1>11, <2>1 DEF SameSteady, Flagged
<1>13. Unchallenged' => Unchallenged
    BY <1>1, <1>7, <1>9 DEF Unchallenged
<1>14. \A start, count \in Nat : Flagging(start, count) => Flagging(start, count)'
    BY <1>1, <1>3, <1>9, FlaggingKept DEF BegunJobs
<1>15. CASE job.id # identifier
  <2>1. SameComplete
      BY <1>1, <1>6, <1>9, <1>13, <1>14, <1>15 DEF SameComplete, Flagged
  <2> QED BY <1>8, <1>12, <2>1, SteadyKept, CompleteKept
<1>16. CASE job.id = identifier
  <2>1. job \in OpenJobs
      BY <1>1, <1>2, <1>16 DEF OpenJobs
  <2>2. job.start = n /\ NoneIn(signals, PageSignals)
      BY <1>2, <1>8, <2>1 DEF PagesFit, OnePage, NoneIn, Range
  <2>3. \A s \in Range(signals') : s \in PageSignals => s = p
      BY <1>9, <2>2 DEF NoneIn, Range
  \* the page that comes is of the content type there is
  <2>4. ASSUME contentType \in Browsable, Unchallenged
        PROVE  b \in BegunJobs /\ b.type \in Browsable /\ b.start = n /\ Len(Page(b)) = k
      BY <1>2, <1>4, <1>5, <1>8, <1>16, <2>2, <2>4 DEF FlagsSteady, Unchallenged, BegunJobs
  <2>5. PICK a \in Nat, m \in Nat : a = n /\ m = k
      BY <1>5
  <2>6. ASSUME contentType \in Browsable, Unchallenged
        PROVE  Flagging(a, m)'
    <3>1. b \in Range(jobs') /\ b \in BegunJobs' /\ b.type \in Browsable /\ b.start = a
          /\ Len(Page(b)) = m
        BY <1>4, <1>7, <2>4, <2>5, <2>6
    <3> QED BY <3>1 DEF Flagging, Page, Listing
  <2>7. ASSUME contentType \in Browsable, Unchallenged, NEW i \in DOMAIN itemList
        PROVE  \/ Flagged(i)'
               \/ \E start, count \in Nat : /\ start < i /\ i <= start + count
                                            /\ Flagging(start, count)'
    <3>1. \/ Flagged(i)
          \/ \E start, count \in Nat : /\ start < i /\ i <= start + count
                                       /\ Flagging(start, count)
        BY <1>8, <2>7 DEF FlagsComplete
    <3>2. Flagged(i) => Flagged(i)'
        BY <1>1 DEF Flagged
    <3> QED BY <1>14, <3>1, <3>2
  <2>8. ASSUME contentType \in Browsable, Unchallenged,
               NEW s \in Range(signals'), s \in PageSignals
        PROVE  Flagging(Len(itemList), Len(s.items))'
    <3>1. s = p /\ Len(s.items) = m /\ Len(itemList') = a
        BY <1>1, <1>6, <2>3, <2>5, <2>8
    <3> QED BY <2>6, <2>8, <3>1 DEF Flagging
  <2>9. FlagsComplete'
      BY <1>1, <1>7, <1>13, <2>7, <2>8 DEF FlagsComplete, Flagging
  <2> QED BY <1>8, <1>12, <2>9, SteadyKept
<1> QED BY <1>15, <1>16

LEMMA FlagRecord == TypeOK /\ WorkInv /\ FlagInv /\ Record => FlagInv'
<1> SUFFICES ASSUME TypeOK, WorkInv, FlagInv, Record PROVE FlagInv'
    OBVIOUS
<1> USE DEF modelVars, sessionVars
<1> DEFINE job == Head(jobs)
           f == [kind |-> "canGoForwardChanged", id |-> job.id,
                 start |-> FirstFlag(job), count |-> Len(Page(job))]
<1>1. /\ jobs # <<>> /\ job.fetched /\ jobs' = Tail(jobs)
      /\ signals' = IF job.type \in Browsable THEN Append(signals, f) ELSE signals
      /\ state' = [state EXCEPT ![job.id].items = Kept(@, Page(job), job.start)]
      /\ instances' = instances \cup {job.id}
      /\ UNCHANGED <<identifier, contentType, requested, canGoForward, itemList, calls, stale>>
    BY DEF Record
<1> SUFFICES ASSUME stale = {} PROVE FlagsSteady' /\ FlagsComplete'
    BY <1>1 DEF FlagInv
<1>2. /\ job \in Job /\ job \in Range(jobs) /\ jobs \in Seq(Job)
      /\ \A j \in Range(jobs) : j.fetched => j = job
      /\ \A j \in Range(jobs') : j \in Range(jobs) /\ ~j.fetched
    BY <1>1, BegunFirst
<1>3. job.id \in Session /\ job.start \in Nat /\ Len(Page(job)) \in Nat
    BY <1>2, JobFields
<1>4. /\ f \in Signal /\ f \notin PageSignals /\ f \notin TypeSignals
      /\ f \in FlagSignals <=> job.id = identifier
      /\ f.start = job.start /\ f.count = Len(Page(job))
    BY <1>3 DEF Signal, FirstFlag, PageSignals, TypeSignals, FlagSignals
<1>5. /\ signals \in Seq(Signal) /\ identifier \in Session /\ state \in [Session -> State]
      /\ PageSignals' = PageSignals /\ NamedCalls' = NamedCalls /\ TypeSignals' = TypeSignals
      /\ FlagSignals' = FlagSignals
    BY <1>1, SameSets DEF TypeOK
<1>6. FlagsSteady /\ FlagsComplete
    BY DEF FlagInv
<1> HIDE DEF job, f
<1>7. /\ Range(signals) \subseteq Range(signals')
      /\ Range(signals') \subseteq Range(signals) \cup {f}
      /\ job.type \in Browsable => f \in Range(signals')
      /\ Free(signals', FlagSignals, TypeSignals) =>
             \/ Free(signals, FlagSignals, TypeSignals)
             \/ job.type \in Browsable /\ job.id = identifier /\ NoneIn(signals, TypeSignals)
      /\ NoneIn(signals', TypeSignals) => NoneIn(signals, TypeSignals)
  <2>1. CASE job.type \in Browsable
    <3>1. Range(Append(signals, f)) = Range(signals) \cup {f}
        BY <1>4, <1>5, RangeAppend
    <3>2. Free(Append(signals, f), FlagSignals, TypeSignals) =>
              Free(signals, FlagSignals, TypeSignals)
                  \/ (f \in FlagSignals /\ NoneIn(signals, TypeSignals))
        BY <1>4, <1>5, FreeAppend
    <3>3. NoneIn(Append(signals, f), TypeSignals) => NoneIn(signals, TypeSignals)
        BY <1>4, <1>5, NoneAppend
    <3> QED BY <1>1, <1>4, <2>1, <3>1, <3>2, <3>3
  <2>2. CASE job.type \notin Browsable
      BY <1>1, <2>2
  <2> QED BY <2>1, <2>2
<1>8. Steady => Steady'
  <2>1. state'[identifier].contentType = state[identifier].contentType
      BY <1>1, <1>3, <1>5 DEF State
  <2>2. \A s \in Range(signals') : s \in TypeSignals => s \in Range(signals)
      BY <1>4, <1>7
  <2> QED BY <1>1, <2>1, <2>2, SteadyStays
<1>9. Lost => Lost'
  <2>1. SUFFICES ASSUME Lost PROVE Lost'
      OBVIOUS
  <2>2. identifier \notin instances' /\ \A j \in Range(jobs') : j.id # identifier
      BY <1>1, <1>2, <2>1 DEF Lost
  <2> QED BY <1>1, <2>1, <2>2, LostKept DEF Lost
<1>10. SameSteady
  <2>1. job.id = identifier /\ NoneIn(signals, TypeSignals) => Steady /\ job.type = contentType
      BY <1>2, <1>6 DEF FlagsSteady
  <2>2. \A j \in Range(jobs') : j.id = identifier =>
            \E i \in Range(jobs) : i.id = identifier /\ i.type = j.type
      BY <1>2
  <2>3. \A i \in DOMAIN canGoForward' : canGoForward'[i] => Flagged(i)
      BY <1>1 DEF Flagged
  <2> QED BY <1>1, <1>7, <1>8, <1>9, <2>1, <2>2, <2>3 DEF SameSteady
\* the flags of the page recorded now are sent
<1>11. ASSUME NEW start \in Nat, NEW count \in Nat, Flagging(start, count)
       PROVE  Flagging(start, count)'
  <2>1. CASE \E j \in Range(jobs) : /\ j \in BegunJobs /\ j.type \in Browsable
                                    /\ j.start = start /\ Len(Page(j)) = count
    <3>1. /\ job.type \in Browsable /\ job.start = start /\ Len(Page(job)) = count
          /\ job.id = identifier
        BY <1>2, <2>1 DEF BegunJobs
    <3>2. f \in Range(signals') /\ f \in FlagSignals' /\ f.start = start /\ f.count = count
        BY <1>4, <1>5, <1>7, <3>1
    <3> QED BY <3>2 DEF Flagging
  <2>2. CASE \E g \in Range(signals) : /\ g \in FlagSignals
                                       /\ g.start = start /\ g.count = count
      BY <1>5, <1>7, <2>2 DEF Flagging
  <2> QED BY <1>11, <2>1, <2>2 DEF Flagging
<1>12. SameComplete
  <2>1. Unchallenged' => Unchallenged
      BY <1>1, <1>5, <1>7 DEF Unchallenged
  <2> QED BY <1>1, <1>4, <1>7, <1>11, <2>1 DEF SameComplete, Flagged
<1> QED BY <1>6, <1>10, <1>12, SteadyKept, CompleteKept

LEMMA FlagNext ==
    TypeOK /\ SessionInv /\ AgreeInv /\ ShownInv /\ WorkInv /\ RowsInv /\ FlagInv
        /\ [Next]_vars => FlagInv'
<1> SUFFICES ASSUME TypeOK, SessionInv, AgreeInv, ShownInv, WorkInv, RowsInv, FlagInv,
                    [Next]_vars
             PROVE  FlagInv'
    OBVIOUS
<1>1. CASE UNCHANGED vars
  <2>1. /\ UNCHANGED <<connected, identifier, contentType, requested, canGoForward, itemList,
                       calls, jobs, signals, state, instances, stale>>
      BY <1>1 DEF vars, modelVars, sessionVars, backendVars
  <2>2. SameSteady
    <3>1. Steady => Steady'
        BY <2>1, SteadyStays
    <3>2. Lost => Lost'
        BY <2>1, SameSets, SameBegun DEF Lost
    <3> QED BY <2>1, <3>1, <3>2 DEF SameSteady, Flagged
  <2>3. SameComplete
    <3>1. \A start, count \in Nat : Flagging(start, count) => Flagging(start, count)'
        BY <2>1, FlaggingKept
    <3>2. Unchallenged' => Unchallenged
        BY <2>1, SameSets DEF Unchallenged
    <3> QED BY <2>1, <3>1, <3>2 DEF SameComplete, Flagged
  <2> QED BY <2>1, <2>2, <2>3, SteadyKept, CompleteKept DEF FlagInv
<1> QED BY <1>1, FlagUser, FlagModel, FlagBackend, FlagSearch, FlagRecord DEF Next

\* Calls to go forward among others, as calls come and go.
LEMMA LeadingAppend ==
    ASSUME NEW s \in Seq(Call), Leading(s), NEW c \in Call,
           c \in Forwards => Led(c) /\ \A j \in DOMAIN s : ~Alters(s[j], c.id)
    PROVE  Leading(Append(s, c))
<1>1. /\ \A i \in DOMAIN s : i \in Nat /\ i < Len(s) + 1
      /\ \A i \in DOMAIN Append(s, c) :
            \/ i \in DOMAIN s /\ Append(s, c)[i] = s[i]
            \/ i = Len(s) + 1 /\ Append(s, c)[i] = c
      /\ Len(s) \in Nat
    BY AppendAt, LenProperties
<1> DEFINE t == Append(s, c)
<1> HIDE DEF t
<1>2. ASSUME NEW k \in DOMAIN t, t[k] \in Forwards
      PROVE  Led(t[k]) /\ \A j \in DOMAIN t : j < k => ~Alters(t[j], t[k].id)
  <2>1. CASE k \in DOMAIN s /\ t[k] = s[k]
    <3>1. ASSUME NEW j \in DOMAIN t, j < k PROVE j \in DOMAIN s /\ t[j] = s[j]
        BY <1>1, <2>1, <3>1 DEF t
    <3> QED BY <1>2, <2>1, <3>1 DEF Leading
  <2>2. CASE k = Len(s) + 1 /\ t[k] = c
    <3>1. ASSUME NEW j \in DOMAIN t, j < k PROVE j \in DOMAIN s /\ t[j] = s[j]
        BY <1>1, <2>2, <3>1 DEF t
    <3> QED BY <1>2, <2>2, <3>1
  <2> QED BY <1>1, <1>2, <2>1, <2>2 DEF t
<1> QED BY <1>2 DEF Leading, t

LEMMA LeadingTail ==
    ASSUME NEW s \in Seq(Call), s # <<>>, Leading(s)
    PROVE  /\ Leading(Tail(s))
           /\ \A c \in Range(s) : c \in Forwards => Led(c)
           /\ \A c \in Range(Tail(s)) : c \in Forwards => ~Alters(Head(s), c.id)
<1>1. /\ 1 \in DOMAIN s /\ Head(s) = s[1]
      /\ \A i \in DOMAIN Tail(s) :
            i \in Nat /\ i > 0 /\ i + 1 \in DOMAIN s /\ Tail(s)[i] = s[i + 1]
    BY TailAt
<1> DEFINE t == Tail(s)
<1> HIDE DEF t
<1>2. ASSUME NEW k \in DOMAIN t, t[k] \in Forwards
      PROVE  /\ Led(t[k]) /\ ~Alters(Head(s), t[k].id)
             /\ \A j \in DOMAIN t : j < k => ~Alters(t[j], t[k].id)
  <2>1. k \in Nat /\ k > 0 /\ k + 1 \in DOMAIN s /\ t[k] = s[k + 1] /\ 1 < k + 1
      BY <1>1, <1>2 DEF t
  <2>2. ASSUME NEW j \in DOMAIN t, j < k
        PROVE  j + 1 \in DOMAIN s /\ t[j] = s[j + 1] /\ j + 1 < k + 1
      BY <1>1, <2>1, <2>2 DEF t
  <2> QED BY <1>1, <1>2, <2>1, <2>2 DEF Leading
<1>3. Leading(t)
    BY <1>2 DEF Leading
<1>4. \A c \in Range(s) : c \in Forwards => Led(c)
    BY DEF Leading, Range
<1>5. \A c \in Range(t) : c \in Forwards => ~Alters(Head(s), c.id)
    BY <1>2 DEF Range
<1> QED BY <1>3, <1>4, <1>5 DEF t

\* A step that leaves alone what the calls lead to.
LEMMA LeadingKept ==
    ASSUME TypeOK, NEW s \in Seq(Call), Leading(s),
           \A c \in Range(s) : c \in Forwards =>
               /\ state'[c.id].contentType = state[c.id].contentType
               /\ state'[c.id].items = state[c.id].items
               /\ \A j \in Range(jobs') : j.id # c.id
    PROVE  Leading(s)'
<1>1. Forwards' = Forwards
    BY DEF Forwards
<1>2. ASSUME NEW k \in DOMAIN s, s[k] \in Forwards
      PROVE  Led(s[k])' /\ \A j \in DOMAIN s : j < k => ~Alters(s[j], s[k].id)'
  <2>1. PICK c \in Call : c = s[k]
      BY <1>2 DEF Forwards
  <2>2. /\ state'[c.id].contentType = state[c.id].contentType
        /\ state'[c.id].items = state[c.id].items
        /\ \A j \in Range(jobs') : j.id # c.id
      BY <1>2, <2>1 DEF Range
  <2>3. Led(c) => Led(c)'
      BY <2>2 DEF Led, Forward
  <2>4. ASSUME NEW b, ~Alters(b, c.id) PROVE ~Alters(b, c.id)'
      BY <2>2, <2>4 DEF Alters
  <2>5. Led(c) /\ \A j \in DOMAIN s : j < k => ~Alters(s[j], c.id)
      BY <1>2, <2>1 DEF Leading
  <2>6. Led(c)' /\ \A j \in DOMAIN s : j < k => ~Alters(s[j], c.id)'
      BY <2>3, <2>4, <2>5
  <2> QED BY <2>1, <2>6
<1> QED BY <1>1, <1>2 DEF Leading

\* The replies there are, and others that lead where they should.
LEMMA GoesKept ==
    ASSUME GoesWhereShown,
           \A s \in Range(signals') : \/ s \in Range(signals)
                                      \/ s.kind # "reply"
                                      \/ s.expected = NoType
                                      \/ s.type = s.expected
    PROVE  GoesWhereShown'
BY DEF GoesWhereShown, Range

LEMMA ForwardInit == Init => ForwardInv
BY DEF Init, ForwardInv, GoesWhereShown, Leading

\* The calls grow, by calls that are not to go forward or lead where they
\* should, while the backend stands still.
LEMMA ForwardGrows ==
    ASSUME TypeOK, ForwardInv, UNCHANGED <<state, jobs>>, Leading(calls'),
           calls' \in Seq(Call), Range(signals') \subseteq Range(signals)
    PROVE  ForwardInv'
<1>1. PICK t \in Seq(Call) : t = calls'
    OBVIOUS
<1>2. \A c \in Range(t) : c \in Forwards => \A j \in Range(jobs') : j.id # c.id
    BY <1>1 DEF Leading, Led, Range
<1>3. Leading(t)'
    BY <1>1, <1>2, LeadingKept
<1>4. Leading(calls)'
    BY <1>1, <1>3 DEF Leading
<1>5. GoesWhereShown'
    BY GoesKept DEF ForwardInv
<1> QED BY <1>4, <1>5 DEF ForwardInv

\* What the user goes forward to is what the backend will find.
LEMMA ForwardChosen ==
    ASSUME TypeOK, SessionInv, ShownInv, RecordInv, FlagInv,
           NEW i \in DOMAIN itemList, NEW inModel \in BOOLEAN, GoForward(i - 1, inModel)
    PROVE  Leading(calls) => Leading(calls') /\ calls' \in Seq(Call)
<1> DEFINE x == IF stale # {} \/ PageUnderWay \/ contentType \notin Browsable
                THEN NoType ELSE Child[contentType][itemList[(i - 1) + 1]]
           c == [kind |-> "goForward", id |-> identifier, index |-> i - 1,
                 inModel |-> inModel, expected |-> x]
<1>1. /\ calls' = Append(calls, c) /\ i - 1 < Len(canGoForward)
      /\ canGoForward[(i - 1) + 1]
    BY DEF GoForward
<1>2. /\ calls \in Seq(Call) /\ identifier \in Session /\ itemList \in Seq(Rows)
      /\ canGoForward \in Seq(BOOLEAN) /\ state \in [Session -> State]
      /\ contentType \in Paths /\ Browsable \subseteq Types /\ NoType \notin Types
    BY BrowseAssumption DEF TypeOK
<1>3. i \in Nat /\ i > 0 /\ (i - 1) + 1 = i /\ i - 1 \in Nat /\ itemList[i] \in Rows
    BY <1>2, LenProperties, ElementOfSeq
<1>4. x \in Paths
  <2>1. CASE stale # {} \/ PageUnderWay \/ contentType \notin Browsable
      BY <2>1 DEF Paths
  <2>2. CASE ~(stale # {} \/ PageUnderWay \/ contentType \notin Browsable)
      BY <1>3, <2>2, BrowseAssumption DEF Paths
  <2> QED BY <2>1, <2>2
<1> HIDE DEF x
<1>5. c \in Call /\ c.id = identifier /\ c.index = i - 1 /\ c.expected = x
    BY <1>2, <1>3, <1>4 DEF Call
<1>6. ASSUME x # NoType
      PROVE  Led(c) /\ \A j \in DOMAIN calls : ~Alters(calls[j], c.id)
  <2>1. /\ stale = {} /\ ~PageUnderWay /\ contentType \in Browsable
        /\ x = Child[contentType][itemList[i]]
      BY <1>3, <1>6 DEF x
  <2>2. /\ FlagsSteady /\ Mirrored
      BY <2>1 DEF FlagInv, RecordInv
  <2>3. /\ NoneIn(calls, FetchCalls) /\ \A j \in Range(jobs) : j.id # identifier
      BY <2>1, NoPage
  <2>4. i \in DOMAIN canGoForward
      BY <1>1, <1>2, <1>3, LenProperties
  <2>5. Flagged(i)
    <3>1. canGoForward[i]
        BY <1>1, <1>3, Zenon
    <3> QED BY <2>4, <3>1 DEF Flagged
  <2>6. Steady
      BY <2>2, <2>4, <2>5 DEF FlagsSteady
  <2>7. /\ state[identifier].contentType = contentType /\ contentType = requested
        /\ RegisterCall \notin Range(calls)
      BY <1>2, <2>1, <2>6 DEF Steady
  \* the backend has the row
  <2>8. i <= Len(state[identifier].items) /\ state[identifier].items[i] = itemList[i]
    <3>1. Recorded(i, itemList[i])
        BY <1>2, <2>1, <2>2, <2>3 DEF Mirrored, Pending, BegunJobs
    <3> QED BY <3>1 DEF Recorded
  <2>9. Led(c)
    <3>1. Len(state[identifier].items) \in Nat
        BY <1>2, LenProperties DEF State
    <3>2. i - 1 < Len(state[identifier].items)
        BY <1>3, <2>8, <3>1
    <3>3. Forward(identifier, i - 1) = x
        BY <1>3, <2>1, <2>7, <2>8, <3>2 DEF Forward
    <3> QED BY <1>5, <2>3, <3>3 DEF Led
  \* and nothing on its way will change that
  <2>10. ASSUME NEW j \in DOMAIN calls PROVE ~Alters(calls[j], identifier)
    <3>1. PICK b \in Call : b = calls[j] /\ b \in Range(calls)
        BY <1>2, ElementOfSeq DEF Range
    <3>2. b.id = identifier => b.kind # "unregisterInstance"
        BY <3>1 DEF SessionInv, IdsKnown
    <3>3. b.id = identifier => b.kind # "fetchData"
        BY <2>3, <2>10, <3>1 DEF NoneIn, FetchCalls
    <3>4. b.id = identifier => b.kind # "registerInstance"
      <4>1. ASSUME b.id = identifier, b.kind = "registerInstance" PROVE b = RegisterCall
          BY <3>1, <4>1 DEF Call, RegisterCall
      <4> QED BY <2>7, <3>1, <4>1
    <3>5. b.id = identifier /\ b.kind = "setContentType" => b.type = contentType
      <4>1. SUFFICES ASSUME b \in SetCalls PROVE b.type = contentType
          BY <3>1 DEF SetCalls
      <4>2. b \notin UnnamedCalls
        <5>1. NoneIn(calls, UnnamedCalls)
            BY <1>2, <2>1 DEF ShownInv, Unnamed
        <5> QED BY <2>10, <3>1, <5>1 DEF NoneIn
      <4>3. b \in NamedCalls
          BY <4>1, <4>2, CallKinds
      <4> QED BY <2>6, <2>7, <3>1, <4>3 DEF Steady
    <3> QED BY <2>7, <3>1, <3>2, <3>3, <3>4, <3>5 DEF Alters
  <2> QED BY <1>5, <2>9, <2>10
<1> HIDE DEF c
<1>7. c \in Forwards => x # NoType
    BY <1>5 DEF Forwards
<1> QED BY <1>1, <1>2, <1>5, <1>6, <1>7, LeadingAppend, AppendAt

\* Calls that are not to go forward.
LEMMA OtherComes ==
    ASSUME NEW s \in Seq(Call), Leading(s), NEW c \in Call, c.kind # "goForward"
    PROVE  Leading(Append(s, c)) /\ Append(s, c) \in Seq(Call)
BY LeadingAppend, AppendAt DEF Forwards

LEMMA AskingComes ==
    ASSUME TypeOK, NEW type \in Paths, AskFor(type), Leading(calls)
    PROVE  Leading(calls') /\ calls' \in Seq(Call)
<1>1. /\ calls \in Seq(Call) /\ SetContentTypeCall(type) \in Call
      /\ SetContentTypeCall(type).kind # "goForward"
    BY CallsTyped DEF TypeOK, SetContentTypeCall
<1> HIDE DEF SetContentTypeCall
<1>2. CASE connected
    BY <1>1, <1>2, OtherComes DEF AskFor
<1>3. CASE ~connected
    BY <1>1, <1>3 DEF AskFor
<1> QED BY <1>2, <1>3

LEMMA ForwardUser ==
    TypeOK /\ SessionInv /\ ShownInv /\ RecordInv /\ FlagInv /\ ForwardInv
        /\ (User \/ OnInitializationDone \/ FetchMore) => ForwardInv'
<1> SUFFICES ASSUME TypeOK, SessionInv, ShownInv, RecordInv, FlagInv, ForwardInv,
                    User \/ OnInitializationDone \/ FetchMore
             PROVE  ForwardInv'
    OBVIOUS
<1>1. calls \in Seq(Call) /\ identifier \in Session /\ requested \in Paths /\ Leading(calls)
    BY DEF TypeOK, ForwardInv
<1>2. UNCHANGED <<state, jobs, signals>>
    BY DEF User, Connect, Disconnect, GoBack, SetContentType, SetQuery, GoForward,
           OnInitializationDone, FetchMore, backendVars
<1>3. Leading(calls') /\ calls' \in Seq(Call)
  <2>1. CASE Connect
      BY <1>1, <2>1 DEF Connect
  <2>2. CASE Disconnect
    <3> DEFINE c == [kind |-> "unregisterInstance", id |-> identifier]
    <3>1. c \in Call /\ c.kind # "goForward" /\ calls' = Append(calls, c)
        BY <1>1, <2>2, CallsTyped DEF Disconnect
    <3> HIDE DEF c
    <3> QED BY <1>1, <3>1, OtherComes
  <2>3. CASE GoBack
    <3> DEFINE c == [kind |-> "goBack", id |-> identifier]
    <3>1. c \in Call /\ c.kind # "goForward" /\ calls' = Append(calls, c)
        BY <1>1, <2>3, CallsTyped DEF GoBack
    <3> HIDE DEF c
    <3> QED BY <1>1, <3>1, OtherComes
  <2>4. ASSUME NEW type \in Offered, SetContentType(type)
        PROVE  Leading(calls') /\ calls' \in Seq(Call)
    <3>1. type \in Paths /\ AskFor(type)
        BY <2>4, BrowseAssumption DEF SetContentType, UpdateContentType, Paths
    <3> QED BY <1>1, <3>1, AskingComes
  <2>5. ASSUME NEW new \in Terms \cup Unparsable, SetQuery(new)
        PROVE  Leading(calls') /\ calls' \in Seq(Call)
    <3>1. AskFor(requested)
        BY <2>5 DEF SetQuery
    <3> QED BY <1>1, <3>1, AskingComes
  <2>6. ASSUME NEW i \in DOMAIN itemList, NEW inModel \in BOOLEAN, GoForward(i - 1, inModel)
        PROVE  Leading(calls') /\ calls' \in Seq(Call)
      BY <1>1, <2>6, ForwardChosen
  <2>7. CASE OnInitializationDone
    <3> DEFINE b == SetContentTypeCall(requested)
    <3>1. /\ RegisterCall \in Call /\ RegisterCall.kind # "goForward"
          /\ b \in Call /\ b.kind # "goForward"
          /\ calls' = calls \o <<RegisterCall, b>>
        BY <1>1, <2>7, CallsTyped DEF OnInitializationDone, RegisterCall, SetContentTypeCall
    <3>2. calls' = Append(Append(calls, RegisterCall), b)
      <4> HIDE DEF b
      <4> QED BY <1>1, <3>1
    <3>3. Leading(Append(calls, RegisterCall)) /\ Append(calls, RegisterCall) \in Seq(Call)
        BY <1>1, <3>1, OtherComes
    <3> HIDE DEF b
    <3> QED BY <3>1, <3>2, <3>3, OtherComes
  <2>8. CASE FetchMore
    <3> DEFINE c == FetchCall(Len(itemList))
    <3>1. Len(itemList) \in Nat
        BY LenProperties DEF TypeOK
    <3>2. c \in Call /\ c.kind # "goForward" /\ calls' = Append(calls, c)
        BY <1>1, <2>8, <3>1, CallsTyped DEF FetchMore, FetchCall
    <3> HIDE DEF c
    <3> QED BY <1>1, <3>2, OtherComes
  <2> QED BY <2>1, <2>2, <2>3, <2>4, <2>5, <2>6, <2>7, <2>8 DEF User
<1> QED BY <1>2, <1>3, ForwardGrows

LEMMA ForwardModel == TypeOK /\ ForwardInv /\ Model => ForwardInv'
<1> SUFFICES ASSUME TypeOK, ForwardInv, Model PROVE ForwardInv'
    OBVIOUS
<1> USE DEF backendVars
<1>1. calls \in Seq(Call) /\ Leading(calls) /\ signals \in Seq(Signal)
    BY DEF TypeOK, ForwardInv
<1>2. ASSUME NEW kind, Hear(kind)
      PROVE  UNCHANGED <<state, jobs>> /\ Range(signals') \subseteq Range(signals)
             /\ Head(signals) \in Signal /\ Head(signals).kind = kind
  <2>1. signals # <<>> /\ signals' = Tail(signals) /\ UNCHANGED <<state, jobs>>
      BY <1>2 DEF Hear
  <2> QED BY <1>1, <1>2, <2>1, RangeTail, HeadSignal
<1>3. UNCHANGED <<state, jobs>> /\ Range(signals') \subseteq Range(signals)
    BY <1>2 DEF Model, OnIgnored, OnCapabilitiesChanged, OnCanGoBackChanged,
                OnContentTypeChanged, OnDataFetched, OnCanGoForwardChanged, OnReply
<1>4. Leading(calls') /\ calls' \in Seq(Call)
  <2>1. CASE OnContentTypeChanged
    <3> DEFINE f == SetupFilterCall(query)
               c == FetchCall(0)
    <3>1. /\ Parsed = {} => calls' = Append(calls, c)
          /\ Parsed # {} => /\ calls' = Append(Append(calls, f), c) /\ f \in Call
                            /\ Append(calls, f) \in Seq(Call)
          /\ c \in Call
        BY <2>1, Confirms
    <3>2. f.kind # "goForward" /\ c.kind # "goForward"
        BY DEF SetupFilterCall, FetchCall
    <3> HIDE DEF f, c
    <3> QED BY <1>1, <3>1, <3>2, OtherComes
  <2>2. CASE OnReply
    <3> DEFINE s == Head(signals)
    <3>1. s.type \in Paths
        BY <1>2, <2>2, SignalFields DEF OnReply
    <3>2. AskFor(s.type) \/ calls' = calls
        BY <2>2 DEF OnReply, UpdateContentType
    <3> HIDE DEF s
    <3> QED BY <1>1, <3>1, <3>2, AskingComes
  <2>3. CASE calls' = calls
      BY <1>1, <2>3
  <2> QED BY <2>1, <2>2, <2>3
          DEF Model, OnIgnored, OnCapabilitiesChanged, OnCanGoBackChanged,
              OnDataFetched, OnCanGoForwardChanged
<1> QED BY <1>3, <1>4, ForwardGrows

LEMMA RangeMore ==
    ASSUME NEW T, NEW s \in Seq(T), NEW e
    PROVE  \A x \in Range(Append(s, e)) : x \in Range(s) \/ x = e
<1>1. /\ Len(s) \in Nat /\ DOMAIN s = 1..Len(s)
      /\ DOMAIN Append(s, e) = 1..Len(s) + 1
      /\ \A k \in 1..Len(s) + 1 : Append(s, e)[k] = IF k = Len(s) + 1 THEN e ELSE s[k]
    BY LenProperties
<1> QED BY <1>1 DEF Range

LEMMA ForwardBackend == TypeOK /\ ForwardInv /\ Backend => ForwardInv'
<1> SUFFICES ASSUME TypeOK, ForwardInv, Backend PROVE ForwardInv'
    OBVIOUS
<1> DEFINE h == Head(calls)
<1>1. /\ calls \in Seq(Call) /\ calls # <<>> /\ calls' = Tail(calls)
      /\ h \in Call /\ Caller = h.id /\ h.id \in Session
      /\ h \in Range(calls) /\ Range(calls') \subseteq Range(calls)
      /\ signals \in Seq(Signal) /\ jobs \in Seq(Job) /\ state \in [Session -> State]
    BY BackendServes DEF TypeOK
<1>2. /\ Leading(calls') /\ calls' \in Seq(Call)
      /\ \A c \in Range(calls) : c \in Forwards => Led(c)
      /\ \A c \in Range(calls') : c \in Forwards => ~Alters(h, c.id)
    BY <1>1, LeadingTail, TailAt DEF ForwardInv
<1> HIDE DEF h
<1>3. ASSUME NEW c \in Range(calls'), c \in Forwards
      PROVE  /\ state'[c.id].contentType = state[c.id].contentType
             /\ state'[c.id].items = state[c.id].items
  <2>1. c.id \in Session /\ ~Alters(h, c.id)
      BY <1>2, <1>3, CallFields DEF Forwards
  <2>2. CASE RegisterInstance \/ UnregisterInstance
    <3>1. /\ state' = [state EXCEPT ![h.id] = Fresh]
          /\ h.kind \in {"registerInstance", "unregisterInstance"}
        BY <1>1, <2>2 DEF RegisterInstance, UnregisterInstance, Take, h
    <3> QED BY <1>1, <2>1, <3>1 DEF Alters
  <2>3. CASE ServeSetContentType
    <3>1. /\ state' = [state EXCEPT ![h.id].contentType = h.type]
          /\ h.kind = "setContentType"
        BY <1>1, <2>3 DEF ServeSetContentType, Take, h
    <3> QED BY <1>1, <2>1, <3>1 DEF Alters, State
  <2>4. CASE ServeSetupFilter
    <3>1. state' = [state EXCEPT ![h.id].term = h.term]
        BY <1>1, <2>4 DEF ServeSetupFilter, h
    <3> QED BY <1>1, <2>1, <3>1 DEF State
  <2>5. CASE state' = state
      BY <2>5
  <2> QED BY <2>2, <2>3, <2>4, <2>5 DEF Backend, ServeFetchData, ServeGoBack, ServeGoForward
<1>4. ASSUME NEW c \in Range(calls'), c \in Forwards
      PROVE  \A j \in Range(jobs') : j.id # c.id
  <2>1. \A j \in Range(jobs) : j.id # c.id
      BY <1>1, <1>2, <1>4 DEF Led
  <2>2. ASSUME NEW i \in Job, jobs' = Append(jobs, i), i.id = h.id, h.kind = "fetchData"
        PROVE  \A j \in Range(jobs') : j.id # c.id
    <3>1. Range(jobs') = Range(jobs) \cup {i}
        BY <1>1, <2>2, RangeAppend
    <3>2. i.id # c.id
        BY <1>2, <1>4, <2>2 DEF Alters
    <3> QED BY <2>1, <3>1, <3>2
  <2> QED BY <1>1, <2>1, <2>2, BackendServes DEF h
<1>5. Leading(calls)'
  <2>1. PICK t \in Seq(Call) : t = calls'
      BY <1>2
  <2>2. Leading(t)'
      BY <1>2, <1>3, <1>4, <2>1, LeadingKept
  <2> QED BY <2>1, <2>2 DEF Leading
<1>6. GoesWhereShown'
  <2>1. CASE ServeGoForward
    <3> DEFINE r == [kind |-> "reply", type |-> Forward(Caller, h.index),
                     expected |-> h.expected, inModel |-> h.inModel]
    <3>1. signals' = Append(signals, r) /\ h.kind = "goForward"
        BY <2>1 DEF ServeGoForward, Take, h
    <3>2. r.expected = NoType \/ r.type = r.expected
        BY <1>1, <1>2, <3>1 DEF Forwards, Led
    <3> HIDE DEF r
    <3>3. \A s \in Range(signals') : s \in Range(signals) \/ s = r
        BY <1>1, <3>1, RangeMore
    <3> QED BY <3>2, <3>3, GoesKept DEF ForwardInv
  <2>2. CASE ServeGoBack
    <3> DEFINE r == [kind |-> "reply", type |-> Back(Caller),
                     expected |-> NoType, inModel |-> TRUE]
    <3>1. signals' = Append(signals, r)
        BY <2>2 DEF ServeGoBack
    <3>2. r.expected = NoType
        OBVIOUS
    <3> HIDE DEF r
    <3>3. \A s \in Range(signals') : s \in Range(signals) \/ s = r
        BY <1>1, <3>1, RangeMore
    <3> QED BY <3>2, <3>3, GoesKept DEF ForwardInv
  \* other calls are not replied to
  <2>3. ASSUME NEW s \in Signal, signals' = Append(signals, s), s.kind # "reply"
        PROVE  GoesWhereShown'
    <3>1. Range(signals') = Range(signals) \cup {s}
        BY <1>1, <2>3, RangeAppend
    <3> QED BY <2>3, <3>1, GoesKept DEF ForwardInv
  <2>4. CASE ServeFetchData
    <3> DEFINE s == [kind |-> "supportedCapabilitiesChanged", id |-> Caller]
    <3>1. signals' = Append(signals, s) /\ s \in Signal /\ s.kind # "reply"
        BY <1>1, <2>4 DEF ServeFetchData, Signal
    <3> HIDE DEF s
    <3> QED BY <2>3, <3>1
  <2>5. ASSUME NEW b \in Signal, NEW m \in Signal, signals' = Append(Append(signals, b), m),
               b.kind = "canGoBackChanged", m.kind = "contentTypeChanged"
        PROVE  GoesWhereShown'
    <3>1. Range(signals') = Range(signals) \cup {b, m}
        BY <1>1, <2>5, RangeAppendTwo
    <3> QED BY <2>5, <3>1, GoesKept DEF ForwardInv
  <2>6. CASE signals' = signals
      BY <2>6, GoesKept DEF ForwardInv
  <2>7. CASE ServeSetContentType
    <3>1. h.kind = "setContentType"
        BY <2>7 DEF ServeSetContentType, Take, h
    <3> QED BY <2>5, <2>6, <3>1, BackendTells DEF h
  <2> QED BY <2>1, <2>2, <2>4, <2>6, <2>7
          DEF Backend, RegisterInstance, UnregisterInstance, ServeSetupFilter
<1> QED BY <1>5, <1>6 DEF ForwardInv

LEMMA ForwardWorker == TypeOK /\ ForwardInv /\ (Search \/ Record) => ForwardInv'
<1> SUFFICES ASSUME TypeOK, ForwardInv, Search \/ Record PROVE ForwardInv'
    OBVIOUS
<1> DEFINE job == Head(jobs)
<1>1. /\ jobs \in Seq(Job) /\ jobs # <<>> /\ job \in Job /\ job \in Range(jobs)
      /\ calls \in Seq(Call) /\ calls' = calls /\ signals \in Seq(Signal)
      /\ state \in [Session -> State] /\ job.id \in Session
    BY WorkerServes, JobFields DEF TypeOK
<1>2. \A j \in Range(jobs') : \E i \in Range(jobs) : i.id = j.id
  <2>1. CASE Search
    <3>1. \A j \in Range(jobs') : j = Begun(job) \/ j \in Range(jobs)
        BY <2>1, SearchLeaves DEF Range
    <3>2. Begun(job).id = job.id
        BY <1>1 DEF Begun, Job
    <3> QED BY <1>1, <3>1, <3>2
  <2>2. CASE Record
    <3>1. jobs' = Tail(jobs)
        BY <2>2 DEF Record
    <3> QED BY <1>1, <3>1, RangeTail
  <2> QED BY <2>1, <2>2
<1>3. /\ Leading(calls) /\ \A c \in Range(calls) : c \in Forwards => Led(c)
    BY DEF ForwardInv, Leading, Range
<1>4. ASSUME NEW c \in Range(calls), c \in Forwards
      PROVE  /\ state'[c.id].contentType = state[c.id].contentType
             /\ state'[c.id].items = state[c.id].items
             /\ \A j \in Range(jobs') : j.id # c.id
  <2>1. c.id \in Session /\ job.id # c.id
      BY <1>1, <1>3, <1>4, CallFields DEF Forwards, Led
  <2>2. state' = state
        \/ state' = [state EXCEPT ![job.id].items = Kept(@, Page(job), job.start)]
      BY DEF Search, Record
  <2>3. state'[c.id] = state[c.id]
    <3> HIDE DEF job
    <3> QED BY <1>1, <2>1, <2>2
  <2>4. \A j \in Range(jobs') : j.id # c.id
      BY <1>2, <1>3, <1>4 DEF Led
  <2> QED BY <2>3, <2>4
<1>5. Leading(calls)'
  <2>1. PICK t \in Seq(Call) : t = calls
      BY <1>1
  <2>2. Leading(t)'
      BY <1>3, <1>4, <2>1, LeadingKept
  <2> QED BY <1>1, <2>1, <2>2 DEF Leading
<1>6. GoesWhereShown'
  <2>1. ASSUME NEW s, signals' = Append(signals, s), s.kind # "reply"
        PROVE  \A x \in Range(signals') : x \in Range(signals) \/ x = s
      BY <1>1, <2>1, RangeMore
  <2>2. signals' = signals
        \/ \E s : signals' = Append(signals, s) /\ s.kind # "reply"
      BY WorkerServes
  <2> QED BY <2>1, <2>2, GoesKept DEF ForwardInv
<1> QED BY <1>5, <1>6 DEF ForwardInv

LEMMA ForwardNext ==
    TypeOK /\ SessionInv /\ ShownInv /\ RecordInv /\ FlagInv /\ ForwardInv /\ [Next]_vars
        => ForwardInv'
<1> SUFFICES ASSUME TypeOK, SessionInv, ShownInv, RecordInv, FlagInv, ForwardInv, [Next]_vars
             PROVE  ForwardInv'
    OBVIOUS
<1>1. CASE UNCHANGED vars
  <2>1. UNCHANGED <<state, jobs, calls, signals>>
      BY <1>1 DEF vars, backendVars
  <2> QED BY <2>1, ForwardGrows DEF ForwardInv, TypeOK
<1> QED BY <1>1, ForwardUser, ForwardModel, ForwardBackend, ForwardWorker DEF Next

\* All quiet, every row of a list that leads on has its flag, and no other.
LEMMA FlagsFollowRows ==
    TypeOK /\ FlagInv => FlagsFitRows
<1> SUFFICES ASSUME TypeOK, FlagInv, Settled, connected, stale = {},
                    NEW i \in DOMAIN itemList
             PROVE  (i <= Len(canGoForward) /\ canGoForward[i]) <=> contentType \in Browsable
    BY DEF FlagsFitRows
<1>1. FlagsSteady /\ FlagsComplete
    BY DEF FlagInv
<1>2. calls = <<>> /\ jobs = <<>> /\ signals = <<>>
    BY DEF Settled
<1>3. i \in DOMAIN canGoForward <=> i <= Len(canGoForward)
  <2>1. /\ canGoForward \in Seq(BOOLEAN) /\ itemList \in Seq(Rows)
      BY DEF TypeOK
  <2>2. i \in Nat /\ i > 0
      BY <2>1, LenProperties
  <2> QED BY <2>1, <2>2, LenProperties
<1>4. Flagged(i) <=> (i <= Len(canGoForward) /\ canGoForward[i])
    BY <1>3, Zenon DEF Flagged
<1>5. Flagged(i) => contentType \in Browsable
    BY <1>1 DEF FlagsSteady, Flagged
<1>6. ASSUME contentType \in Browsable PROVE Flagged(i)
  <2>1. Unchallenged
      BY <1>2 DEF Unchallenged, NoneIn
  <2>2. \A start, count : ~Flagging(start, count)
      BY <1>2 DEF Flagging, Range
  <2> QED BY <1>1, <1>6, <2>1, <2>2 DEF FlagsComplete
<1> QED BY <1>4, <1>5, <1>6, Zenon

(* The list hangs together: the rows shown are those of the content type and *)
(* the query, flags are written only for rows that are there, once all is    *)
(* quiet they say of each row whether it leads on, and to go forward leads   *)
(* into the row the user saw.  Rows, flags and replies come by signals of    *)
(* their own, out of a worker that searches while content types change.      *)
THEOREM ListHangsTogetherAlways == Spec => []ListHangsTogether
<1> DEFINE Inv == /\ TypeOK /\ SessionInv /\ AgreeInv /\ ShownInv /\ RowsInv
                  /\ WorkInv /\ RecordInv /\ FlagInv /\ ForwardInv
<1>1. Init => Inv
    BY TypeInit, SessionInit, AgreeInit, ShownInit, RowsInit, WorkInit, RecordInit,
       FlagInit, ForwardInit
<1>2. Inv /\ [Next]_vars => Inv'
    BY TypeNext, SessionNext, AgreeNext, ShownNext, RowsNext, WorkNext, RecordNext,
       FlagNext, ForwardNext
<1>3. Inv => ListHangsTogether
    BY RowsFollow, FlagsFollowRows DEF ForwardInv, ListHangsTogether
<1> QED BY <1>1, <1>2, <1>3, PTL DEF Spec
==============================================================================
