-------------------------- MODULE MediaPlayerProofs --------------------------
(***************************************************************************)
(* Theorems about MediaPlayer for any tracks, items, queues and chunk      *)
(* sizes and any number of connections and requests.                       *)
(***************************************************************************)
EXTENDS MediaPlayer, FiniteSetTheorems, FunctionTheorems, SequenceTheorems, TLAPS

------------------------------------------------------------------------------
(* What InOrder() lists, for any set.                                        *)
\* How many are ranked below tells the members of a set apart.
RankedBelow(S, rank, x) == {y \in S : rank[y] < rank[x]}

\* No two members of S have the same rank.
Ranked(S, rank) ==
    /\ IsFiniteSet(S) /\ \A x \in S : rank[x] \in Nat
    /\ \A x, y \in S : rank[x] = rank[y] => x = y

LEMMA PlacesDiffer ==
    ASSUME NEW S, NEW rank, Ranked(S, rank)
    PROVE  /\ \A x \in S : Cardinality(RankedBelow(S, rank, x)) \in 0 .. Cardinality(S) - 1
           /\ \A x, y \in S : rank[x] < rank[y] =>
                Cardinality(RankedBelow(S, rank, x)) < Cardinality(RankedBelow(S, rank, y))
<1>1. \A x \in S : /\ IsFiniteSet(RankedBelow(S, rank, x))
                   /\ Cardinality(RankedBelow(S, rank, x)) \in Nat
  <2> TAKE x \in S
  <2>1. RankedBelow(S, rank, x) \in SUBSET S
    BY DEF RankedBelow
  <2> QED BY <2>1, FS_Subset, FS_CardinalityType DEF Ranked
<1>2. ASSUME NEW x \in S
      PROVE  Cardinality(RankedBelow(S, rank, x)) \in 0 .. Cardinality(S) - 1
  <2>1. RankedBelow(S, rank, x) \in SUBSET (S \ {x})
    BY DEF RankedBelow, Ranked
  <2>2. IsFiniteSet(S \ {x}) /\ Cardinality(S \ {x}) = Cardinality(S) - 1
    BY FS_RemoveElement DEF Ranked
  <2>3. Cardinality(RankedBelow(S, rank, x)) <= Cardinality(S \ {x})
    BY <2>1, <2>2, FS_Subset
  <2>4. Cardinality(S) \in Nat
    BY FS_CardinalityType DEF Ranked
  <2> QED BY <1>1, <2>2, <2>3, <2>4
<1>3. ASSUME NEW x \in S, NEW y \in S, rank[x] < rank[y]
      PROVE  Cardinality(RankedBelow(S, rank, x)) < Cardinality(RankedBelow(S, rank, y))
  <2>1. RankedBelow(S, rank, x) \in SUBSET RankedBelow(S, rank, y)
    BY <1>3 DEF RankedBelow, Ranked
  <2>2. RankedBelow(S, rank, x) # RankedBelow(S, rank, y)
    BY <1>3 DEF RankedBelow, Ranked
  <2>3. /\ Cardinality(RankedBelow(S, rank, x)) <= Cardinality(RankedBelow(S, rank, y))
        /\ Cardinality(RankedBelow(S, rank, x)) # Cardinality(RankedBelow(S, rank, y))
    BY <1>1, <2>1, <2>2, FS_Subset
  <2> QED BY <1>1, <2>3
<1> QED BY <1>2, <1>3

\* InOrder() lists the members of the set, each once, by ascending rank.
LEMMA InOrderLists ==
    ASSUME NEW S, NEW rank, Ranked(S, rank)
    PROVE  /\ Cardinality(S) \in Nat
           /\ InOrder(S, rank) \in Seq(S)
           /\ Len(InOrder(S, rank)) = Cardinality(S)
           /\ \A n \in 1 .. Cardinality(S) :
                Cardinality(RankedBelow(S, rank, InOrder(S, rank)[n])) = n - 1
           /\ \A x \in S : \E n \in 1 .. Cardinality(S) : InOrder(S, rank)[n] = x
           /\ \A m, n \in 1 .. Cardinality(S) :
                m < n => rank[InOrder(S, rank)[m]] < rank[InOrder(S, rank)[n]]
<1> DEFINE N == Cardinality(S)
           place == [x \in S |-> Cardinality(RankedBelow(S, rank, x))]
<1>1. N \in Nat
  BY FS_CardinalityType DEF Ranked
<1>2. place \in Injection(S, 0 .. N - 1)
  <2>1. place \in [S -> 0 .. N - 1]
    BY PlacesDiffer
  <2>2. \A x, y \in S : place[x] = place[y] => x = y
    <3> SUFFICES ASSUME NEW x \in S, NEW y \in S, place[x] = place[y], x # y
                 PROVE  FALSE
      OBVIOUS
    <3>1. rank[x] < rank[y] \/ rank[y] < rank[x]
      BY DEF Ranked
    <3>2. place[x] < place[y] \/ place[y] < place[x]
      BY <3>1, PlacesDiffer
    <3> QED BY <2>1, <3>2
  <2> QED BY <2>1, <2>2 DEF Injection, IsInjective
<1>3. IsFiniteSet(0 .. N - 1) /\ Cardinality(0 .. N - 1) = N
  BY SMTT(30), <1>1, FS_Interval
<1>4. place \in Surjection(S, 0 .. N - 1)
  BY <1>2, <1>3, FS_Injection
<1>5. \A n \in 1 .. N : \E x \in S : place[x] = n - 1
  <2>1. \A k \in 0 .. N - 1 : \E x \in S : place[x] = k
    BY <1>4 DEF Surjection
  <2>2. \A n \in 1 .. N : n - 1 \in 0 .. N - 1
    BY <1>1
  <2> HIDE DEF N, place
  <2> QED BY <2>1, <2>2
<1>6. \A n \in 1 .. N : /\ InOrder(S, rank)[n] \in S
                        /\ place[InOrder(S, rank)[n]] = n - 1
  <2> TAKE n \in 1 .. N
  <2>1. InOrder(S, rank)[n] = CHOOSE x \in S : Cardinality(RankedBelow(S, rank, x)) = n - 1
    BY DEF InOrder, RankedBelow
  <2> QED BY <1>5, <2>1
<1>7. DOMAIN InOrder(S, rank) = 1 .. N
  BY DEF InOrder
<1>8. InOrder(S, rank) \in Seq(S) /\ Len(InOrder(S, rank)) = N
  <2>1. InOrder(S, rank) = [n \in 1 .. N |-> InOrder(S, rank)[n]]
    BY DEF InOrder
  <2>2. InOrder(S, rank) \in [1 .. N -> S]
    BY <1>6, <2>1
  <2> QED BY <1>1, <2>2
<1>9. ASSUME NEW x \in S PROVE \E n \in 1 .. N : InOrder(S, rank)[n] = x
  <2>1. place[x] \in 0 .. N - 1
    BY <1>2 DEF Injection
  <2>2. place[x] + 1 \in 1 .. N
    BY <1>1, <2>1
  <2>3. InOrder(S, rank)[place[x] + 1] \in S
        /\ place[InOrder(S, rank)[place[x] + 1]] = place[x]
    BY <1>6, <2>1, <2>2
  <2>4. InOrder(S, rank)[place[x] + 1] = x
    BY <1>2, <2>3 DEF Injection, IsInjective
  <2> QED BY <2>2, <2>4
<1>10. ASSUME NEW m \in 1 .. N, NEW n \in 1 .. N, m < n
       PROVE  rank[InOrder(S, rank)[m]] < rank[InOrder(S, rank)[n]]
  <2> DEFINE x == InOrder(S, rank)[m]
             y == InOrder(S, rank)[n]
  <2>1. x \in S /\ y \in S /\ place[x] = m - 1 /\ place[y] = n - 1
    BY <1>6
  <2> HIDE DEF x, y
  <2>2. ~(rank[y] < rank[x]) /\ x # y
    BY <1>10, <2>1, PlacesDiffer
  <2>3. rank[x] < rank[y]
    BY <2>1, <2>2 DEF Ranked
  <2> QED BY <2>3 DEF x, y
<1> QED BY <1>1, <1>6, <1>7, <1>8, <1>9, <1>10

------------------------------------------------------------------------------
(***************************************************************************)
(* What is asked for, and what tells of it.                                *)
(***************************************************************************)
Asks(job) == job.kind \in Edits \cup {"Select"}
Tells(e) == e.kind \in {"dataFetched", "dataChanged"}

Size == Cardinality(DOMAIN queue)

\* The worker has changed or read the table and has not told of it yet.
Worked == jobs # <<>> /\ Head(jobs).done
Edited == Worked /\ Head(jobs).kind \in Edits

\* A list has the tracks from one row of a table on.
FromRow(q, list, row) ==
    \A k \in DOMAIN list : list[k] \in DOMAIN q /\ q[list[k]] = row + k - 1

\* The last of a kind among jobs or events.
NoneOf(s, kind) == \A p \in DOMAIN s : s[p].kind # kind

LastAt(s, kind, p) ==
    /\ p \in DOMAIN s /\ s[p].kind = kind
    /\ \A r \in DOMAIN s : r > p => s[r].kind # kind

------------------------------------------------------------------------------
(* Only the worker's current job can be half done; connections are counted   *)
(* by the identifier of the play queue; no two tracks share a row.           *)
NoRowTwice(q) == \A t, u \in DOMAIN q : q[t] = q[u] => t = u

TypeInv ==
    /\ TypeOK
    /\ links = (IF connected THEN identifier ELSE identifier - 1)
    /\ connected => identifier <= MaxSession
    /\ \A p \in DOMAIN jobs : p > 1 => ~jobs[p].done
    /\ NoRowTwice(queue)

CountInv == count <= Size /\ (Worked => count = Size)

\* Before the first connection nothing has happened.
FreshInv ==
    links = 0 =>
        /\ jobs = <<>> /\ events = <<>> /\ itemList = <<>>
        /\ ~moreAvailable /\ loadingType = "FetchMore"
        /\ currentIndex = -1 /\ shownIndex = -1
        /\ shownTrack = None /\ media = None /\ mediaStatus = "NoMedia"
        /\ playing = "Stopped" /\ shownMode = playMode

------------------------------------------------------------------------------
(* One request at a time is on its way to the worker and back.               *)
NoAsks(js) == \A p \in DOMAIN js : ~Asks(js[p])
NoTells(es) == \A p \in DOMAIN es : ~Tells(es[p])

One(js, es, more) ==
    /\ \A p, r \in DOMAIN js : Asks(js[p]) /\ Asks(js[r]) => p = r
    /\ NoTells(es) \/ NoAsks(js)
    /\ \A p, r \in DOMAIN es : Tells(es[p]) /\ Tells(es[r]) => p = r
    /\ more => NoAsks(js) /\ NoTells(es)

OneRequest == One(jobs, events, moreAvailable)

(* An edit the worker has not begun is one of rows there are.                *)
InRange(job, n) ==
    CASE job.kind = "Insert" -> job.start <= n
      [] job.kind = "Remove" -> job.start < n
      [] job.kind = "Move" -> job.start < n /\ job.count < n /\ job.start # job.count
      [] OTHER -> TRUE

NewTracks(job) ==
    job.kind = "Insert" =>
        /\ job.tracks # <<>>
        /\ \A i, j \in DOMAIN job.tracks : job.tracks[i] = job.tracks[j] => i = j
        /\ \A i \in DOMAIN job.tracks : job.tracks[i] \notin DOMAIN queue

EditsInv ==
    \A p \in DOMAIN jobs : ~jobs[p].done => InRange(jobs[p], Size) /\ NewTracks(jobs[p])

NumberInv == links <= 1 => OneRequest /\ EditsInv /\ RowsNumbered

------------------------------------------------------------------------------
(* What the play queue makes of an edit the worker has done ...              *)
Telling(job) ==
    [kind |-> "dataChanged", items |-> job.list,
     start |-> IF job.kind = "Move" THEN Lowest(job.start, job.count) ELSE job.start,
     count |-> CASE job.kind = "Insert" -> 0
                 [] job.kind = "Remove" -> 1
                 [] OTHER -> Highest(job.start, job.count)
                                - Lowest(job.start, job.count) + 1]

Fits(e) == /\ e.start + e.count <= Len(itemList)
           /\ FromRow(queue, Changed(e), 0)

(* A page asked for goes on where the list ends and has the rows asked for;  *)
(* an edit is of rows the list has.                                          *)
JobFits(job) ==
    /\ job.kind = "Select" =>
          /\ job.id = identifier
          /\ loadingType = "FetchMore" => job.start = Len(itemList)
          /\ job.done => FromRow(queue, job.list, job.start)
    /\ ~job.done => InRange(job, Len(itemList))
    /\ job.kind \in Edits => loadingType = "FetchMore"

EventFits(e) ==
    /\ e.kind = "dataFetched" =>
          /\ e.id = identifier
          /\ loadingType = "FetchMore" => e.start = Len(itemList)
          /\ FromRow(queue, e.items, e.start)
    /\ e.kind = "dataChanged" => loadingType = "FetchMore" /\ Fits(e)
    /\ e.kind = "countChanged" /\ loadingType = "DataChanged" => e.length = Size

(* A list loaded page by page has the first rows, once it has been told of   *)
(* the edit there may be.                                                    *)
ListGrows ==
    /\ moreAvailable => fetchedCount = Len(itemList)
    /\ Edited => Fits(Telling(Head(jobs)))
    /\ ~Edited /\ NoneOf(events, "dataChanged") => FromRow(queue, itemList, 0)

(* A list laid out at once is of the table's size and has rows in place.     *)
ListFills ==
    /\ Len(itemList) \in {0, Size}
    /\ \A i \in DOMAIN itemList :
          \/ itemList[i] = None
          \/ itemList[i] \in DOMAIN queue /\ queue[itemList[i]] = i - 1

JobsFit == \A p \in DOMAIN jobs : JobFits(jobs[p])
EventsFit == \A p \in DOMAIN events : EventFits(events[p])

ListFits ==
    /\ loadingType = "FetchMore" => ListGrows
    /\ loadingType = "DataChanged" => ListFills

ViewInv == connected /\ links <= 1 => JobsFit /\ EventsFit /\ ListFits

------------------------------------------------------------------------------
(* What a value becomes once all events of a kind are heard.                 *)
Told(e) == IF e.kind = "currentIndexChanged" THEN e.index ELSE e.track

Becomes(es, kind, now, v) ==
    \/ \E p \in DOMAIN es : LastAt(es, kind, p) /\ Told(es[p]) = v
    \/ NoneOf(es, kind) /\ now = v

(* The index last chosen or announced is the current one.                    *)
IndexFollows ==
    \/ \E p \in DOMAIN jobs : LastAt(jobs, "SetIndex", p) /\ jobs[p].start = currentIndex
    \/ /\ NoneOf(jobs, "SetIndex")
       /\ Becomes(events, "currentIndexChanged", shownIndex, currentIndex)

(* An edit is the last thing the worker has to do; the index it is to set is *)
(* one of the table.                                                         *)
JobsOrdered ==
    /\ \A p \in DOMAIN jobs : jobs[p].kind \in Edits => p = Len(jobs)
    /\ \A p \in DOMAIN jobs : jobs[p].kind = "SetIndex" =>
          /\ jobs[p].start < Size
          /\ jobs[p].done => jobs[p].list # <<>> /\ FromRow(queue, jobs[p].list, jobs[p].start)

IndexInv ==
    connected /\ links <= 1 /\ "race" \notin off => IndexFollows /\ JobsOrdered

(* The track to be shown, and to be played, once all events are heard.       *)
WillShow(w) == Becomes(events, "currentTrackChanged", shownTrack, w)
WillPlay(w) == Becomes(events, "playTrack", media, w)

TrackInv ==
    connected /\ links <= 1 /\ "race" \notin off =>
        \E w \in Row : WillShow(w) /\ WillPlay(w)

(* The row of the current track after an edit the worker has done, as far as *)
(* the current index will be right about it.                                 *)
AfterEdit(job) ==
    CASE job.kind = "Insert" ->
             IF job.start <= currentIndex THEN currentIndex + Len(job.tracks) ELSE currentIndex
      [] job.kind = "Remove" -> AfterRemove(job)
      [] OTHER -> IF currentIndex = job.start THEN job.count
                  ELSE IF job.start < currentIndex /\ job.count >= currentIndex
                       THEN currentIndex - 1
                  ELSE IF job.start > currentIndex /\ job.count <= currentIndex
                       THEN currentIndex + 1 ELSE currentIndex

Named(w) ==
    IF Edited
    THEN \/ currentIndex = -1 /\ w = None
         \/ /\ currentIndex # -1 /\ w \in DOMAIN queue /\ queue[w] = AfterEdit(Head(jobs))
            /\ Head(jobs).kind = "Insert" => Head(jobs).tracks # <<>>
         \/ /\ Head(jobs).kind = "Remove" /\ Head(jobs).start = currentIndex
            /\ currentIndex \in 0 .. Size
    ELSE \/ currentIndex = -1 /\ w = None
         \/ w \in DOMAIN queue /\ queue[w] = currentIndex

NameInv ==
    connected /\ links <= 1 /\ off = {} /\ NoneOf(jobs, "SetIndex") =>
        \E w \in Row : WillShow(w) /\ Named(w)

\* QMediaPlayer plays what it has loaded if the user wants it to; the mode is shown.
GoingInv ==
    requested = "Playing" /\ media # None /\ mediaStatus \notin {"Loading", "EndOfMedia"} =>
        playing = "Playing"

StateInv ==
    /\ playing # "Stopped" => playState = playing
    /\ links <= 1 => ModeAndStateShown
------------------------------------------------------------------------------
(* Sequences.                                                                *)
LEMMA Joined ==
    ASSUME NEW S, NEW s \in Seq(S), NEW t \in Seq(S)
    PROVE  /\ s \o t \in Seq(S) /\ Len(s \o t) = Len(s) + Len(t)
           /\ \A i \in 1 .. Len(s) : (s \o t)[i] = s[i]
           /\ \A i \in 1 .. Len(t) : (s \o t)[Len(s) + i] = t[i]
           /\ \A i \in 1 .. Len(s \o t) :
                \/ i \in 1 .. Len(s) /\ (s \o t)[i] = s[i]
                \/ i - Len(s) \in 1 .. Len(t) /\ (s \o t)[i] = t[i - Len(s)]
  OBVIOUS

LEMMA TailKeeps ==
    ASSUME NEW S, NEW s \in Seq(S), s # <<>>
    PROVE  /\ Tail(s) \in Seq(S) /\ Len(Tail(s)) = Len(s) - 1 /\ Len(s) \in Nat \ {0}
           /\ Head(s) \in S /\ Head(s) = s[1]
           /\ \A i \in 1 .. Len(s) - 1 : Tail(s)[i] = s[i + 1]
  OBVIOUS

LEMMA SeqOf ==
    ASSUME NEW S, NEW n \in Nat, NEW f \in [1 .. n -> S]
    PROVE  f \in Seq(S) /\ Len(f) = n
  OBVIOUS

------------------------------------------------------------------------------
(* The table and the edits of it.                                            *)
IsTable(q) ==
    /\ DOMAIN q \subseteq Track /\ \A t \in DOMAIN q : q[t] \in Nat
    /\ NoRowTwice(q)

Gapless(q) == {q[t] : t \in DOMAIN q} = 0 .. Cardinality(DOMAIN q) - 1

LEMMA TableFinite ==
    ASSUME NEW q, IsTable(q), NEW S \in SUBSET (DOMAIN q)
    PROVE  /\ IsFiniteSet(S) /\ Cardinality(S) \in Nat
           /\ Cardinality(S) <= Cardinality(DOMAIN q)
           /\ IsFiniteSet(DOMAIN q) /\ Cardinality(DOMAIN q) \in Nat
           /\ Ranked(S, q)
<1>1. IsFiniteSet(DOMAIN q)
  BY PlayerAssumption, FS_Subset DEF IsTable
<1>2. IsFiniteSet(S) /\ Cardinality(S) <= Cardinality(DOMAIN q)
  BY <1>1, FS_Subset
<1> QED BY <1>1, <1>2, FS_CardinalityType DEF Ranked, IsTable, NoRowTwice

LEMMA ListTyped ==
    ASSUME NEW q, IsTable(q), NEW S \in SUBSET (DOMAIN q)
    PROVE  /\ InOrder(S, q) \in Seq(S) /\ InOrder(S, q) \in Seq(Track)
           /\ Len(InOrder(S, q)) = Cardinality(S)
<1>1. InOrder(S, q) \in Seq(S) /\ Len(InOrder(S, q)) = Cardinality(S)
  BY TableFinite, InOrderLists
<1>2. S \subseteq Track
  BY DEF IsTable
<1> HIDE DEF IsTable
<1> DEFINE r == InOrder(S, q)
<1> HIDE DEF r
<1>3. r \in Seq(Track)
  <2>1. r \in Seq(S)
    BY <1>1 DEF r
  <2> QED BY <1>2, <2>1
<1> QED BY <1>1, <1>3 DEF r

\* Rows that follow one another are listed from the first to the last.
LEMMA ListedInOrder ==
    ASSUME NEW q, IsTable(q), NEW S \in SUBSET (DOMAIN q), NEW low \in Nat, NEW n \in Nat,
           {q[t] : t \in S} = low .. low + n - 1
    PROVE  Len(InOrder(S, q)) = n /\ FromRow(q, InOrder(S, q), low)
<1>1. Ranked(S, q) /\ IsFiniteSet(S)
  BY TableFinite
<1>2. \A t \in S : q[t] \in low .. low + n - 1
  OBVIOUS
<1>3. \A r \in low .. low + n - 1 : \E t \in S : q[t] = r
  OBVIOUS
<1>4. ASSUME NEW m \in 0 .. n
      PROVE  Cardinality({t \in S : q[t] < low + m}) = m
  <2> DEFINE B == {t \in S : q[t] < low + m}
             f == [t \in B |-> q[t]]
  <2>1. f \in Bijection(B, low .. low + m - 1)
    <3>1. f \in [B -> low .. low + m - 1]
      BY <1>2
    <3>2. \A t, u \in B : f[t] = f[u] => t = u
      BY DEF IsTable, NoRowTwice
    <3>3. \A r \in low .. low + m - 1 : \E t \in B : f[t] = r
      BY <1>3
    <3> HIDE DEF f, B
    <3> QED BY <3>1, <3>2, <3>3 DEF Bijection, Injection, Surjection, IsInjective
  <2>2. IsFiniteSet(B)
    BY <1>1, FS_Subset
  <2>3. IsFiniteSet(low .. low + m - 1) /\ Cardinality(low .. low + m - 1) = m
    <3>1. IF low > low + m - 1 THEN m = 0 ELSE low + m - 1 - low + 1 = m
      OBVIOUS
    <3> QED BY <3>1, FS_Interval
  <2> HIDE DEF f, B
  <2>4. ExistsBijection(B, low .. low + m - 1)
    BY <2>1 DEF ExistsBijection
  <2>5. Cardinality(B) = m
    BY <2>2, <2>3, <2>4, FS_Bijection
  <2> QED BY <2>5 DEF B
<1>5. Cardinality(S) = n
  <2>1. {t \in S : q[t] < low + n} = S
    BY <1>2
  <2> QED BY <1>4, <2>1
<1>6. ASSUME NEW k \in 1 .. n
      PROVE  InOrder(S, q)[k] \in S /\ q[InOrder(S, q)[k]] = low + k - 1
  <2> DEFINE x == InOrder(S, q)[k]
  <2>1. x \in S /\ Cardinality(RankedBelow(S, q, x)) = k - 1
    <3>1. /\ InOrder(S, q) \in Seq(S) /\ Len(InOrder(S, q)) = n
          /\ Cardinality(RankedBelow(S, q, InOrder(S, q)[k])) = k - 1
      BY <1>1, <1>5, InOrderLists
    <3> QED BY <3>1
  <2> HIDE DEF x
  <2>2. q[x] \in low .. low + n - 1
    BY <1>2, <2>1
  <2>3. q[x] - low \in 0 .. n /\ low + (q[x] - low) = q[x]
    BY <2>2
  <2>4. Cardinality(RankedBelow(S, q, x)) = q[x] - low
    BY <1>4, <2>3 DEF RankedBelow
  <2>5. q[x] = low + k - 1
    BY <2>1, <2>2, <2>4
  <2> QED BY <2>1, <2>5 DEF x
<1>7. Len(InOrder(S, q)) = n /\ DOMAIN InOrder(S, q) = 1 .. n
  BY <1>5, ListTyped
<1> QED BY <1>6, <1>7 DEF FromRow

LEMMA RowsListed ==
    ASSUME NEW q, IsTable(q), Gapless(q)
    PROVE  /\ Rows(q) \in Seq(Track) /\ Len(Rows(q)) = Cardinality(DOMAIN q)
           /\ FromRow(q, Rows(q), 0)
           /\ \A t \in DOMAIN q : q[t] \in 0 .. Cardinality(DOMAIN q) - 1
           /\ \A i \in 0 .. Cardinality(DOMAIN q) - 1 : \E t \in DOMAIN q : q[t] = i
<1>1. Cardinality(DOMAIN q) \in Nat
  BY TableFinite
<1>2. {q[t] : t \in DOMAIN q} = 0 .. 0 + Cardinality(DOMAIN q) - 1
  BY <1>1 DEF Gapless
<1>3. Len(InOrder(DOMAIN q, q)) = Cardinality(DOMAIN q) /\ FromRow(q, InOrder(DOMAIN q, q), 0)
  BY <1>1, <1>2, ListedInOrder
<1>4. InOrder(DOMAIN q, q) \in Seq(Track)
  BY ListTyped
<1> QED BY <1>3, <1>4 DEF Rows, Gapless

\* One row, several rows next to each other.
LEMMA BetweenListed ==
    ASSUME NEW q, IsTable(q), NEW low \in Nat, NEW high \in Nat
    PROVE  /\ Between(q, low, high) \in Seq(Track)
           /\ Gapless(q) /\ low <= high /\ high < Cardinality(DOMAIN q) =>
                /\ Len(Between(q, low, high)) = high - low + 1
                /\ FromRow(q, Between(q, low, high), low)
<1> DEFINE S == {t \in DOMAIN q : q[t] \in low .. high}
<1>1. S \in SUBSET (DOMAIN q)
  OBVIOUS
<1>2. Between(q, low, high) = InOrder(S, q)
  BY DEF Between
<1>3. ASSUME Gapless(q), low <= high, high < Cardinality(DOMAIN q)
      PROVE  {q[t] : t \in S} = low .. low + (high - low + 1) - 1 /\ high - low + 1 \in Nat
  <2>1. Cardinality(DOMAIN q) \in Nat
    BY TableFinite
  <2>2. \A i \in low .. high : \E t \in DOMAIN q : q[t] = i
    BY <1>3, <2>1, RowsListed
  <2>3. low + (high - low + 1) - 1 = high /\ high - low + 1 \in Nat
    BY <1>3
  <2> QED BY <2>2, <2>3
<1> HIDE DEF S
<1>4. InOrder(S, q) \in Seq(Track)
  BY <1>1, ListTyped
<1>5. ASSUME Gapless(q), low <= high, high < Cardinality(DOMAIN q)
      PROVE  Len(InOrder(S, q)) = high - low + 1 /\ FromRow(q, InOrder(S, q), low)
  <2> DEFINE n == high - low + 1
  <2>1. n \in Nat /\ {q[t] : t \in S} = low .. low + n - 1
    BY <1>3, <1>5
  <2> HIDE DEF n
  <2>2. Len(InOrder(S, q)) = n /\ FromRow(q, InOrder(S, q), low)
    BY <1>1, <2>1, ListedInOrder
  <2> QED BY <2>2 DEF n
<1> QED BY <1>2, <1>4, <1>5

LEMMA TakenOut ==
    ASSUME NEW q, IsTable(q), NEW i \in Nat
    PROVE  IsTable(Removed(q, i)) /\ DOMAIN Removed(q, i) = {t \in DOMAIN q : q[t] # i}
<1> DEFINE r == Removed(q, i)
<1>1. DOMAIN r = {t \in DOMAIN q : q[t] # i}
  BY DEF Removed
<1>2. ASSUME NEW t \in DOMAIN r
      PROVE  /\ t \in DOMAIN q /\ q[t] \in Nat /\ q[t] # i
             /\ r[t] = IF q[t] >= i THEN q[t] - 1 ELSE q[t]
  BY <1>1 DEF Removed, IsTable
<1> HIDE DEF r
<1>3. \A t \in DOMAIN r : t \in Track /\ r[t] \in Nat
  BY <1>2 DEF IsTable
<1>4. \A t, u \in DOMAIN r : r[t] = r[u] => q[t] = q[u]
  BY <1>2
<1>5. \A t, u \in DOMAIN r : r[t] = r[u] => t = u
  BY <1>2, <1>4 DEF IsTable, NoRowTwice
<1> QED BY <1>1, <1>3, <1>5 DEF IsTable, NoRowTwice, r

\* With the row that is taken out the rows after it move up.
LEMMA TakenOutGapless ==
    ASSUME NEW q, IsTable(q), Gapless(q), NEW i \in Nat, i < Cardinality(DOMAIN q)
    PROVE  /\ Gapless(Removed(q, i))
           /\ Cardinality(DOMAIN Removed(q, i)) = Cardinality(DOMAIN q) - 1
<1> DEFINE r == Removed(q, i)
           n == Cardinality(DOMAIN q)
<1>1. n \in Nat /\ IsFiniteSet(DOMAIN q)
  BY TableFinite
<1>2. PICK x \in DOMAIN q : q[x] = i
  BY <1>1, RowsListed
<1>3. DOMAIN r = DOMAIN q \ {x}
  BY <1>2, TakenOut DEF IsTable, NoRowTwice
<1>4. Cardinality(DOMAIN r) = n - 1
  BY <1>1, <1>2, <1>3, FS_RemoveElement
<1>5. \A t \in DOMAIN r : /\ q[t] \in 0 .. n - 1 /\ q[t] # i
                          /\ r[t] = IF q[t] >= i THEN q[t] - 1 ELSE q[t]
  BY <1>3, RowsListed, TakenOut DEF Removed
<1>6. \A t \in DOMAIN r : r[t] \in 0 .. n - 2
  BY <1>1, <1>5
<1>7. ASSUME NEW k \in 0 .. n - 2 PROVE \E t \in DOMAIN r : r[t] = k
  <2> DEFINE j == IF k < i THEN k ELSE k + 1
  <2>1. j \in 0 .. n - 1 /\ j # i
    BY <1>1
  <2>2. PICK t \in DOMAIN q : q[t] = j
    BY <2>1, RowsListed
  <2>3. t \in DOMAIN r
    BY <1>2, <1>3, <2>1, <2>2
  <2>4. r[t] = k
    BY <1>1, <1>5, <2>2, <2>3
  <2> QED BY <2>3, <2>4
<1>8. (n - 1) - 1 = n - 2
  BY <1>1
<1> HIDE DEF r, n
<1>9. {r[t] : t \in DOMAIN r} = 0 .. n - 2
  BY <1>6, <1>7
<1> QED BY <1>4, <1>8, <1>9 DEF Gapless, r, n

\* The tracks are in the table r in their order from row i on, and the others of q.
Widened(q, r, i, tracks) ==
    /\ DOMAIN r = DOMAIN q \cup {tracks[k] : k \in DOMAIN tracks}
    /\ \A t \in DOMAIN q : r[t] = IF q[t] >= i THEN q[t] + Len(tracks) ELSE q[t]
    /\ \A t \in DOMAIN r : t \notin DOMAIN q =>
          \E k \in 1 .. Len(tracks) : tracks[k] = t /\ r[t] = i - 1 + k

LEMMA PutIn ==
    ASSUME NEW q, IsTable(q), NEW i \in Nat, NEW tracks \in Seq(Track)
    PROVE  /\ IsTable(Inserted(q, i, tracks))
           /\ Widened(q, Inserted(q, i, tracks), i, tracks)
<1> DEFINE r == Inserted(q, i, tracks)
           n == Len(tracks)
<1>1. n \in Nat /\ DOMAIN tracks = 1 .. n /\ \A k \in 1 .. n : tracks[k] \in Track
  OBVIOUS
<1>2. /\ DOMAIN r = DOMAIN q \cup {tracks[k] : k \in DOMAIN tracks}
      /\ \A t \in DOMAIN q : r[t] = IF q[t] >= i THEN q[t] + n ELSE q[t]
      /\ \A t \in DOMAIN r : t \notin DOMAIN q => r[t] = Numbered(tracks, i)[t]
  <2> DEFINE new == Numbered(tracks, i)
  <2>1. r = [t \in DOMAIN q \cup DOMAIN new |->
                IF t \notin DOMAIN q THEN new[t]
                ELSE IF q[t] >= i THEN q[t] + n ELSE q[t]]
    BY DEF Inserted
  <2>2. DOMAIN new = {tracks[k] : k \in DOMAIN tracks}
    BY DEF Numbered
  <2> HIDE DEF r, new, n
  <2> QED BY <2>1, <2>2 DEF new
<1> HIDE DEF r
<1>3. ASSUME NEW t \in DOMAIN r, t \notin DOMAIN q
      PROVE  \E k \in 1 .. n : tracks[k] = t /\ r[t] = i - 1 + k
  <2>1. \E k \in DOMAIN tracks : tracks[k] = t
    BY <1>2, <1>3
  <2>2. Numbered(tracks, i)[t] = i - 1 + CHOOSE k \in DOMAIN tracks : tracks[k] = t
    BY <2>1 DEF Numbered
  <2> DEFINE c == CHOOSE k \in DOMAIN tracks : tracks[k] = t
  <2>3. c \in DOMAIN tracks /\ tracks[c] = t
    BY <2>1
  <2>4. r[t] = i - 1 + c
    BY <1>2, <1>3, <2>2
  <2> HIDE DEF c
  <2> QED BY <1>1, <2>3, <2>4
<1>4. \A t \in DOMAIN r : t \in Track
  BY <1>1, <1>2 DEF IsTable
<1>5. \A t \in DOMAIN q : q[t] \in Nat
  BY DEF IsTable
<1> HIDE DEF n
<1>6. \A t \in DOMAIN r : r[t] \in Nat
  BY <1>1, <1>2, <1>3, <1>5
<1>7. ASSUME NEW t \in DOMAIN r, NEW u \in DOMAIN r, r[t] = r[u] PROVE t = u
  <2>1. CASE t \in DOMAIN q /\ u \in DOMAIN q
    <3>1. q[t] = q[u]
      BY <1>1, <1>2, <1>5, <1>7, <2>1
    <3> QED BY <2>1, <3>1 DEF IsTable, NoRowTwice
  <2>2. CASE t \in DOMAIN q /\ u \notin DOMAIN q
    BY <1>1, <1>2, <1>3, <1>5, <1>7, <2>2
  <2>3. CASE t \notin DOMAIN q /\ u \in DOMAIN q
    BY <1>1, <1>2, <1>3, <1>5, <1>7, <2>3
  <2>4. CASE t \notin DOMAIN q /\ u \notin DOMAIN q
    <3>1. PICK k \in 1 .. n : tracks[k] = t /\ r[t] = i - 1 + k
      BY <1>3, <2>4
    <3>2. PICK l \in 1 .. n : tracks[l] = u /\ r[u] = i - 1 + l
      BY <1>3, <2>4
    <3>3. i - 1 + k = i - 1 + l
      BY <1>7, <3>1, <3>2
    <3>4. k = l
      BY <1>1, <3>3
    <3> QED BY <3>1, <3>2, <3>4
  <2> QED BY <2>1, <2>2, <2>3, <2>4
<1>8. IsTable(r)
  BY <1>4, <1>6, <1>7 DEF IsTable, NoRowTwice
<1>9. Widened(q, r, i, tracks)
  BY <1>2, <1>3 DEF Widened, n
<1> QED BY <1>8, <1>9 DEF r

\* The rows from the place on give way to what is put in.
LEMMA PutInGapless ==
    ASSUME NEW q, IsTable(q), Gapless(q), NEW i \in Nat, i <= Cardinality(DOMAIN q),
           NEW tracks \in Seq(Track),
           \A j, k \in DOMAIN tracks : tracks[j] = tracks[k] => j = k,
           \A k \in DOMAIN tracks : tracks[k] \notin DOMAIN q
    PROVE  /\ Gapless(Inserted(q, i, tracks))
           /\ Cardinality(DOMAIN Inserted(q, i, tracks)) = Cardinality(DOMAIN q) + Len(tracks)
<1> DEFINE r == Inserted(q, i, tracks)
           m == Cardinality(DOMAIN q)
           n == Len(tracks)
           T == {tracks[k] : k \in DOMAIN tracks}
<1>1. n \in Nat /\ DOMAIN tracks = 1 .. n /\ \A k \in 1 .. n : tracks[k] \in Track
  OBVIOUS
<1>2. m \in Nat /\ IsFiniteSet(DOMAIN q)
  BY TableFinite
<1>3. /\ DOMAIN r = DOMAIN q \cup T
      /\ \A t \in DOMAIN q : r[t] = IF q[t] >= i THEN q[t] + n ELSE q[t]
      /\ \A t \in DOMAIN r : t \notin DOMAIN q =>
            \E k \in 1 .. n : tracks[k] = t /\ r[t] = i - 1 + k
  <2>1. Widened(q, r, i, tracks)
    BY PutIn
  <2> HIDE DEF r
  <2> QED BY <2>1 DEF Widened
<1>11. /\ \A t \in DOMAIN q : q[t] \in 0 .. m - 1
       /\ \A k \in 0 .. m - 1 : \E t \in DOMAIN q : q[t] = k
  BY RowsListed
<1>4. IsFiniteSet(T) /\ Cardinality(T) = n
  <2> DEFINE f == [k \in 1 .. n |-> tracks[k]]
  <2>2. f \in Bijection(1 .. n, T)
    <3>1. f \in [1 .. n -> T] /\ \A j, k \in 1 .. n : f[j] = f[k] => j = k
      BY <1>1
    <3>2. \A t \in T : \E k \in 1 .. n : f[k] = t
      BY <1>1
    <3> HIDE DEF f, T
    <3> QED BY <3>1, <3>2 DEF Bijection, Injection, Surjection, IsInjective
  <2> HIDE DEF f, T, n
  <2>1. IsFiniteSet(1 .. n) /\ Cardinality(1 .. n) = n
    BY <1>1, FS_Interval
  <2>3. ExistsBijection(1 .. n, T)
    BY <2>2 DEF ExistsBijection
  <2> QED BY <2>1, <2>3, FS_Bijection
<1>5. T \cap DOMAIN q = {}
  OBVIOUS
<1> HIDE DEF r, m, T
<1>6. Cardinality(DOMAIN r) = m + n
  <2>1. Cardinality(DOMAIN q \cup T) = m + n - Cardinality(T \cap DOMAIN q)
    <3>1. T \cap DOMAIN q = DOMAIN q \cap T
      OBVIOUS
    <3> QED BY <1>2, <1>4, <3>1, FS_Union DEF m
  <2>2. Cardinality(T \cap DOMAIN q) = 0
    BY <1>5, FS_EmptySet
  <2> QED BY <1>1, <1>2, <1>3, <2>1, <2>2
<1>7. ASSUME NEW k \in 1 .. n PROVE tracks[k] \in DOMAIN r /\ r[tracks[k]] = i - 1 + k
  <2>1. k \in DOMAIN tracks /\ tracks[k] \in T
    BY <1>1 DEF T
  <2>2. tracks[k] \in DOMAIN r /\ tracks[k] \notin DOMAIN q
    BY <1>3, <1>5, <2>1
  <2>3. PICK j \in 1 .. n : tracks[j] = tracks[k] /\ r[tracks[k]] = i - 1 + j
    BY <1>3, <2>2
  <2>4. j = k
    BY <1>1, <2>1, <2>3
  <2> QED BY <2>2, <2>3, <2>4
<1> HIDE DEF n
<1>8. \A t \in DOMAIN r : r[t] \in 0 .. m + n - 1
  <2>1. ASSUME NEW t \in DOMAIN q PROVE r[t] \in 0 .. m + n - 1
    BY <1>1, <1>2, <1>3, <1>11, <2>1
  <2>2. ASSUME NEW t \in DOMAIN r, t \notin DOMAIN q PROVE r[t] \in 0 .. m + n - 1
    <3>1. PICK k \in 1 .. n : r[t] = i - 1 + k
      BY <1>3, <2>2
    <3>2. i <= m
      BY DEF m
    <3> QED BY <1>1, <1>2, <3>1, <3>2
  <2> QED BY <2>1, <2>2
<1>9. ASSUME NEW k \in 0 .. m + n - 1 PROVE \E t \in DOMAIN r : r[t] = k
  <2>1. CASE k < i
    <3>1. k \in 0 .. m - 1
      BY <1>2, <2>1 DEF m
    <3>2. PICK t \in DOMAIN q : q[t] = k
      BY <1>11, <3>1
    <3> QED BY <1>3, <2>1, <3>2
  <2>2. CASE k >= i + n
    <3>1. k - n \in 0 .. m - 1 /\ k - n >= i /\ (k - n) + n = k
      BY <1>1, <1>2, <2>2
    <3>2. PICK t \in DOMAIN q : q[t] = k - n
      BY <1>11, <3>1
    <3>3. t \in DOMAIN r /\ r[t] = k
      BY <1>3, <3>1, <3>2
    <3> QED BY <3>3
  <2>3. CASE k >= i /\ k < i + n
    <3>1. k - i + 1 \in 1 .. n /\ i - 1 + (k - i + 1) = k
      BY <1>1, <1>2, <2>3
    <3> QED BY <1>7, <3>1
  <2> QED BY <1>1, <1>2, <2>1, <2>2, <2>3
<1>10. {r[t] : t \in DOMAIN r} = 0 .. m + n - 1
  BY <1>8, <1>9
<1>12. Gapless(r)
  <2>1. Cardinality(DOMAIN r) - 1 = m + n - 1
    BY <1>1, <1>2, <1>6
  <2> QED BY <1>10, <2>1 DEF Gapless
<1> QED BY <1>6, <1>12 DEF r, m, n

LEMMA TopRow ==
    ASSUME NEW q, IsTable(q), DOMAIN q # {}
    PROVE  /\ Top(q) \in Nat /\ \A t \in DOMAIN q : q[t] <= Top(q)
           /\ \E x \in DOMAIN q : q[x] = Top(q)
<1> DEFINE n == Cardinality(DOMAIN q)
           r == InOrder(DOMAIN q, q)
<1>1. n \in Nat /\ n # 0 /\ IsFiniteSet(DOMAIN q) /\ Ranked(DOMAIN q, q)
  BY TableFinite, FS_EmptySet
<1>2. /\ r \in Seq(DOMAIN q) /\ Len(r) = n
      /\ \A x \in DOMAIN q : \E k \in 1 .. n : r[k] = x
      /\ \A k, l \in 1 .. n : k < l => q[r[k]] < q[r[l]]
  BY <1>1, InOrderLists
<1>3. \A t \in DOMAIN q : q[t] \in Nat
  BY DEF IsTable
<1> HIDE DEF n, r
<1>4. n \in 1 .. n /\ r[n] \in DOMAIN q
  BY <1>1, <1>2
<1>5. ASSUME NEW t \in DOMAIN q PROVE q[t] <= q[r[n]]
  <2>1. PICK k \in 1 .. n : r[k] = t
    BY <1>2
  <2>2. k = n \/ q[t] < q[r[n]]
    BY <1>1, <1>2, <1>4, <2>1
  <2> QED BY <1>3, <1>4, <2>1, <2>2
<1>6. \E m \in {q[t] : t \in DOMAIN q} : \A t \in DOMAIN q : q[t] <= m
  BY <1>4, <1>5
<1> DEFINE m == Top(q)
<1>7. m \in {q[t] : t \in DOMAIN q} /\ \A t \in DOMAIN q : q[t] <= m
  BY <1>6 DEF Top
<1> HIDE DEF m
<1> QED BY <1>3, <1>7 DEF m

LEMMA PutAside ==
    ASSUME NEW q, IsTable(q), NEW from \in Nat
    PROVE  /\ IsTable(Aside(q, from)) /\ DOMAIN Aside(q, from) = DOMAIN q
           /\ \A t \in DOMAIN q : Aside(q, from)[t] # from
<1> DEFINE r == Aside(q, from)
<1>1. DOMAIN r = DOMAIN q
      /\ \A t \in DOMAIN q : r[t] = IF q[t] = from THEN Top(q) + 1 ELSE q[t]
  BY DEF Aside
<1>2. \A t \in DOMAIN q : q[t] \in Nat /\ Top(q) \in Nat /\ q[t] <= Top(q)
  BY TopRow DEF IsTable
<1> HIDE DEF r
<1>3. \A t \in DOMAIN r : t \in Track /\ r[t] \in Nat /\ r[t] # from
  BY <1>1, <1>2 DEF IsTable
<1>4. \A t, u \in DOMAIN r : r[t] = r[u] => q[t] = q[u]
  BY <1>1, <1>2
<1>5. \A t, u \in DOMAIN r : r[t] = r[u] => t = u
  BY <1>1, <1>4 DEF IsTable, NoRowTwice
<1> QED BY <1>1, <1>3, <1>5 DEF IsTable, NoRowTwice, r

\* Nothing is left at the row something is to be moved to.
LEMMA WayGiven ==
    ASSUME NEW q, IsTable(q), NEW from \in Nat, NEW to \in Nat,
           \A t \in DOMAIN q : q[t] # from
    PROVE  /\ IsTable(GiveWay(q, from, to)) /\ DOMAIN GiveWay(q, from, to) = DOMAIN q
           /\ \A t \in DOMAIN q : GiveWay(q, from, to)[t] # to
<1> DEFINE r == GiveWay(q, from, to)
<1>1. DOMAIN r = DOMAIN q /\ \A t \in DOMAIN q : q[t] \in Nat
  BY DEF GiveWay, IsTable
<1>2. ASSUME NEW t \in DOMAIN q
      PROVE  r[t] = IF from < to
                    THEN IF from <= q[t] /\ q[t] <= to THEN q[t] - 1 ELSE q[t]
                    ELSE IF to <= q[t] /\ q[t] <= from THEN q[t] + 1 ELSE q[t]
  BY <1>1 DEF GiveWay, Lowest, Highest
<1> HIDE DEF r
<1>3. \A t \in DOMAIN q : r[t] \in Nat /\ r[t] # to
  BY <1>1, <1>2
<1>4. \A t, u \in DOMAIN q : r[t] = r[u] => q[t] = q[u]
  <2> SUFFICES ASSUME NEW t \in DOMAIN q, NEW u \in DOMAIN q, r[t] = r[u]
               PROVE  q[t] = q[u]
    OBVIOUS
  <2>1. q[t] \in Nat /\ q[u] \in Nat /\ q[t] # from /\ q[u] # from
    BY <1>1
  <2>2. CASE from < to
    BY <1>2, <2>1, <2>2
  <2>3. CASE ~(from < to)
    BY <1>2, <2>1, <2>3
  <2> QED BY <2>2, <2>3
<1>5. \A t, u \in DOMAIN r : r[t] = r[u] => t = u
  BY <1>1, <1>4 DEF IsTable, NoRowTwice
<1>6. \A t \in DOMAIN r : t \in Track /\ r[t] \in Nat
  BY <1>1, <1>3 DEF IsTable
<1> QED BY <1>1, <1>3, <1>5, <1>6 DEF IsTable, NoRowTwice, r

LEMMA MovedTable ==
    ASSUME NEW q, IsTable(q), NEW from \in Nat, NEW to \in Nat
    PROVE  IsTable(Moved(q, from, to)) /\ DOMAIN Moved(q, from, to) = DOMAIN q
<1> DEFINE a == Aside(q, from)
           s == GiveWay(a, from, to)
           r == Moved(q, from, to)
<1>1. IsTable(a) /\ DOMAIN a = DOMAIN q /\ \A t \in DOMAIN a : a[t] # from
  BY PutAside
<1>2. r = [t \in DOMAIN q |-> IF s[t] = Top(s) THEN to ELSE s[t]]
  BY DEF Moved
<1> HIDE DEF a
<1>3. IsTable(s) /\ DOMAIN s = DOMAIN q /\ \A t \in DOMAIN s : s[t] # to
  BY <1>1, WayGiven
<1> HIDE DEF s, r
<1>4. \A t \in DOMAIN r : r[t] = (IF s[t] = Top(s) THEN to ELSE s[t]) /\ s[t] # to
  BY <1>2, <1>3
<1>5. \A t \in DOMAIN r : t \in Track /\ r[t] \in Nat
  BY <1>2, <1>3, <1>4 DEF IsTable
<1>6. \A t, u \in DOMAIN r : r[t] = r[u] => s[t] = s[u]
  BY <1>4
<1>7. \A t, u \in DOMAIN r : r[t] = r[u] => t = u
  BY <1>2, <1>3, <1>6 DEF IsTable, NoRowTwice
<1> QED BY <1>2, <1>5, <1>7 DEF IsTable, NoRowTwice, r

\* The row of a track after another one, or itself, has been moved.
NewRow(row, from, to) ==
    IF row = from THEN to
    ELSE IF from < row /\ row <= to THEN row - 1
    ELSE IF to <= row /\ row < from THEN row + 1 ELSE row

LEMMA MovedGapless ==
    ASSUME NEW q, IsTable(q), Gapless(q), NEW from \in Nat, NEW to \in Nat, from # to,
           from < Cardinality(DOMAIN q), to < Cardinality(DOMAIN q)
    PROVE  /\ Gapless(Moved(q, from, to))
           /\ \A t \in DOMAIN q : Moved(q, from, to)[t] = NewRow(q[t], from, to)
<1> DEFINE n == Cardinality(DOMAIN q)
           a == Aside(q, from)
           s == GiveWay(a, from, to)
           r == Moved(q, from, to)
<1>1. n \in Nat /\ IsFiniteSet(DOMAIN q)
  BY TableFinite
<1>2. /\ \A t \in DOMAIN q : q[t] \in 0 .. n - 1
      /\ \A k \in 0 .. n - 1 : \E t \in DOMAIN q : q[t] = k
  BY RowsListed
<1>3. IsTable(s) /\ DOMAIN s = DOMAIN q /\ DOMAIN a = DOMAIN q
  <2>1. IsTable(a) /\ DOMAIN a = DOMAIN q /\ \A t \in DOMAIN a : a[t] # from
    BY PutAside
  <2> HIDE DEF a
  <2> QED BY <2>1, WayGiven
<1>4. PICK x \in DOMAIN q : q[x] = from
  BY <1>1, <1>2
<1>5. Top(q) = n - 1
  <2>1. /\ Top(q) \in Nat /\ \A t \in DOMAIN q : q[t] <= Top(q)
        /\ \E y \in DOMAIN q : q[y] = Top(q)
    BY <1>4, TopRow
  <2>2. \E y \in DOMAIN q : q[y] = n - 1
    BY <1>1, <1>2
  <2>3. n - 1 <= Top(q)
    BY <2>1, <2>2
  <2>4. Top(q) <= n - 1
    BY <1>1, <1>2, <2>1
  <2> HIDE DEF n
  <2> QED BY <1>1, <2>1, <2>3, <2>4
<1>6. \A t \in DOMAIN q : a[t] = IF q[t] = from THEN n ELSE q[t]
  <2>1. Top(q) + 1 = n
    BY <1>1, <1>5
  <2> QED BY <2>1 DEF Aside
<1>7. \A t \in DOMAIN q :
        s[t] = IF from < to
               THEN IF from <= a[t] /\ a[t] <= to THEN a[t] - 1 ELSE a[t]
               ELSE IF to <= a[t] /\ a[t] <= from THEN a[t] + 1 ELSE a[t]
  <2> TAKE t \in DOMAIN q
  <2>1. a[t] \in Nat
    BY <1>1, <1>2, <1>6
  <2>2. s[t] = IF a[t] \in Lowest(from, to)..Highest(from, to)
               THEN IF to > from THEN a[t] - 1 ELSE a[t] + 1 ELSE a[t]
    BY <1>3 DEF GiveWay
  <2> HIDE DEF a, s
  <2> QED BY <2>1, <2>2 DEF Lowest, Highest
<1>8. \A t \in DOMAIN q : r[t] = IF s[t] = Top(s) THEN to ELSE s[t]
  BY DEF Moved
<1>9. DOMAIN r = DOMAIN q
  BY MovedTable
<1> HIDE DEF n, a, s, r
<1>10. \A t \in DOMAIN q : s[t] = IF q[t] = from THEN n ELSE NewRow(q[t], from, to)
  <2> TAKE t \in DOMAIN q
  <2>1. from < n /\ to < n
    BY DEF n
  <2>2. CASE q[t] = from
    BY <1>1, <1>2, <1>6, <1>7, <2>1, <2>2
  <2>3. CASE q[t] # from
    <3>1. a[t] = q[t] /\ q[t] \in 0 .. n - 1
      BY <1>2, <1>6, <2>3
    <3>2. CASE from < to
      BY <1>1, <1>7, <2>1, <2>3, <3>1, <3>2 DEF NewRow
    <3>3. CASE ~(from < to)
      BY <1>1, <1>7, <2>1, <2>3, <3>1, <3>3 DEF NewRow
    <3> QED BY <3>2, <3>3
  <2> QED BY <2>2, <2>3
<1>11. \A t \in DOMAIN q : NewRow(q[t], from, to) \in 0 .. n - 1
  BY <1>1, <1>2 DEF NewRow, n
<1>12. Top(s) = n
  <2>1. /\ Top(s) \in Nat /\ \A t \in DOMAIN q : s[t] <= Top(s)
        /\ \E y \in DOMAIN q : s[y] = Top(s)
    BY <1>3, <1>4, TopRow
  <2>2. s[x] = n
    BY <1>4, <1>10
  <2>3. \A t \in DOMAIN q : s[t] \in Nat /\ s[t] <= n
    BY <1>1, <1>10, <1>11
  <2> QED BY <1>1, <2>1, <2>2, <2>3
<1>13. ASSUME NEW t \in DOMAIN q PROVE r[t] = NewRow(q[t], from, to)
  <2>1. CASE q[t] = from
    BY <1>8, <1>10, <1>12, <2>1 DEF NewRow
  <2>2. CASE q[t] # from
    <3>1. s[t] = NewRow(q[t], from, to) /\ s[t] \in 0 .. n - 1
      BY <1>10, <1>11, <2>2
    <3>2. s[t] # Top(s)
      BY <1>1, <1>12, <3>1
    <3> QED BY <1>8, <3>1, <3>2
  <2> QED BY <2>1, <2>2
<1>14. ASSUME NEW k \in 0 .. n - 1 PROVE \E t \in DOMAIN q : r[t] = k
  <2> DEFINE j == NewRow(k, to, from)
  <2>1. j \in 0 .. n - 1 /\ NewRow(j, from, to) = k
    BY <1>1 DEF NewRow, n
  <2>2. PICK t \in DOMAIN q : q[t] = j
    BY <1>2, <2>1
  <2> QED BY <1>13, <2>1, <2>2
<1>15. {r[t] : t \in DOMAIN r} = 0 .. Cardinality(DOMAIN r) - 1
  <2>1. Cardinality(DOMAIN r) = n
    BY <1>9 DEF n
  <2>2. \A t \in DOMAIN r : r[t] \in 0 .. n - 1
    BY <1>9, <1>11, <1>13
  <2>3. {r[t] : t \in DOMAIN r} = 0 .. n - 1
    BY <1>9, <1>14, <2>2
  <2> QED BY <2>1, <2>3
<1>16. Gapless(r)
  BY <1>15 DEF Gapless
<1> QED BY <1>13, <1>16 DEF r

------------------------------------------------------------------------------
(* Jobs and events.                                                          *)
LEMMA SeqWider ==
    ASSUME NEW S, NEW T, S \subseteq T, NEW s \in Seq(S)
    PROVE  s \in Seq(T)
  OBVIOUS

LEMMA Appended ==
    ASSUME NEW S, NEW s \in Seq(S), NEW e \in S
    PROVE  Append(s, e) = s \o <<e>> /\ <<e>> \in Seq(S) /\ Len(<<e>>) = 1
           /\ \A i \in DOMAIN <<e>> : i = 1 /\ <<e>>[i] = e
  OBVIOUS

LEMMA Part ==
    ASSUME NEW S, NEW s \in Seq(S), NEW m \in Nat, NEW n \in Nat, n <= Len(s),
           m >= 1, m <= n + 1
    PROVE  /\ SubSeq(s, m, n) \in Seq(S) /\ Len(SubSeq(s, m, n)) = n - m + 1
           /\ \A i \in 1 .. n - m + 1 : SubSeq(s, m, n)[i] = s[m + i - 1]
  OBVIOUS

LEMMA TimesTyped ==
    ASSUME NEW S, NEW n \in Nat, NEW e \in S
    PROVE  /\ Times(n, e) \in Seq(S) /\ Len(Times(n, e)) = n
           /\ DOMAIN Times(n, e) = 1 .. n /\ \A i \in 1 .. n : Times(n, e)[i] = e
<1>1. Times(n, e) \in [1 .. n -> S] /\ \A i \in 1 .. n : Times(n, e)[i] = e
  BY DEF Times
<1> QED BY <1>1

LEMMA EventFields ==
    ASSUME NEW e \in Event
    PROVE  /\ e.kind = "countChanged" => e.length \in Nat
           /\ e.kind = "dataFetched" => /\ e.id \in Session /\ e.items \in Seq(Track)
                                        /\ e.start \in Nat /\ e.more \in BOOLEAN
           /\ e.kind = "dataChanged" => /\ e.items \in Seq(Track)
                                        /\ e.start \in Nat /\ e.count \in Nat
           /\ e.kind = "currentIndexChanged" => e.index \in Index
           /\ e.kind = "currentTrackChanged" => e.track \in Row
           /\ e.kind = "playTrack" => e.track \in Track
           /\ e.kind \in {"countChanged", "dataFetched", "dataChanged", "currentIndexChanged",
                          "currentTrackChanged", "playTrack", "stateChanged"}
<1>1. CASE e \in [kind : {"countChanged"}, length : Nat]
  BY <1>1
<1>2. CASE e \in [kind : {"dataFetched"}, id : Session, items : Seq(Track), start : Nat,
                  more : BOOLEAN]
  BY <1>2
<1>3. CASE e \in [kind : {"dataChanged"}, items : Seq(Track), start : Nat, count : Nat]
  BY <1>3
<1>4. CASE e \in [kind : {"currentIndexChanged"}, index : Index]
  BY <1>4
<1>5. CASE e \in [kind : {"currentTrackChanged"}, track : Row]
  BY <1>5
<1>6. CASE e \in [kind : {"playTrack"}, track : Track]
  BY <1>6
<1>7. CASE e \in [kind : {"stateChanged"}]
  BY <1>7
<1> QED BY <1>1, <1>2, <1>3, <1>4, <1>5, <1>6, <1>7 DEF Event

LEMMA EventsTyped ==
           /\ \A n \in Nat : [kind |-> "countChanged", length |-> n] \in Event
           /\ \A i \in Session, l \in Seq(Track), n \in Nat, b \in BOOLEAN :
                [kind |-> "dataFetched", id |-> i, items |-> l, start |-> n, more |-> b] \in Event
           /\ \A l \in Seq(Track), n, m \in Nat :
                [kind |-> "dataChanged", items |-> l, start |-> n, count |-> m] \in Event
           /\ \A i \in Index : [kind |-> "currentIndexChanged", index |-> i] \in Event
           /\ \A t \in Row : [kind |-> "currentTrackChanged", track |-> t] \in Event
           /\ \A t \in Track : [kind |-> "playTrack", track |-> t] \in Event
           /\ [kind |-> "stateChanged"] \in Event
<1>1. \A n \in Nat : [kind |-> "countChanged", length |-> n] \in Event
  BY DEF Event
<1>2. \A i \in Session, l \in Seq(Track), n \in Nat, b \in BOOLEAN :
        [kind |-> "dataFetched", id |-> i, items |-> l, start |-> n, more |-> b] \in Event
  BY DEF Event
<1>3. \A l \in Seq(Track), n, m \in Nat :
        [kind |-> "dataChanged", items |-> l, start |-> n, count |-> m] \in Event
  BY DEF Event
<1>4. \A i \in Index : [kind |-> "currentIndexChanged", index |-> i] \in Event
  BY DEF Event
<1>5. \A t \in Row : [kind |-> "currentTrackChanged", track |-> t] \in Event
  BY DEF Event
<1>6. \A t \in Track : [kind |-> "playTrack", track |-> t] \in Event
  BY DEF Event
<1>7. [kind |-> "stateChanged"] \in Event
  BY DEF Event
<1> QED BY <1>1, <1>2, <1>3, <1>4, <1>5, <1>6, <1>7

\* What the worker emits reaches the receivers that are connected.
LEMMA SignalsTyped ==
    ASSUME TypeInv, NEW e \in Event
    PROVE  /\ ToQueue(e) \in Seq(Event) /\ Len(ToQueue(e)) = links
           /\ links \in Nat /\ links <= MaxSession
           /\ DOMAIN ToQueue(e) = 1 .. links
           /\ \A i \in DOMAIN ToQueue(e) : ToQueue(e)[i] = e
           /\ ToPlayer(e) \in Seq(Event)
           /\ \A i \in DOMAIN ToPlayer(e) : ToPlayer(e)[i] = e
           /\ connected => ToPlayer(e) = <<e>>
<1>1. links \in Nat /\ links <= MaxSession
  BY PlayerAssumption DEF TypeInv, TypeOK
<1>2. ToPlayer(e) \in Seq(Event) /\ \A i \in DOMAIN ToPlayer(e) : ToPlayer(e)[i] = e
  BY DEF ToPlayer
<1>3. connected => ToPlayer(e) = <<e>>
  BY DEF ToPlayer
<1> QED BY <1>1, <1>2, <1>3, TimesTyped DEF ToQueue

Fresh(j, kind, start, n, tracks) ==
    /\ j \in Job /\ ~j.done /\ j.kind = kind /\ j.id = identifier
    /\ j.start = start /\ j.count = n /\ j.tracks = tracks

LEMMA NewJobTyped ==
    ASSUME TypeInv, NEW kind \in Edits \cup {"Select", "SetIndex"}, NEW start \in Nat,
           NEW n \in Nat, NEW tracks \in Seq(Track)
    PROVE  Fresh(NewJob(kind, start, n, tracks), kind, start, n, tracks)
<1>1. identifier \in Session
  BY DEF TypeInv, TypeOK
<1>2. <<>> \in Seq(Track)
  OBVIOUS
<1> QED BY <1>1, <1>2 DEF NewJob, Job, Fresh

\* The jobs asked for are done in their order: those added are not done yet.
JobsOK(js) == js \in Seq(Job) /\ \A p \in DOMAIN js : p > 1 => ~js[p].done

LEMMA JobsAdded ==
    ASSUME NEW js, JobsOK(js), NEW x \in Seq(Job), \A p \in DOMAIN x : ~x[p].done
    PROVE  JobsOK(js \o x)
<1>1. /\ js \o x \in Seq(Job) /\ Len(js \o x) = Len(js) + Len(x)
      /\ \A i \in 1 .. Len(js \o x) :
            \/ i \in 1 .. Len(js) /\ (js \o x)[i] = js[i]
            \/ i - Len(js) \in 1 .. Len(x) /\ (js \o x)[i] = x[i - Len(js)]
  BY Joined DEF JobsOK
<1> DEFINE y == js \o x
<1>2. DOMAIN js = 1 .. Len(js) /\ DOMAIN x = 1 .. Len(x) /\ DOMAIN y = 1 .. Len(y)
  BY <1>1 DEF JobsOK
<1> HIDE DEF y
<1>3. ASSUME NEW i \in DOMAIN y, i > 1 PROVE ~y[i].done
  <2>1. CASE i \in 1 .. Len(js) /\ y[i] = js[i]
    BY <1>2, <1>3, <2>1 DEF JobsOK
  <2>2. CASE i - Len(js) \in 1 .. Len(x) /\ y[i] = x[i - Len(js)]
    BY <1>2, <2>2
  <2> QED BY <1>1, <1>2, <2>1, <2>2 DEF y
<1> QED BY <1>1, <1>3 DEF JobsOK, y

LEMMA JobsTaken ==
    ASSUME NEW js, JobsOK(js), js # <<>>
    PROVE  /\ JobsOK(Tail(js)) /\ Tail(js) \in Seq(Job) /\ Head(js) \in Job
           /\ \A p \in DOMAIN Tail(js) : ~Tail(js)[p].done
<1>1. /\ Tail(js) \in Seq(Job) /\ Len(Tail(js)) = Len(js) - 1 /\ Len(js) \in Nat \ {0}
      /\ Head(js) \in Job
      /\ \A i \in 1 .. Len(js) - 1 : Tail(js)[i] = js[i + 1]
  BY TailKeeps DEF JobsOK
<1>2. DOMAIN js = 1 .. Len(js) /\ DOMAIN Tail(js) = 1 .. Len(js) - 1
  BY <1>1 DEF JobsOK
<1>3. ASSUME NEW p \in DOMAIN Tail(js) PROVE ~Tail(js)[p].done
  <2>1. p + 1 \in DOMAIN js /\ p + 1 > 1 /\ Tail(js)[p] = js[p + 1]
    BY <1>1, <1>2
  <2> QED BY <2>1 DEF JobsOK
<1> QED BY <1>1, <1>3 DEF JobsOK

LEMMA JobFields ==
    ASSUME NEW j \in Job
    PROVE  /\ j.kind \in Edits \cup {"Select", "SetIndex"} /\ j.id \in Session
           /\ j.start \in Nat /\ j.count \in Nat /\ j.tracks \in Seq(Track)
           /\ j.done \in BOOLEAN /\ j.list \in Seq(Track)
  BY DEF Job

LEMMA EventsAdded ==
    ASSUME TypeInv, NEW x \in Seq(Event)
    PROVE  events \o x \in Seq(Event)
  BY DEF TypeInv, TypeOK

LEMMA TypeInvFacts ==
    ASSUME TypeInv
    PROVE  JobsOK(jobs) /\ IsTable(queue) /\ IsFiniteSet(DOMAIN queue) /\ Size \in Nat
<1>1. JobsOK(jobs) /\ IsTable(queue)
  BY DEF TypeInv, TypeOK, JobsOK, IsTable
<1> QED BY <1>1, TableFinite DEF Size

LEMMA ResultTyped ==
    ASSUME NEW q, IsTable(q), NEW j \in Job
    PROVE  Result(j, q) \in Seq(Track)
<1>1. /\ j.start \in Nat /\ j.count \in Nat /\ Len(j.tracks) \in Nat
  BY JobFields
<1>2. CASE j.kind = "Select"
  <2> DEFINE n == Cardinality(DOMAIN q)
             high == Lowest(j.start + j.count, n)
  <2>1. Rows(q) \in Seq(Track) /\ Len(Rows(q)) = n /\ n \in Nat
    BY TableFinite, ListTyped DEF Rows
  <2>2. Result(j, q) = SubSeq(Rows(q), j.start + 1, high)
    BY <1>2 DEF Result
  <2>3. high \in Nat /\ high <= n
    BY <1>1, <2>1 DEF Lowest
  <2> HIDE DEF n, high
  <2>4. CASE j.start + 1 <= high + 1
    BY <1>1, <2>1, <2>2, <2>3, <2>4, Part
  <2>5. CASE ~(j.start + 1 <= high + 1)
    <3>1. SubSeq(Rows(q), j.start + 1, high) = <<>>
      BY <1>1, <2>1, <2>3, <2>5
    <3>2. <<>> \in Seq(Track)
      OBVIOUS
    <3> QED BY <2>2, <3>1, <3>2
  <2> QED BY <2>4, <2>5
<1>3. CASE j.kind = "Insert"
  <2>1. CASE j.start + Len(j.tracks) - 1 \in Nat
    BY <1>1, <1>3, <2>1, BetweenListed DEF Result
  <2>2. CASE j.start + Len(j.tracks) - 1 \notin Nat
    <3>1. {t \in DOMAIN q : q[t] \in j.start .. j.start + Len(j.tracks) - 1} \in SUBSET (DOMAIN q)
      OBVIOUS
    <3>2. Between(q, j.start, j.start + Len(j.tracks) - 1) \in Seq(Track)
      BY <3>1, ListTyped DEF Between
    <3> QED BY <1>3, <3>2 DEF Result
  <2> QED BY <2>1, <2>2
<1>4. CASE j.kind = "SetIndex"
  BY <1>1, <1>4, BetweenListed DEF Result
<1>5. CASE j.kind = "Move"
  <2>1. Lowest(j.start, j.count) \in Nat /\ Highest(j.start, j.count) \in Nat
    BY <1>1 DEF Lowest, Highest
  <2> QED BY <1>5, <2>1, BetweenListed DEF Result
<1>6. CASE j.kind = "Remove"
  BY <1>6 DEF Result
<1> QED BY <1>2, <1>3, <1>4, <1>5, <1>6, JobFields DEF Edits

------------------------------------------------------------------------------
(* Type correctness: what the proofs about TypeInv have in common.           *)
LEMMA InitTyped == Init => TypeInv
<1> SUFFICES ASSUME Init PROVE TypeInv
  OBVIOUS
<1>1. PICK s \in InitialQueues :
        queue = [t \in {s[i] : i \in DOMAIN s} |-> (CHOOSE i \in DOMAIN s : s[i] = t) - 1]
  BY DEF Init
<1>2. s \in Seq(Track) /\ DOMAIN s = 1 .. Len(s) /\ Len(s) \in Nat
  BY PlayerAssumption
<1>3. ASSUME NEW t \in DOMAIN queue
      PROVE  t \in Track /\ queue[t] \in Nat /\ s[queue[t] + 1] = t
  <2>1. queue[t] = (CHOOSE i \in DOMAIN s : s[i] = t) - 1 /\ \E i \in DOMAIN s : s[i] = t
    BY <1>1, <1>3
  <2>2. PICK i \in DOMAIN s : s[i] = t /\ queue[t] = i - 1
    BY <2>1
  <2> QED BY <1>2, <2>2
<1>4. DOMAIN queue \subseteq Track /\ \A t \in DOMAIN queue : queue[t] \in Nat
  BY <1>3
<1>5. NoRowTwice(queue)
  BY <1>3 DEF NoRowTwice
<1>6. 1 \in Session /\ 0 \in 0..MaxSession /\ 0 \in 0..MaxUses
  BY PlayerAssumption DEF Session
<1>7. itemList \in Seq(Row) /\ jobs \in Seq(Job) /\ events \in Seq(Event)
  BY DEF Init
<1>8. /\ loadingType \in {"FetchMore", "DataChanged"} /\ fetchedCount \in Nat
      /\ moreAvailable \in BOOLEAN /\ connected \in BOOLEAN /\ count \in Nat
      /\ {currentIndex, shownIndex} \subseteq Index /\ shownTrack \in Row /\ media \in Row
      /\ {playMode, shownMode} \subseteq Mode
      /\ {requested, playState, shownState} \subseteq PlayState /\ playing \in PlayState
      /\ mediaStatus \in {"NoMedia", "Loading", "Loaded", "EndOfMedia"}
  BY DEF Init, Index, Row, Mode, PlayState
<1>9. /\ connected = FALSE /\ links = 0 /\ identifier = 1 /\ uses = 0 /\ off = {}
      /\ jobs = <<>>
  BY DEF Init
<1> QED BY <1>4, <1>5, <1>6, <1>7, <1>8, <1>9 DEF TypeInv, TypeOK

\* The state of QMediaPlayer and what the simulator makes of it.
LEMMA ReachesTyped ==
    ASSUME TypeInv, NEW state \in PlayState, NEW heard, Reaches(state, heard)
    PROVE  playing' \in PlayState /\ {playState', shownState'} \subseteq PlayState
  BY DEF Reaches, Passed, OnPlayStateChanged, TypeInv, TypeOK

LEMMA StartsTyped ==
    ASSUME TypeInv
    PROVE  Starts \in PlayState
  BY DEF Starts, TypeInv, TypeOK, PlayState

\* An index is chosen.
LEMMA ChooseTyped ==
    ASSUME TypeInv, NEW index, Choose(index)
    PROVE  /\ currentIndex' \in Index /\ JobsOK(jobs')
           /\ off' \subseteq {"race", "move", "first", "album"}
<1>1. JobsOK(jobs) /\ jobs \in Seq(Job)
  BY TypeInvFacts DEF JobsOK
<1>2. CASE Sets(index)
  <2>1. index \in Nat
    BY <1>2 DEF Sets, TypeInv, TypeOK
  <2>2. SetIndexJob(index) \in Job /\ ~SetIndexJob(index).done
    <3>1. <<>> \in Seq(Track) /\ 0 \in Nat
      OBVIOUS
    <3>2. Fresh(NewJob("SetIndex", index, 0, <<>>), "SetIndex", index, 0, <<>>)
      BY <2>1, <3>1, NewJobTyped
    <3> QED BY <3>2 DEF SetIndexJob, Fresh
  <2>3. currentIndex' = index /\ jobs' = Append(jobs, SetIndexJob(index))
        /\ off' \subseteq off \cup {"race"}
    BY <1>2 DEF Choose
  <2> DEFINE j == SetIndexJob(index)
  <2> HIDE DEF j
  <2>4. jobs' = jobs \o <<j>> /\ <<j>> \in Seq(Job) /\ \A p \in DOMAIN <<j>> : ~<<j>>[p].done
    BY <1>1, <2>2, <2>3, Appended DEF j
  <2>5. JobsOK(jobs')
    BY <1>1, <2>4, JobsAdded
  <2> QED BY <2>1, <2>3, <2>5 DEF Index, TypeInv, TypeOK
<1>3. CASE ~Sets(index)
  BY <1>1, <1>3 DEF Choose, TypeInv, TypeOK
<1> QED BY <1>2, <1>3

\* One more job, or as many as there are connections.
LEMMA JobAppended ==
    ASSUME TypeInv, NEW j \in Job, ~j.done, jobs' = Append(jobs, j)
    PROVE  /\ JobsOK(jobs') /\ jobs' = jobs \o <<j>> /\ <<j>> \in Seq(Job) /\ Len(<<j>>) = 1
           /\ \A p \in DOMAIN <<j>> : <<j>>[p] = j
<1>1. JobsOK(jobs) /\ jobs \in Seq(Job)
  BY TypeInvFacts DEF JobsOK
<1>2. jobs' = jobs \o <<j>> /\ <<j>> \in Seq(Job) /\ \A p \in DOMAIN <<j>> : <<j>>[p] = j
  BY <1>1, Appended
<1>3. JobsOK(jobs')
  <2> DEFINE x == <<j>>
  <2>1. x \in Seq(Job) /\ \A p \in DOMAIN x : ~x[p].done
    BY <1>2
  <2> HIDE DEF x
  <2>2. JobsOK(jobs \o x)
    BY <1>1, <2>1, JobsAdded
  <2> QED BY <1>2, <2>2 DEF x
<1> QED BY <1>2, <1>3

LEMMA SelectTyped ==
    ASSUME TypeInv, NEW start \in Nat
    PROVE  /\ SelectJob(start) \in Job /\ ~SelectJob(start).done
           /\ SelectJob(start).kind = "Select" /\ SelectJob(start).id = identifier
           /\ SelectJob(start).start = start /\ SelectJob(start).count = ChunkSize
<1>1. ChunkSize \in Nat /\ <<>> \in Seq(Track)
  BY PlayerAssumption
<1>2. "Select" \in Edits \cup {"Select", "SetIndex"}
  OBVIOUS
<1> DEFINE j == NewJob("Select", start, ChunkSize, <<>>)
<1>3. /\ j \in Job /\ ~j.done /\ j.kind = "Select" /\ j.id = identifier
      /\ j.start = start /\ j.count = ChunkSize
  <2>1. Fresh(j, "Select", start, ChunkSize, <<>>)
    BY <1>1, <1>2, NewJobTyped
  <2> QED BY <2>1 DEF Fresh
<1>4. SelectJob(start) = j
  BY DEF SelectJob
<1> HIDE DEF j
<1> QED BY <1>3, <1>4

\* The first job is taken; the table stays as it is.
LEMMA HeadFields ==
    ASSUME TypeInv, jobs # <<>>
    PROVE  /\ Head(jobs) \in Job /\ Head(jobs) = jobs[1] /\ 1 \in DOMAIN jobs
           /\ Head(jobs).kind \in Edits \cup {"Select", "SetIndex"}
           /\ Head(jobs).id \in Session
           /\ Head(jobs).start \in Nat /\ Head(jobs).count \in Nat
           /\ Head(jobs).tracks \in Seq(Track)
           /\ Head(jobs).done \in BOOLEAN /\ Head(jobs).list \in Seq(Track)
           /\ JobsOK(Tail(jobs)) /\ Tail(jobs) \in Seq(Job)
           /\ Len(Tail(jobs)) = Len(jobs) - 1 /\ Len(jobs) \in Nat \ {0}
           /\ \A i \in 1 .. Len(jobs) - 1 : Tail(jobs)[i] = jobs[i + 1]
           /\ \A p \in DOMAIN Tail(jobs) : ~Tail(jobs)[p].done
<1>1. JobsOK(jobs) /\ jobs \in Seq(Job)
  BY TypeInvFacts DEF JobsOK
<1>2. /\ Head(jobs) \in Job /\ Head(jobs) = jobs[1] /\ Len(jobs) \in Nat \ {0}
      /\ Len(Tail(jobs)) = Len(jobs) - 1
      /\ \A i \in 1 .. Len(jobs) - 1 : Tail(jobs)[i] = jobs[i + 1]
  BY <1>1, TailKeeps
<1>3. 1 \in DOMAIN jobs
  BY <1>1, <1>2
<1>4. /\ JobsOK(Tail(jobs)) /\ Tail(jobs) \in Seq(Job)
      /\ \A p \in DOMAIN Tail(jobs) : ~Tail(jobs)[p].done
  BY <1>1, JobsTaken
<1> DEFINE j == Head(jobs)
<1>5. j \in Job
  BY <1>2
<1> HIDE DEF j
<1>6. /\ j.kind \in Edits \cup {"Select", "SetIndex"} /\ j.id \in Session
      /\ j.start \in Nat /\ j.count \in Nat /\ j.tracks \in Seq(Track)
      /\ j.done \in BOOLEAN /\ j.list \in Seq(Track)
  BY <1>5, JobFields
<1> QED BY <1>2, <1>3, <1>4, <1>6 DEF j

LEMMA Announced ==
    ASSUME TypeInv, jobs # <<>>, NEW start \in Nat, NEW n \in Nat
    PROVE  /\ [kind |-> "dataChanged", items |-> Head(jobs).list, start |-> start, count |-> n]
                \in Event
           /\ DataChanged(start, n) \in Seq(Event)
<1>1. Head(jobs).list \in Seq(Track)
  BY HeadFields
<1>2. [kind |-> "dataChanged", items |-> Head(jobs).list, start |-> start, count |-> n] \in Event
  BY <1>1, EventsTyped
<1> QED BY <1>2, SignalsTyped DEF DataChanged

LEMMA IndexAnnounced ==
    ASSUME TypeInv, NEW index \in Index
    PROVE  IndexChanged(index) \in Seq(Event)
<1>1. [kind |-> "currentIndexChanged", index |-> index] \in Event
  BY EventsTyped
<1> QED BY <1>1, SignalsTyped DEF IndexChanged

------------------------------------------------------------------------------
(* TypeInv by the parts the actions change or leave alone.                   *)
ViewType ==
    /\ loadingType \in {"FetchMore", "DataChanged"} /\ itemList \in Seq(Row)
    /\ fetchedCount \in Nat /\ moreAvailable \in BOOLEAN

ShownType == shownIndex \in Index /\ shownTrack \in Row

SessionType ==
    /\ connected \in BOOLEAN /\ links \in 0..MaxSession /\ identifier \in Session
    /\ links = (IF connected THEN identifier ELSE identifier - 1)
    /\ connected => identifier <= MaxSession

MediaType ==
    /\ media \in Row /\ playing \in PlayState
    /\ mediaStatus \in {"NoMedia", "Loading", "Loaded", "EndOfMedia"}
    /\ playState \in PlayState /\ shownState \in PlayState

TableType == IsTable(queue) /\ count \in Nat
ModeType == playMode \in Mode /\ shownMode \in Mode
OffType == off \subseteq {"race", "move", "first", "album"}

LEMMA TypeParts ==
    ASSUME TypeInv
    PROVE  /\ ViewType /\ ShownType /\ SessionType /\ MediaType /\ TableType
           /\ currentIndex \in Index /\ ModeType /\ requested \in PlayState
           /\ JobsOK(jobs) /\ events \in Seq(Event) /\ uses \in 0..MaxUses /\ OffType
  BY DEF TypeInv, TypeOK, ViewType, ShownType, SessionType, MediaType, TableType, IsTable,
         ModeType, JobsOK, OffType

LEMMA TypeJoined ==
    ASSUME ViewType', ShownType', SessionType', MediaType', TableType',
           currentIndex' \in Index, ModeType', requested' \in PlayState,
           JobsOK(jobs'), events' \in Seq(Event), uses' \in 0..MaxUses, OffType'
    PROVE  TypeInv'
  BY DEF TypeInv, TypeOK, ViewType, ShownType, SessionType, MediaType, TableType, IsTable,
         ModeType, JobsOK, OffType, NoRowTwice

\* What an action leaves alone stays as it is.
LEMMA TypeStays ==
    ASSUME TypeInv
    PROVE  /\ UNCHANGED viewVars => ViewType'
           /\ UNCHANGED shownVars => ShownType'
           /\ UNCHANGED sessionVars => SessionType'
           /\ UNCHANGED mediaVars => MediaType'
           /\ UNCHANGED <<queue, count>> => TableType'
           /\ UNCHANGED currentIndex => currentIndex' \in Index
           /\ UNCHANGED modeVars => ModeType'
           /\ UNCHANGED requested => requested' \in PlayState
           /\ UNCHANGED jobs => JobsOK(jobs')
           /\ UNCHANGED events => events' \in Seq(Event)
           /\ UNCHANGED uses => uses' \in 0..MaxUses
           /\ UNCHANGED off => OffType'
<1>1. /\ ViewType /\ ShownType /\ SessionType /\ MediaType /\ TableType
      /\ currentIndex \in Index /\ ModeType /\ requested \in PlayState
      /\ JobsOK(jobs) /\ events \in Seq(Event) /\ uses \in 0..MaxUses /\ OffType
  BY TypeParts
<1>2. /\ UNCHANGED viewVars => ViewType'
      /\ UNCHANGED shownVars => ShownType'
      /\ UNCHANGED sessionVars => SessionType'
  BY <1>1 DEF viewVars, shownVars, sessionVars, ViewType, ShownType, SessionType
<1>3. UNCHANGED mediaVars => MediaType'
  BY <1>1 DEF mediaVars, stateVars, MediaType
<1>4. UNCHANGED <<queue, count>> => TableType'
  BY <1>1 DEF TableType
<1>5. UNCHANGED modeVars => ModeType'
  BY <1>1 DEF modeVars, ModeType
<1>6. UNCHANGED jobs => JobsOK(jobs')
  BY <1>1
<1>7. UNCHANGED off => OffType'
  BY <1>1 DEF OffType
<1> QED BY <1>1, <1>2, <1>3, <1>4, <1>5, <1>6, <1>7

LEMMA UseTyped == ASSUME TypeInv, Use PROVE uses' \in 0..MaxUses
  BY PlayerAssumption DEF Use, TypeInv, TypeOK

LEMMA ResetTyped ==
    ASSUME NEW x, ResetModel(x), loadingType' \in {"FetchMore", "DataChanged"}
    PROVE  ViewType'
<1>1. itemList' = <<>> /\ fetchedCount' = 0 /\ moreAvailable' = FALSE
  BY DEF ResetModel
<1>2. <<>> \in Seq(Row)
  OBVIOUS
<1> QED BY <1>1, <1>2 DEF ViewType

LEMMA ConnectTyped == ASSUME TypeInv, Connect PROVE TypeInv'
<1>1. SessionType'
  <2>1. /\ ~connected /\ identifier <= MaxSession /\ connected' = TRUE
        /\ links' = links + 1 /\ identifier' = identifier
    BY DEF Connect
  <2>2. SessionType /\ MaxSession \in Nat /\ Session \subseteq Nat
    BY TypeParts, PlayerAssumption DEF Session
  <2> QED BY <2>1, <2>2 DEF SessionType
<1>2. ViewType'
  <2>1. /\ ResetModel([i \in 1..links + 1 |-> SelectJob(0)])
        /\ loadingType' = loadingType
    BY DEF Connect
  <2> QED BY <2>1, ResetTyped, TypeParts DEF ViewType
<1>3. JobsOK(jobs')
  <2>1. SelectJob(0) \in Job /\ ~SelectJob(0).done
    BY SelectTyped
  <2>2. links + 1 \in Nat /\ jobs' = jobs \o [i \in 1..links + 1 |-> SelectJob(0)]
    BY SignalsTyped, EventsTyped DEF Connect, ResetModel
  <2> DEFINE x == Times(links + 1, SelectJob(0))
  <2>3. x \in Seq(Job) /\ DOMAIN x = 1 .. links + 1 /\ \A i \in 1 .. links + 1 : x[i] = SelectJob(0)
    BY <2>1, <2>2, TimesTyped
  <2>4. jobs' = jobs \o x
    BY <2>2 DEF Times
  <2> HIDE DEF x
  <2> QED BY <2>1, <2>3, <2>4, JobsAdded, TypeParts
<1>4. /\ ShownType' /\ MediaType' /\ TableType' /\ currentIndex' \in Index /\ ModeType'
      /\ requested' \in PlayState /\ events' \in Seq(Event) /\ uses' \in 0..MaxUses /\ OffType'
  BY TypeStays DEF Connect
<1> QED BY <1>1, <1>2, <1>3, <1>4, TypeJoined

LEMMA DisconnectTyped == ASSUME TypeInv, Disconnect PROVE TypeInv'
<1>1. SessionType'
  <2>1. /\ connected /\ connected' = FALSE /\ links' = links /\ identifier' = identifier + 1
    BY DEF Disconnect, ClearQueue
  <2>2. SessionType /\ MaxSession \in Nat \ {0}
    BY TypeParts, PlayerAssumption
  <2>3. identifier \in 1 .. MaxSession + 1 /\ identifier <= MaxSession /\ links = identifier
    BY <2>1, <2>2 DEF SessionType, Session
  <2>4. identifier' \in Session /\ links' = identifier' - 1 /\ links' \in 0..MaxSession
    BY <2>1, <2>2, <2>3 DEF Session
  <2> QED BY <2>1, <2>4 DEF SessionType
<1>2. ViewType' /\ ShownType' /\ ModeType'
  <2>1. ResetModel(<<>>) /\ loadingType' = "FetchMore"
    BY DEF Disconnect, ClearQueue
  <2>2. ViewType'
    BY <2>1, ResetTyped
  <2>3. ShownType' /\ ModeType'
    BY TypeParts DEF Disconnect, ClearQueue, ClearPlayer, OnPlayModeChanged,
                     ShownType, ModeType, Index, Row, Mode
  <2> QED BY <2>2, <2>3
<1>3. JobsOK(jobs')
  <2>1. jobs' = jobs \o <<>>
    BY DEF Disconnect, ClearQueue, ResetModel
  <2>2. JobsOK(jobs)
    BY TypeParts
  <2>3. jobs' = jobs
    BY <2>1, <2>2 DEF JobsOK
  <2> QED BY <2>2, <2>3
<1>4. /\ MediaType' /\ TableType' /\ currentIndex' \in Index
      /\ requested' \in PlayState /\ events' \in Seq(Event) /\ uses' \in 0..MaxUses /\ OffType'
  BY TypeStays, UseTyped DEF Disconnect
<1> QED BY <1>1, <1>2, <1>3, <1>4, TypeJoined

LEMMA SkipTyped == ASSUME TypeInv, NEW index, Skip(index) PROVE TypeInv'
<1>1. /\ ViewType' /\ SessionType' /\ TableType' /\ ModeType'
      /\ requested' \in PlayState /\ events' \in Seq(Event) /\ uses' \in 0..MaxUses
  BY TypeStays, UseTyped DEF Skip
<1>2. CASE Empties(index)
  <2>1. Empty(index) /\ index = -1
    BY <1>2 DEF Skip, Empties
  <2>2. currentIndex' \in Index /\ ShownType' /\ JobsOK(jobs') /\ OffType'
    BY <2>1, TypeParts DEF Empty, Index, ShownType, Row, OffType
  <2>3. MediaType'
    <3>1. "Stopped" \in PlayState
      BY DEF PlayState
    <3>2. Reaches("Stopped", "Stopped" # playing)
      BY <2>1 DEF Empty, Plays
    <3>3. playing' \in PlayState /\ {playState', shownState'} \subseteq PlayState
      BY <3>1, <3>2, ReachesTyped
    <3> QED BY <2>1, <3>3 DEF Empty, MediaType, Row
  <2> QED BY <1>1, <2>2, <2>3, TypeJoined
<1>3. CASE ~Empties(index)
  <2>1. Choose(index) /\ UNCHANGED mediaVars /\ UNCHANGED shownVars
    BY <1>3 DEF Skip
  <2>2. MediaType' /\ ShownType'
    BY <2>1, TypeStays
  <2>3. currentIndex' \in Index /\ JobsOK(jobs') /\ OffType'
    BY <2>1, ChooseTyped DEF OffType
  <2> QED BY <1>1, <2>2, <2>3, TypeJoined
<1> QED BY <1>2, <1>3

LEMMA EditTyped ==
    ASSUME TypeInv, NEW job, job \in Job, ~job.done, Edit(job)
    PROVE  TypeInv'
<1>1. /\ ViewType' /\ SessionType' /\ TableType' /\ ModeType' /\ ShownType' /\ MediaType'
      /\ requested' \in PlayState /\ events' \in Seq(Event) /\ uses' \in 0..MaxUses
      /\ currentIndex' \in Index /\ OffType'
  BY TypeStays, UseTyped DEF Edit
<1>2. JobsOK(jobs')
  BY JobAppended DEF Edit
<1> QED BY <1>1, <1>2, TypeJoined

LEMMA EditsTyped ==
    ASSUME TypeInv
    PROVE  /\ \A i \in 0..Len(itemList), item \in Item :
                Fresh(NewJob("Insert", i, 0, item), "Insert", i, 0, item)
           /\ \A i \in 0..Len(itemList) - 1 : 
                Fresh(NewJob("Remove", i, 1, <<>>), "Remove", i, 1, <<>>)
           /\ \A i, j \in 0..Len(itemList) - 1 : 
                Fresh(NewJob("Move", i, j, <<>>), "Move", i, j, <<>>)
<1>1. Len(itemList) \in Nat /\ <<>> \in Seq(Track) /\ Item \subseteq Seq(Track)
  BY TypeParts, PlayerAssumption DEF ViewType
<1>2. {"Insert", "Remove", "Move"} \subseteq Edits \cup {"Select", "SetIndex"}
  BY DEF Edits
<1>3. ASSUME NEW i \in 0..Len(itemList), NEW item \in Item
      PROVE  Fresh(NewJob("Insert", i, 0, item), "Insert", i, 0, item)
  BY <1>1, <1>2, NewJobTyped
<1>4. ASSUME NEW i \in 0..Len(itemList) - 1
      PROVE  Fresh(NewJob("Remove", i, 1, <<>>), "Remove", i, 1, <<>>)
  <2>1. i \in Nat /\ 1 \in Nat
    BY <1>1
  <2> QED BY <1>1, <1>2, <2>1, NewJobTyped
<1>5. ASSUME NEW i \in 0..Len(itemList) - 1, NEW j \in 0..Len(itemList) - 1
      PROVE  Fresh(NewJob("Move", i, j, <<>>), "Move", i, j, <<>>)
  <2>1. i \in Nat /\ j \in Nat
    BY <1>1
  <2> QED BY <1>1, <1>2, <2>1, NewJobTyped
<1> QED BY <1>3, <1>4, <1>5

LEMMA SetPlayModeTyped ==
    ASSUME TypeInv, NEW mode \in Mode, SetPlayMode(mode)
    PROVE  TypeInv'
<1>1. ModeType'
  BY DEF SetPlayMode, OnPlayModeChanged, ModeType
<1>2. /\ ViewType' /\ SessionType' /\ TableType' /\ ShownType' /\ MediaType'
      /\ requested' \in PlayState /\ events' \in Seq(Event) /\ uses' \in 0..MaxUses
      /\ currentIndex' \in Index /\ OffType' /\ JobsOK(jobs')
  BY TypeStays, UseTyped DEF SetPlayMode
<1> QED BY <1>1, <1>2, TypeJoined

LEMMA RequestTyped ==
    ASSUME TypeInv, NEW state \in PlayState, Request(state)
    PROVE  TypeInv'
<1>1. MediaType'
  <2> DEFINE s == IF media = None THEN "Stopped" ELSE state
  <2>1. s \in PlayState
    BY DEF PlayState
  <2>2. Reaches(s, s # playing)
    BY DEF Request, Plays
  <2> HIDE DEF s
  <2>3. playing' \in PlayState /\ {playState', shownState'} \subseteq PlayState
    BY <2>1, <2>2, ReachesTyped
  <2>4. media' = media /\ mediaStatus' \in {"NoMedia", "Loading", "Loaded", "EndOfMedia"}
    BY TypeParts DEF Request, MediaType
  <2> QED BY <2>3, <2>4, TypeParts DEF MediaType
<1>2. /\ ViewType' /\ SessionType' /\ TableType' /\ ShownType' /\ ModeType'
      /\ requested' \in PlayState /\ events' \in Seq(Event) /\ uses' \in 0..MaxUses
      /\ currentIndex' \in Index /\ OffType' /\ JobsOK(jobs')
  BY TypeStays, UseTyped DEF Request
<1> QED BY <1>1, <1>2, TypeJoined

LEMMA FetchMoreTyped == ASSUME TypeInv, FetchMore PROVE TypeInv'
<1>1. ViewType'
  BY TypeParts DEF FetchMore, ViewType
<1>2. JobsOK(jobs')
  <2>1. SelectJob(fetchedCount) \in Job /\ ~SelectJob(fetchedCount).done
    BY SelectTyped, TypeParts DEF ViewType
  <2> QED BY <2>1, JobAppended DEF FetchMore
<1>3. /\ SessionType' /\ TableType' /\ ShownType' /\ ModeType' /\ MediaType'
      /\ requested' \in PlayState /\ events' \in Seq(Event) /\ uses' \in 0..MaxUses
      /\ currentIndex' \in Index /\ OffType'
  BY TypeStays DEF FetchMore
<1> QED BY <1>1, <1>2, <1>3, TypeJoined

LEMMA SetLoadingTypeTyped ==
    ASSUME TypeInv, NEW type \in {"FetchMore", "DataChanged"}, SetLoadingType(type)
    PROVE  TypeInv'
<1>1. ViewType'
  BY ResetTyped DEF SetLoadingType
<1>2. JobsOK(jobs')
  <2> DEFINE x == <<SelectJob(0)>>
  <2>1. x \in Seq(Job) /\ \A p \in DOMAIN x : ~x[p].done
    BY SelectTyped
  <2>2. jobs' = jobs \o x
    BY DEF SetLoadingType, ResetModel
  <2> HIDE DEF x
  <2> QED BY <2>1, <2>2, JobsAdded, TypeParts
<1>3. /\ SessionType' /\ TableType' /\ ShownType' /\ ModeType' /\ MediaType'
      /\ requested' \in PlayState /\ events' \in Seq(Event) /\ uses' \in 0..MaxUses
      /\ currentIndex' \in Index /\ OffType'
  BY TypeStays, UseTyped DEF SetLoadingType
<1> QED BY <1>1, <1>2, <1>3, TypeJoined

(* The worker's steps.                                                       *)
\* The worker's first step with a job: the table, and the job as it is then.
Carried(job) == [job EXCEPT !.done = TRUE, !.list = Result(job, queue')]

LEMMA TableTyped ==
    ASSUME TypeInv, NEW job \in Job
    PROVE  IsTable(Table(job))
<1>1. IsTable(queue)
  BY TypeInvFacts
<1>2. /\ job.kind \in Edits \cup {"Select", "SetIndex"}
      /\ job.start \in Nat /\ job.count \in Nat /\ job.tracks \in Seq(Track)
  BY JobFields
<1>3. CASE job.kind = "Insert"
  BY <1>1, <1>2, <1>3, PutIn DEF Table
<1>4. CASE job.kind = "Remove"
  BY <1>1, <1>2, <1>4, TakenOut DEF Table
<1>5. CASE job.kind = "Move"
  BY <1>1, <1>2, <1>5, MovedTable DEF Table
<1>6. CASE job.kind \in {"Select", "SetIndex"}
  BY <1>1, <1>6 DEF Table
<1> QED BY <1>2, <1>3, <1>4, <1>5, <1>6 DEF Edits

\* What the first step makes of the jobs.
LEMMA ExecuteFacts ==
    ASSUME TypeInv, Execute
    PROVE  /\ jobs # <<>> /\ Head(jobs) \in Job /\ ~Head(jobs).done /\ IsTable(queue')
           /\ queue' = Table(Head(jobs)) /\ count' = Cardinality(DOMAIN queue') /\ count' \in Nat
           /\ Carried(Head(jobs)) \in Job
           /\ jobs' \in Seq(Job) /\ Len(jobs') = Len(jobs) /\ DOMAIN jobs' = DOMAIN jobs
           /\ jobs'[1] = Carried(Head(jobs)) /\ Head(jobs') = Carried(Head(jobs))
           /\ \A p \in DOMAIN jobs : p > 1 => jobs'[p] = jobs[p]
           /\ jobs' # <<>> /\ JobsOK(jobs')
<1> DEFINE job == Head(jobs)
           new == Carried(job)
<1>1. /\ jobs # <<>> /\ ~job.done /\ queue' = Table(job) /\ count' = Cardinality(DOMAIN queue')
      /\ jobs' = <<new>> \o Tail(jobs)
  BY DEF Execute, Carried
<1>2. job \in Job /\ JobsOK(jobs)
  BY <1>1, HeadFields, TypeInvFacts
<1>3. IsTable(queue')
  BY <1>1, <1>2, TableTyped
<1>4. count' \in Nat
  BY <1>1, <1>3, TableFinite
<1>5. new \in Job
  BY <1>2, <1>3, ResultTyped DEF Carried, Job
<1>6. /\ Tail(jobs) \in Seq(Job) /\ Len(Tail(jobs)) = Len(jobs) - 1 /\ Len(jobs) \in Nat \ {0}
      /\ \A i \in 1 .. Len(jobs) - 1 : Tail(jobs)[i] = jobs[i + 1]
  BY <1>1, HeadFields
<1> HIDE DEF new
<1>7. <<new>> \in Seq(Job) /\ Len(<<new>>) = 1 /\ <<new>>[1] = new
  BY <1>5
<1>8. /\ jobs' \in Seq(Job) /\ Len(jobs') = Len(jobs) /\ jobs'[1] = new
      /\ \A i \in 1 .. Len(jobs) - 1 : jobs'[1 + i] = Tail(jobs)[i]
  BY <1>1, <1>6, <1>7, Joined
<1>9. DOMAIN jobs = 1 .. Len(jobs) /\ DOMAIN jobs' = 1 .. Len(jobs)
  BY <1>2, <1>8 DEF JobsOK
<1>10. \A p \in DOMAIN jobs : p > 1 => jobs'[p] = jobs[p]
  <2> SUFFICES ASSUME NEW p \in DOMAIN jobs, p > 1 PROVE jobs'[p] = jobs[p]
    OBVIOUS
  <2>1. p - 1 \in 1 .. Len(jobs) - 1 /\ 1 + (p - 1) = p /\ (p - 1) + 1 = p
    BY <1>6, <1>9
  <2> QED BY <1>6, <1>8, <2>1
<1>11. jobs' # <<>> /\ Head(jobs') = jobs'[1]
  BY <1>6, <1>8, TailKeeps
<1>12. JobsOK(jobs')
  BY <1>2, <1>8, <1>9, <1>10 DEF JobsOK
<1> QED BY <1>1, <1>2, <1>3, <1>4, <1>5, <1>8, <1>9, <1>10, <1>11, <1>12 DEF new

LEMMA ExecuteTyped == ASSUME TypeInv, Execute PROVE TypeInv'
<1>1. JobsOK(jobs') /\ TableType'
  BY ExecuteFacts DEF TableType
<1>2. events' \in Seq(Event)
  <2>1. events' = events \o ToQueue([kind |-> "countChanged", length |-> count'])
    BY DEF Execute
  <2> DEFINE e == [kind |-> "countChanged", length |-> count']
  <2>2. e \in Event
    BY ExecuteFacts, EventsTyped
  <2> HIDE DEF e
  <2>3. ToQueue(e) \in Seq(Event)
    BY <2>2, SignalsTyped
  <2> QED BY <2>1, <2>3, EventsAdded DEF e
<1>3. /\ ViewType' /\ SessionType' /\ ShownType' /\ ModeType' /\ MediaType'
      /\ requested' \in PlayState /\ uses' \in 0..MaxUses /\ currentIndex' \in Index /\ OffType'
  BY TypeStays DEF Execute
<1> QED BY <1>1, <1>2, <1>3, TypeJoined

\* What the worker's second step has in common.
LEMMA FinishTyped ==
    ASSUME TypeInv, jobs # <<>>, jobs' = Tail(jobs), currentIndex' \in Index,
           NEW x \in Seq(Event), events' = events \o x, OffType',
           UNCHANGED <<viewVars, shownVars, sessionVars, mediaVars, queue, count, modeVars,
                       requested, uses>>
    PROVE  TypeInv'
<1>1. JobsOK(jobs')
  BY HeadFields
<1>2. events' \in Seq(Event)
  BY EventsAdded
<1>3. /\ ViewType' /\ SessionType' /\ ShownType' /\ ModeType' /\ MediaType' /\ TableType'
      /\ requested' \in PlayState /\ uses' \in 0..MaxUses
  BY TypeStays
<1> QED BY <1>1, <1>2, <1>3, TypeJoined

LEMMA FinishSelectTyped == ASSUME TypeInv, FinishSelect PROVE TypeInv'
<1> DEFINE job == Head(jobs)
           e == [kind |-> "dataFetched", id |-> job.id, items |-> job.list,
                 start |-> job.start, more |-> HasMore(job)]
<1>1. jobs # <<>> /\ jobs' = Tail(jobs) /\ events' = events \o ToQueue(e)
  BY DEF FinishSelect, Done
<1>2. HasMore(job) \in BOOLEAN
  BY DEF HasMore
<1>3. e \in Event
  BY <1>1, <1>2, HeadFields, EventsTyped
<1> HIDE DEF e
<1>4. ToQueue(e) \in Seq(Event)
  BY <1>3, SignalsTyped
<1>5. currentIndex' \in Index /\ OffType'
  BY TypeStays DEF FinishSelect
<1> QED BY <1>1, <1>4, <1>5, FinishTyped DEF FinishSelect

LEMMA EventsRegrouped ==
    ASSUME NEW a \in Seq(Event), NEW b \in Seq(Event), NEW c \in Seq(Event)
    PROVE  (a \o b) \o c = a \o (b \o c)
  BY SMTT(30)

\* What the end of a new current track's job tells the GUI thread.
IndexTold(job) ==
    (<<[kind |-> "playTrack", track |-> job.list[1]]>> \o IndexChanged(job.start))
        \o ToPlayer([kind |-> "currentTrackChanged", track |-> job.list[1]])

LEMMA IndexToldTyped ==
    ASSUME TypeInv, NEW job \in Job, job.list # <<>>
    PROVE  /\ IndexTold(job) \in Seq(Event)
           /\ job.list[1] \in Track
           /\ [kind |-> "playTrack", track |-> job.list[1]] \in Event
           /\ [kind |-> "currentTrackChanged", track |-> job.list[1]] \in Event
           /\ ToPlayer([kind |-> "currentTrackChanged", track |-> job.list[1]]) \in Seq(Event)
           /\ IndexChanged(job.start) \in Seq(Event)
           /\ <<[kind |-> "playTrack", track |-> job.list[1]]>> \in Seq(Event)
           /\ (<<[kind |-> "playTrack", track |-> job.list[1]]>> \o IndexChanged(job.start))
                 \in Seq(Event)
<1> DEFINE p == [kind |-> "playTrack", track |-> job.list[1]]
           t == [kind |-> "currentTrackChanged", track |-> job.list[1]]
<1>1. job.list[1] \in Track /\ job.start \in Index
  BY JobFields, TailKeeps DEF Index
<1>2. p \in Event /\ t \in Event
  BY <1>1, EventsTyped DEF Row
<1>3. IndexChanged(job.start) \in Seq(Event)
  BY <1>1, IndexAnnounced
<1> HIDE DEF p, t
<1>4. <<p>> \in Seq(Event) /\ ToPlayer(t) \in Seq(Event)
  BY <1>2, SignalsTyped
<1>5. <<p>> \o IndexChanged(job.start) \in Seq(Event)
  BY <1>3, <1>4
<1>6. (<<p>> \o IndexChanged(job.start)) \o ToPlayer(t) \in Seq(Event)
  BY <1>4, <1>5
<1> QED BY <1>1, <1>2, <1>3, <1>4, <1>5, <1>6 DEF p, t, IndexTold

LEMMA IndexToldGrouped ==
    ASSUME TypeInv, NEW job \in Job, job.list # <<>>
    PROVE  ((events \o <<[kind |-> "playTrack", track |-> job.list[1]]>>)
                \o IndexChanged(job.start))
                \o ToPlayer([kind |-> "currentTrackChanged", track |-> job.list[1]])
           = events \o IndexTold(job)
<1> DEFINE play == <<[kind |-> "playTrack", track |-> job.list[1]]>>
           index == IndexChanged(job.start)
           shown == ToPlayer([kind |-> "currentTrackChanged", track |-> job.list[1]])
           both == play \o index
<1>1. play \in Seq(Event) /\ index \in Seq(Event) /\ shown \in Seq(Event) /\ both \in Seq(Event)
  BY IndexToldTyped
<1>2. IndexTold(job) = both \o shown
  BY DEF IndexTold
<1>3. both = play \o index /\ events \in Seq(Event)
  BY TypeParts
<1> HIDE DEF play, index, shown, both
<1>4. (events \o play) \o index = events \o both
  BY <1>1, <1>3, EventsRegrouped
<1>5. (events \o both) \o shown = events \o (both \o shown)
  BY <1>1, <1>3, EventsRegrouped
<1>6. ((events \o play) \o index) \o shown = events \o IndexTold(job)
  BY <1>2, <1>4, <1>5
<1> QED BY <1>6 DEF play, index, shown

LEMMA FinishSetIndexTyped == ASSUME TypeInv, FinishSetIndex PROVE TypeInv'
<1> DEFINE job == Head(jobs)
<1>1. jobs # <<>> /\ jobs' = Tail(jobs)
  BY DEF FinishSetIndex, Done
<1>2. job \in Job
  BY <1>1, HeadFields
<1>3. \E x \in Seq(Event) : events' = events \o x
  <2>1. CASE job.list = <<>>
    <3>1. events' = events /\ events \in Seq(Event) /\ <<>> \in Seq(Event)
      BY <2>1, TypeParts DEF FinishSetIndex
    <3>2. events' = events \o <<>>
      BY <3>1
    <3> QED BY <3>1, <3>2
  <2>2. CASE job.list # <<>>
    <3>1. /\ ((events \o <<[kind |-> "playTrack", track |-> job.list[1]]>>)
                \o IndexChanged(job.start))
                \o ToPlayer([kind |-> "currentTrackChanged", track |-> job.list[1]])
             = events \o IndexTold(job)
      BY <1>2, <2>2, IndexToldGrouped
    <3>2. IndexTold(job) \in Seq(Event)
      BY <1>2, <2>2, IndexToldTyped
    <3>6. events' = events \o IndexTold(job)
      BY <2>2, <3>1 DEF FinishSetIndex
    <3> QED BY <3>2, <3>6
  <2> QED BY <2>1, <2>2
<1>4. currentIndex' \in Index /\ OffType'
  BY TypeStays DEF FinishSetIndex
<1> QED BY <1>1, <1>3, <1>4, FinishTyped DEF FinishSetIndex

\* What the end of an edit that keeps the current track tells.
EditTold(index, start, n) ==
    (IF index = currentIndex THEN <<>> ELSE IndexChanged(index)) \o DataChanged(start, n)

LEMMA EditToldTyped ==
    ASSUME TypeInv, jobs # <<>>, NEW index \in Index, NEW start \in Nat, NEW n \in Nat
    PROVE  /\ EditTold(index, start, n) \in Seq(Event)
           /\ IndexChanged(index) \in Seq(Event)
           /\ DataChanged(start, n) \in Seq(Event)
<1>1. IndexChanged(index) \in Seq(Event) /\ DataChanged(start, n) \in Seq(Event)
  BY IndexAnnounced, Announced
<1>2. (IF index = currentIndex THEN <<>> ELSE IndexChanged(index)) \in Seq(Event)
  <2>1. <<>> \in Seq(Event)
    OBVIOUS
  <2> QED BY <1>1, <2>1
<1> QED BY <1>1, <1>2 DEF EditTold

LEMMA FinishEditTold ==
    ASSUME TypeInv, NEW kind, NEW index \in Index, NEW start \in Nat, NEW n \in Nat,
           FinishEdit(kind, index, start, n)
    PROVE  /\ jobs # <<>> /\ Head(jobs).done /\ Head(jobs).kind = kind /\ jobs' = Tail(jobs)
           /\ events' = events \o EditTold(index, start, n)
           /\ EditTold(index, start, n) \in Seq(Event)
           /\ currentIndex' = index
           /\ UNCHANGED <<viewVars, shownVars, sessionVars, mediaVars, queue, count, modeVars,
                          requested, uses>>
<1> DEFINE i == IF index = currentIndex THEN <<>> ELSE IndexChanged(index)
           d == DataChanged(start, n)
<1>1. /\ jobs # <<>> /\ Head(jobs).done /\ Head(jobs).kind = kind /\ jobs' = Tail(jobs)
      /\ events' = (events \o i) \o d /\ currentIndex' = index
      /\ UNCHANGED <<viewVars, shownVars, sessionVars, mediaVars, queue, count, modeVars,
                     requested, uses>>
  BY DEF FinishEdit, Done
<1>2. EditTold(index, start, n) = i \o d
  BY DEF EditTold
<1>3. EditTold(index, start, n) \in Seq(Event) /\ d \in Seq(Event)
      /\ IndexChanged(index) \in Seq(Event)
  BY <1>1, EditToldTyped
<1>4. i \in Seq(Event)
  <2>1. <<>> \in Seq(Event)
    OBVIOUS
  <2> QED BY <1>3, <2>1
<1> HIDE DEF i, d
<1>5. events \in Seq(Event)
  BY TypeParts
<1>6. events' = events \o (i \o d)
  <2>1. d \in Seq(Event)
    BY <1>3 DEF d
  <2>2. (events \o i) \o d = events \o (i \o d)
    BY <1>4, <1>5, <2>1, EventsRegrouped
  <2> QED BY <1>1, <2>2
<1> QED BY <1>1, <1>2, <1>3, <1>6

\* Where an edit takes the current index, and the rows it tells of.
LEMMA EditNumbers ==
    ASSUME TypeInv, NEW job \in Job
    PROVE  /\ AfterInsert(job) \in Index /\ AfterRemove(job) \in Index /\ AfterMove(job) \in Index
           /\ Lowest(job.start, job.count) \in Nat
           /\ Highest(job.start, job.count) - Lowest(job.start, job.count) + 1 \in Nat
           /\ job.start \in Nat /\ job.count \in Nat /\ currentIndex \in Nat \cup {-1}
<1>1. job.start \in Nat /\ job.count \in Nat /\ currentIndex \in Nat \cup {-1}
  BY JobFields, TypeParts DEF Index
<1>2. AfterInsert(job) \in Index /\ AfterRemove(job) \in Index
  BY <1>1 DEF AfterInsert, AfterRemove, Index
<1>3. AfterMove(job) \in Index
  BY <1>1 DEF AfterMove, Index
<1>4. /\ Lowest(job.start, job.count) \in Nat
      /\ Highest(job.start, job.count) - Lowest(job.start, job.count) + 1 \in Nat
  BY <1>1 DEF Lowest, Highest
<1> QED BY <1>1, <1>2, <1>3, <1>4

LEMMA FinishInsertTyped == ASSUME TypeInv, FinishInsert PROVE TypeInv'
<1> DEFINE job == Head(jobs)
<1>1. FinishEdit("Insert", AfterInsert(job), job.start, 0) /\ jobs # <<>>
  BY DEF FinishInsert, FinishEdit, Done
<1>2. AfterInsert(job) \in Index /\ job.start \in Nat
  BY <1>1, HeadFields, EditNumbers
<1>3. OffType'
  BY TypeParts DEF FinishInsert, OffType
<1> DEFINE x == EditTold(AfterInsert(job), job.start, 0)
<1>4. /\ jobs' = Tail(jobs) /\ events' = events \o x /\ x \in Seq(Event)
      /\ currentIndex' = AfterInsert(job)
      /\ UNCHANGED <<viewVars, shownVars, sessionVars, mediaVars, queue, count, modeVars,
                     requested, uses>>
  BY <1>1, <1>2, FinishEditTold
<1> HIDE DEF x
<1> QED BY <1>1, <1>2, <1>3, <1>4, FinishTyped

LEMMA FinishRemoveTyped == ASSUME TypeInv, FinishRemove PROVE TypeInv'
<1> DEFINE job == Head(jobs)
<1>1. FinishEdit("Remove", AfterRemove(job), job.start, 1) /\ jobs # <<>>
  BY DEF FinishRemove, Done
<1>2. AfterRemove(job) \in Index /\ job.start \in Nat
  BY <1>1, HeadFields, EditNumbers
<1>3. OffType'
  BY TypeStays DEF FinishRemove
<1> DEFINE x == EditTold(AfterRemove(job), job.start, 1)
<1>4. /\ jobs' = Tail(jobs) /\ events' = events \o x /\ x \in Seq(Event)
      /\ currentIndex' = AfterRemove(job)
      /\ UNCHANGED <<viewVars, shownVars, sessionVars, mediaVars, queue, count, modeVars,
                     requested, uses>>
  BY <1>1, <1>2, FinishEditTold
<1> HIDE DEF x
<1> QED BY <1>1, <1>2, <1>3, <1>4, FinishTyped

LEMMA FinishMoveTyped == ASSUME TypeInv, FinishMove PROVE TypeInv'
<1> DEFINE job == Head(jobs)
           low == Lowest(job.start, job.count)
           n == Highest(job.start, job.count) - Lowest(job.start, job.count) + 1
<1>1. FinishEdit("Move", AfterMove(job), low, n) /\ jobs # <<>>
  BY DEF FinishMove, FinishEdit, Done
<1>2. AfterMove(job) \in Index /\ low \in Nat /\ n \in Nat
  BY <1>1, HeadFields, EditNumbers
<1>3. OffType'
  BY TypeParts DEF FinishMove, OffType
<1> HIDE DEF low, n
<1> DEFINE x == EditTold(AfterMove(job), low, n)
<1>4. /\ jobs' = Tail(jobs) /\ events' = events \o x /\ x \in Seq(Event)
      /\ currentIndex' = AfterMove(job)
      /\ UNCHANGED <<viewVars, shownVars, sessionVars, mediaVars, queue, count, modeVars,
                     requested, uses>>
  BY <1>1, <1>2, FinishEditTold
<1> HIDE DEF x
<1> QED BY <1>1, <1>2, <1>3, <1>4, FinishTyped

\* What the worker tells when it removes the current track.
FallbackJobs == IF Sets(Fallback) THEN <<SetIndexJob(Fallback)>> ELSE <<>>

NowEmpty ==
    ((IF playing = "Stopped" THEN <<>> ELSE <<[kind |-> "stateChanged"]>>)
        \o ToPlayer([kind |-> "currentTrackChanged", track |-> None]))
        \o IndexChanged(-1)

LEMMA FallbackTyped ==
    ASSUME TypeInv
    PROVE  /\ Fallback \in Nat \cup {-1, -2}
           /\ (Sets(Fallback) \/ Empties(Fallback)) => Fallback \in Index
           /\ Sets(Fallback) => SetIndexJob(Fallback) \in Job /\ ~SetIndexJob(Fallback).done
           /\ FallbackJobs \in Seq(Job) /\ \A p \in DOMAIN FallbackJobs : ~FallbackJobs[p].done
<1>1. currentIndex \in Nat \cup {-1} /\ count \in Nat
  BY TypeParts DEF Index, TableType
<1>2. Fallback \in Nat \cup {-1, -2}
  BY <1>1 DEF Fallback
<1>3. Sets(Fallback) => Fallback \in Nat
  BY <1>1, <1>2 DEF Sets
<1>4. Empties(Fallback) => Fallback = -1
  BY DEF Empties
<1>5. Sets(Fallback) => SetIndexJob(Fallback) \in Job /\ ~SetIndexJob(Fallback).done
  <2>1. SUFFICES ASSUME Sets(Fallback)
                 PROVE  SetIndexJob(Fallback) \in Job /\ ~SetIndexJob(Fallback).done
    OBVIOUS
  <2>2. Fallback \in Nat /\ 0 \in Nat /\ <<>> \in Seq(Track)
    BY <1>3, <2>1
  <2>3. Fresh(NewJob("SetIndex", Fallback, 0, <<>>), "SetIndex", Fallback, 0, <<>>)
    BY <2>2, NewJobTyped
  <2> QED BY <2>3 DEF SetIndexJob, Fresh
<1>6. FallbackJobs \in Seq(Job) /\ \A p \in DOMAIN FallbackJobs : ~FallbackJobs[p].done
  BY <1>5 DEF FallbackJobs
<1> QED BY <1>2, <1>3, <1>4, <1>5, <1>6 DEF Index

LEMMA NowEmptyTyped ==
    ASSUME TypeInv
    PROVE  NowEmpty \in Seq(Event) /\ IndexChanged(-1) \in Seq(Event)
           /\ ToPlayer([kind |-> "currentTrackChanged", track |-> None]) \in Seq(Event)
           /\ (IF playing = "Stopped" THEN <<>> ELSE <<[kind |-> "stateChanged"]>>) \in Seq(Event)
<1> DEFINE e == [kind |-> "currentTrackChanged", track |-> None]
           s == IF playing = "Stopped" THEN <<>> ELSE <<[kind |-> "stateChanged"]>>
<1>1. e \in Event /\ [kind |-> "stateChanged"] \in Event /\ -1 \in Index
  BY EventsTyped DEF Row, Index
<1>2. IndexChanged(-1) \in Seq(Event)
  BY <1>1, IndexAnnounced
<1>3. s \in Seq(Event)
  BY <1>1
<1> HIDE DEF e, s
<1>4. ToPlayer(e) \in Seq(Event)
  BY <1>1, SignalsTyped
<1>5. (s \o ToPlayer(e)) \in Seq(Event)
  BY <1>3, <1>4
<1>6. (s \o ToPlayer(e)) \o IndexChanged(-1) \in Seq(Event)
  BY <1>2, <1>5
<1> QED BY <1>2, <1>3, <1>4, <1>6 DEF NowEmpty, e, s

LEMMA NowEmptyGrouped ==
    ASSUME TypeInv, NEW d \in Seq(Event)
    PROVE  (((events \o (IF playing = "Stopped" THEN <<>> ELSE <<[kind |-> "stateChanged"]>>))
                \o ToPlayer([kind |-> "currentTrackChanged", track |-> None]))
                \o IndexChanged(-1)) \o d
           = events \o (NowEmpty \o d)
<1> DEFINE s == IF playing = "Stopped" THEN <<>> ELSE <<[kind |-> "stateChanged"]>>
           c == ToPlayer([kind |-> "currentTrackChanged", track |-> None])
           i == IndexChanged(-1)
<1>1. s \in Seq(Event) /\ c \in Seq(Event) /\ i \in Seq(Event) /\ NowEmpty \in Seq(Event)
  BY NowEmptyTyped
<1>2. events \in Seq(Event)
  BY TypeParts
<1>3. NowEmpty = (s \o c) \o i
  BY DEF NowEmpty
<1> HIDE DEF s, c, i
<1> DEFINE sc == s \o c
<1>4. sc \in Seq(Event) /\ NowEmpty = sc \o i
  BY <1>1, <1>3, ConcatProperties
<1>5. (events \o s) \o c = events \o sc
  BY <1>1, <1>2, SMTT(60)
<1> HIDE DEF sc
<1>6. (events \o sc) \o i = events \o (sc \o i)
  BY <1>1, <1>2, <1>4, SMTT(60)
<1>7. (events \o NowEmpty) \o d = events \o (NowEmpty \o d)
  BY <1>1, <1>2, SMTT(60)
<1>8. (((events \o s) \o c) \o i) \o d = (events \o NowEmpty) \o d
  BY <1>4, <1>5, <1>6
<1> QED BY <1>7, <1>8 DEF s, c, i

\* The worker's second step with the removal of the current track.
LEMMA FinishRemoveCurrentFacts ==
    ASSUME TypeInv, FinishRemoveCurrent
    PROVE  /\ jobs # <<>> /\ Head(jobs).done /\ Head(jobs).kind = "Remove"
           /\ Head(jobs).start = currentIndex /\ currentIndex \in Nat
           /\ jobs' = Tail(jobs) \o FallbackJobs
           /\ currentIndex' = IF Sets(Fallback) \/ Empties(Fallback) THEN Fallback
                              ELSE currentIndex
           /\ DataChanged(currentIndex, 1) \in Seq(Event)
           /\ Empties(Fallback) =>
                /\ media' = None /\ playing' = "Stopped" /\ mediaStatus' = "NoMedia"
                /\ UNCHANGED stateVars
                /\ events' = events \o (NowEmpty \o DataChanged(currentIndex, 1))
           /\ ~Empties(Fallback) =>
                UNCHANGED mediaVars /\ events' = events \o DataChanged(currentIndex, 1)
           /\ UNCHANGED <<viewVars, shownVars, sessionVars, queue, count, modeVars, requested,
                          uses>>
           /\ off' \subseteq off \cup {"first", "race"}
<1>1. /\ jobs # <<>> /\ Head(jobs).done /\ Head(jobs).kind = "Remove"
      /\ Head(jobs).start = currentIndex
      /\ jobs' = Tail(jobs) \o FallbackJobs
      /\ currentIndex' = IF Sets(Fallback) \/ Empties(Fallback) THEN Fallback ELSE currentIndex
      /\ UNCHANGED <<viewVars, shownVars, sessionVars, queue, count, modeVars, requested, uses>>
  BY DEF FinishRemoveCurrent, Done, FallbackJobs
<1>2. currentIndex \in Nat
  BY <1>1, HeadFields
<1>3. DataChanged(currentIndex, 1) \in Seq(Event)
  BY <1>1, <1>2, Announced
<1>4. ASSUME Empties(Fallback)
      PROVE  /\ media' = None /\ playing' = "Stopped" /\ mediaStatus' = "NoMedia"
             /\ UNCHANGED stateVars
             /\ events' = events \o (NowEmpty \o DataChanged(currentIndex, 1))
  <2>1. /\ media' = None /\ playing' = "Stopped" /\ mediaStatus' = "NoMedia"
        /\ UNCHANGED stateVars
        /\ events' = (((events \o (IF playing = "Stopped" THEN <<>>
                                  ELSE <<[kind |-> "stateChanged"]>>))
                          \o ToPlayer([kind |-> "currentTrackChanged", track |-> None]))
                          \o IndexChanged(-1)) \o DataChanged(currentIndex, 1)
    BY <1>1, <1>4 DEF FinishRemoveCurrent
  <2> QED BY <1>3, <2>1, NowEmptyGrouped
<1>5. ASSUME ~Empties(Fallback)
      PROVE  UNCHANGED mediaVars /\ events' = events \o DataChanged(currentIndex, 1)
  BY <1>1, <1>5 DEF FinishRemoveCurrent
<1>6. off' \subseteq off \cup {"first", "race"}
  BY DEF FinishRemoveCurrent
<1> QED BY <1>1, <1>2, <1>3, <1>4, <1>5, <1>6

LEMMA FinishRemoveCurrentTyped == ASSUME TypeInv, FinishRemoveCurrent PROVE TypeInv'
<1>1. JobsOK(jobs')
  <2>1. jobs' = Tail(jobs) \o FallbackJobs /\ jobs # <<>>
    BY FinishRemoveCurrentFacts
  <2>2. JobsOK(Tail(jobs))
    BY <2>1, HeadFields
  <2>3. FallbackJobs \in Seq(Job) /\ \A p \in DOMAIN FallbackJobs : ~FallbackJobs[p].done
    BY FallbackTyped
  <2> QED BY <2>1, <2>2, <2>3, JobsAdded
<1>2. currentIndex' \in Index
  BY FinishRemoveCurrentFacts, FallbackTyped, TypeParts
<1>3. OffType'
  BY FinishRemoveCurrentFacts, TypeParts DEF OffType
<1>4. events' \in Seq(Event)
  <2>1. DataChanged(currentIndex, 1) \in Seq(Event) /\ NowEmpty \in Seq(Event)
    BY FinishRemoveCurrentFacts, NowEmptyTyped
  <2>2. NowEmpty \o DataChanged(currentIndex, 1) \in Seq(Event)
    BY <2>1
  <2>3. \/ events' = events \o DataChanged(currentIndex, 1)
        \/ events' = events \o (NowEmpty \o DataChanged(currentIndex, 1))
    BY FinishRemoveCurrentFacts
  <2> QED BY <2>1, <2>2, <2>3, EventsAdded
<1>5. MediaType'
  <2>1. CASE Empties(Fallback)
    BY <2>1, FinishRemoveCurrentFacts, TypeParts DEF MediaType, stateVars, Row, PlayState
  <2>2. CASE ~Empties(Fallback)
    BY <2>2, FinishRemoveCurrentFacts, TypeStays
  <2> QED BY <2>1, <2>2
<1>6. /\ ViewType' /\ SessionType' /\ ShownType' /\ ModeType' /\ TableType'
      /\ requested' \in PlayState /\ uses' \in 0..MaxUses
  BY FinishRemoveCurrentFacts, TypeStays
<1> QED BY <1>1, <1>2, <1>3, <1>4, <1>5, <1>6, TypeJoined

(* The GUI thread's steps.                                                   *)
LEMMA EventTaken ==
    ASSUME TypeInv, events # <<>>
    PROVE  /\ Tail(events) \in Seq(Event) /\ Head(events) \in Event /\ Head(events) = events[1]
           /\ Len(Tail(events)) = Len(events) - 1 /\ Len(events) \in Nat \ {0}
           /\ DOMAIN events = 1 .. Len(events) /\ 1 \in DOMAIN events
           /\ \A i \in 1 .. Len(events) - 1 : Tail(events)[i] = events[i + 1]
           /\ DOMAIN Tail(events) = 1 .. Len(events) - 1
<1>1. events \in Seq(Event)
  BY TypeParts
<1> QED BY <1>1, TailKeeps

LEMMA HearTyped ==
    ASSUME TypeInv, NEW kind, Hear(kind)
    PROVE  /\ Head(events) \in Event /\ Head(events).kind = kind
           /\ SessionType' /\ TableType' /\ currentIndex' \in Index /\ ModeType'
           /\ requested' \in PlayState /\ JobsOK(jobs') /\ events' \in Seq(Event)
           /\ uses' \in 0..MaxUses /\ OffType'
<1>1. events # <<>> /\ Head(events).kind = kind /\ events' = Tail(events)
  BY DEF Hear
<1>2. /\ SessionType' /\ TableType' /\ currentIndex' \in Index /\ ModeType'
      /\ requested' \in PlayState /\ JobsOK(jobs') /\ uses' \in 0..MaxUses /\ OffType'
  BY TypeStays DEF Hear
<1> QED BY <1>1, <1>2, EventTaken

LEMMA OnCurrentIndexChangedTyped == ASSUME TypeInv, OnCurrentIndexChanged PROVE TypeInv'
<1>1. Hear("currentIndexChanged")
  BY DEF OnCurrentIndexChanged
<1>2. ViewType' /\ MediaType'
  BY TypeStays DEF OnCurrentIndexChanged
<1>3. ShownType'
  <2>1. Head(events).index \in Index
    BY <1>1, HearTyped, EventFields
  <2> QED BY <2>1, TypeParts DEF OnCurrentIndexChanged, ShownType
<1> QED BY <1>1, <1>2, <1>3, HearTyped, TypeJoined

LEMMA OnCurrentTrackChangedTyped == ASSUME TypeInv, OnCurrentTrackChanged PROVE TypeInv'
<1>1. Hear("currentTrackChanged")
  BY DEF OnCurrentTrackChanged
<1>2. ViewType' /\ MediaType'
  BY TypeStays DEF OnCurrentTrackChanged
<1>3. ShownType'
  <2>1. Head(events).track \in Row
    BY <1>1, HearTyped, EventFields
  <2> QED BY <2>1, TypeParts DEF OnCurrentTrackChanged, ShownType
<1> QED BY <1>1, <1>2, <1>3, HearTyped, TypeJoined

LEMMA OnCountChangedTyped == ASSUME TypeInv, OnCountChanged PROVE TypeInv'
<1>1. Hear("countChanged")
  BY DEF OnCountChanged
<1>2. ShownType' /\ MediaType'
  BY TypeStays DEF OnCountChanged
<1>3. ViewType'
  <2>1. Head(events).length \in Nat /\ None \in Row
    BY <1>1, HearTyped, EventFields DEF Row
  <2>2. Times(Head(events).length, None) \in Seq(Row)
    BY <2>1, TimesTyped
  <2>3. itemList' \in Seq(Row)
    BY <2>2, TypeParts DEF OnCountChanged, ViewType
  <2> QED BY <2>3, TypeParts DEF OnCountChanged, ViewType
<1> QED BY <1>1, <1>2, <1>3, HearTyped, TypeJoined

LEMMA PlacedTyped ==
    ASSUME TypeInv, NEW e \in Event, e.kind = "dataFetched"
    PROVE  /\ Placed(e) \in Seq(Row) /\ Len(Placed(e)) = Len(itemList)
           /\ e.items \in Seq(Track) /\ e.items \in Seq(Row) /\ Len(e.items) \in Nat
           /\ itemList \o e.items \in Seq(Row)
<1>1. e.items \in Seq(Track) /\ e.start \in Nat /\ itemList \in Seq(Row)
  BY EventFields, TypeParts DEF ViewType
<1>2. e.items \in Seq(Row)
  BY <1>1, SeqWider DEF Row
<1>3. Placed(e) \in [1 .. Len(itemList) -> Row]
  BY <1>1, <1>2 DEF Placed
<1>4. Placed(e) \in Seq(Row) /\ Len(Placed(e)) = Len(itemList)
  BY <1>1, <1>3, SeqOf
<1> QED BY <1>1, <1>2, <1>4

LEMMA OnDataFetchedTyped == ASSUME TypeInv, OnDataFetched PROVE TypeInv'
<1> DEFINE e == Head(events)
<1>1. Hear("dataFetched")
  BY DEF OnDataFetched
<1>2. ShownType' /\ MediaType'
  BY TypeStays DEF OnDataFetched
<1>3. e \in Event /\ e.kind = "dataFetched"
  BY <1>1, HearTyped
<1>4. ViewType'
  <2>1. CASE e.id # identifier \/ e.items = <<>>
    BY <2>1, TypeStays DEF OnDataFetched
  <2>2. CASE ~(e.id # identifier \/ e.items = <<>>)
    <3>1. e.more \in BOOLEAN /\ e.start \in Nat /\ Len(e.items) \in Nat
          /\ itemList \o e.items \in Seq(Row) /\ Placed(e) \in Seq(Row)
      BY <1>3, EventFields, PlacedTyped
    <3>2. moreAvailable' = e.more /\ loadingType' = loadingType
      BY <2>2 DEF OnDataFetched
    <3>3. CASE loadingType = "FetchMore"
      <4>1. itemList' = itemList \o e.items /\ fetchedCount' = Len(itemList')
        BY <2>2, <3>3 DEF OnDataFetched
      <4>2. Len(itemList') \in Nat
        BY <3>1, <4>1
      <4> QED BY <3>1, <3>2, <4>1, <4>2, TypeParts DEF ViewType
    <3>4. CASE loadingType = "DataChanged" /\ Len(itemList) >= e.start + Len(e.items)
      <4>1. itemList' = Placed(e) /\ fetchedCount' = e.start + Len(e.items)
        BY <2>2, <3>4 DEF OnDataFetched
      <4> QED BY <3>1, <3>2, <4>1, TypeParts DEF ViewType
    <3>5. CASE ~(loadingType = "FetchMore")
               /\ ~(loadingType = "DataChanged" /\ Len(itemList) >= e.start + Len(e.items))
      <4>1. itemList' = itemList /\ fetchedCount' = fetchedCount
        BY <2>2, <3>5 DEF OnDataFetched
      <4> QED BY <3>1, <3>2, <4>1, TypeParts DEF ViewType
    <3> QED BY <3>3, <3>4, <3>5
  <2> QED BY <2>1, <2>2
<1> QED BY <1>1, <1>2, <1>4, HearTyped, TypeJoined

\* The rows after a change the simulator tells of.
LEMMA ChangedTyped ==
    ASSUME TypeInv, NEW e \in Event, e.kind = "dataChanged",
           e.start + e.count <= Len(itemList)
    PROVE  Changed(e) \in Seq(Row)
<1>1. /\ e.items \in Seq(Track) /\ e.start \in Nat /\ e.count \in Nat /\ itemList \in Seq(Row)
      /\ Len(itemList) \in Nat /\ Len(e.items) \in Nat
  BY EventFields, TypeParts DEF ViewType
<1>2. e.items \in Seq(Row)
  BY <1>1, SeqWider DEF Row
<1>3. CASE Len(e.items) = e.count
  <2>1. Changed(e) = [i \in DOMAIN itemList |->
                        IF i > e.start /\ i <= e.start + Len(e.items)
                        THEN e.items[i - e.start] ELSE itemList[i]]
    BY <1>1, <1>3 DEF Changed
  <2>2. Changed(e) \in [1 .. Len(itemList) -> Row]
    BY <1>1, <1>2, <2>1
  <2> QED BY <1>1, <2>2, SeqOf
<1>4. CASE Len(e.items) # e.count
  <2>1. e.start <= Len(itemList) /\ 1 <= e.start + 1 /\ e.start + 1 <= Len(itemList) + 1
    BY <1>1
  <2>2. SubSeq(itemList, 1, e.start) \in Seq(Row)
    BY <1>1, <2>1, Part
  <2>3. SubSeq(itemList, e.start + 1, Len(itemList)) \in Seq(Row)
    BY <1>1, <2>1, Part
  <2>4. CASE e.count = 0
    <3>1. Changed(e) = (SubSeq(itemList, 1, e.start) \o e.items)
                          \o SubSeq(itemList, e.start + 1, Len(itemList))
      <4>1. Len(e.items) > 0 /\ ~(Len(e.items) = e.count)
        BY <1>1, <1>4, <2>4
      <4> QED BY <2>4, <4>1 DEF Changed
    <3> QED BY <1>2, <2>2, <2>3, <3>1
  <2>5. CASE e.count # 0
    <3>1. Changed(e) = SubSeq(itemList, 1, e.start)
                          \o SubSeq(itemList, e.start + 2, Len(itemList))
      BY <1>1, <1>4, <2>5 DEF Changed
    <3>2. e.start + 2 <= Len(itemList) + 1 /\ 1 <= e.start + 2 /\ e.start + 2 \in Nat
      BY <1>1, <2>5
    <3>3. SubSeq(itemList, e.start + 2, Len(itemList)) \in Seq(Row)
      BY <1>1, <3>2, Part
    <3> QED BY <2>2, <3>1, <3>3
  <2> QED BY <2>4, <2>5
<1> QED BY <1>3, <1>4

LEMMA OnDataChangedTyped == ASSUME TypeInv, OnDataChanged PROVE TypeInv'
<1>1. Hear("dataChanged")
  BY DEF OnDataChanged
<1>2. ShownType' /\ MediaType'
  BY TypeStays DEF OnDataChanged
<1>3. ViewType'
  <2>1. itemList' \in Seq(Row)
    BY <1>1, HearTyped, ChangedTyped, TypeParts DEF OnDataChanged, ViewType
  <2> QED BY <2>1, TypeParts DEF OnDataChanged, ViewType
<1> QED BY <1>1, <1>2, <1>3, HearTyped, TypeJoined

LEMMA OnPlayTrackTyped == ASSUME TypeInv, OnPlayTrack PROVE TypeInv'
<1>1. Hear("playTrack")
  BY DEF OnPlayTrack
<1>2. ShownType' /\ ViewType'
  BY TypeStays DEF OnPlayTrack
<1>3. MediaType'
  <2>1. media' \in Row /\ mediaStatus' = "Loading"
    BY <1>1, HearTyped, EventFields DEF OnPlayTrack, Row
  <2> DEFINE s == IF GoesOn THEN "Playing" ELSE "Stopped"
  <2>2. s \in PlayState /\ Reaches(s, GoesOn \/ playing # "Stopped")
    BY DEF OnPlayTrack, PlayState
  <2> HIDE DEF s
  <2>3. playing' \in PlayState /\ {playState', shownState'} \subseteq PlayState
    BY <2>2, ReachesTyped
  <2> QED BY <2>1, <2>3 DEF MediaType
<1> QED BY <1>1, <1>2, <1>3, HearTyped, TypeJoined

LEMMA OnStateChangedTyped == ASSUME TypeInv, OnStateChanged PROVE TypeInv'
<1>1. Hear("stateChanged")
  BY DEF OnStateChanged
<1>2. ShownType' /\ ViewType'
  BY TypeStays DEF OnStateChanged
<1>3. MediaType'
  BY TypeParts DEF OnStateChanged, OnPlayStateChanged, MediaType
<1> QED BY <1>1, <1>2, <1>3, HearTyped, TypeJoined

LEMMA OnLoadedMediaTyped == ASSUME TypeInv, OnLoadedMedia PROVE TypeInv'
<1>1. MediaType'
  <2>1. playing' \in PlayState /\ {playState', shownState'} \subseteq PlayState
    BY StartsTyped, ReachesTyped DEF OnLoadedMedia, Plays
  <2> QED BY <2>1, TypeParts DEF OnLoadedMedia, MediaType
<1>2. /\ ViewType' /\ SessionType' /\ ShownType' /\ ModeType' /\ TableType'
      /\ requested' \in PlayState /\ uses' \in 0..MaxUses /\ currentIndex' \in Index
      /\ JobsOK(jobs') /\ events' \in Seq(Event) /\ OffType'
  BY TypeStays DEF OnLoadedMedia
<1> QED BY <1>1, <1>2, TypeJoined

LEMMA OnEndOfMediaTyped == ASSUME TypeInv, OnEndOfMedia PROVE TypeInv'
<1>1. MediaType'
  <2>1. "Stopped" \in PlayState
    BY DEF PlayState
  <2>2. playing' \in PlayState /\ {playState', shownState'} \subseteq PlayState
    BY <2>1, ReachesTyped DEF OnEndOfMedia, Plays
  <2> QED BY <2>2, TypeParts DEF OnEndOfMedia, MediaType
<1>2. PICK index : Choose(index)
  BY DEF OnEndOfMedia
<1>3. currentIndex' \in Index /\ JobsOK(jobs') /\ OffType'
  BY <1>2, ChooseTyped DEF OffType
<1>4. /\ ViewType' /\ SessionType' /\ ShownType' /\ ModeType' /\ TableType'
      /\ requested' \in PlayState /\ uses' \in 0..MaxUses /\ events' \in Seq(Event)
  BY TypeStays DEF OnEndOfMedia
<1> QED BY <1>1, <1>3, <1>4, TypeJoined

\* The steps there are, one by one.
Steps ==
    \/ Connect \/ Disconnect
    \/ \E index \in -1 .. Len(itemList) - 1 : Skip(index)
    \/ NextTrack \/ Previous
    \/ \E i \in 0..Len(itemList), item \in Item : Insert(i, item)
    \/ \E i \in 0..Len(itemList) - 1 : Remove(i)
    \/ \E i, j \in 0..Len(itemList) - 1 : Move(i, j)
    \/ \E mode \in Mode : SetPlayMode(mode)
    \/ \E state \in PlayState : Request(state)
    \/ \E type \in {"FetchMore", "DataChanged"} : SetLoadingType(type)
    \/ FetchMore
    \/ Execute \/ FinishSelect \/ FinishSetIndex \/ FinishInsert
    \/ FinishRemove \/ FinishMove \/ FinishRemoveCurrent
    \/ OnCurrentIndexChanged \/ OnCurrentTrackChanged \/ OnCountChanged
    \/ OnDataFetched \/ OnDataChanged \/ OnPlayTrack \/ OnStateChanged
    \/ OnLoadedMedia \/ OnEndOfMedia
    \/ UNCHANGED vars

LEMMA StepIsOne == ASSUME [Next]_vars PROVE Steps
<1>1. CASE User
  BY <1>1 DEF User, Steps, SetCurrentIndex
<1>2. CASE Worker
  BY <1>2 DEF Worker, Steps
<1>3. CASE Gui
  BY <1>3 DEF Gui, Steps
<1>4. CASE FetchMore \/ OnLoadedMedia \/ OnEndOfMedia \/ UNCHANGED vars
  BY <1>4 DEF Steps
<1> QED BY <1>1, <1>2, <1>3, <1>4 DEF Next

\* To skip is to skip to an index.
LEMMA SkipIsTo ==
    ASSUME NextTrack \/ Previous \/ \E index \in -1 .. Len(itemList) - 1 : Skip(index)
    PROVE  \E index : Skip(index)
  BY DEF NextTrack, Previous

LEMMA TypeStep == ASSUME TypeInv, [Next]_vars PROVE TypeInv'
<1>0. Steps
  BY StepIsOne
<1>1. CASE Connect
  BY <1>1, ConnectTyped
<1>2. CASE Disconnect
  BY <1>2, DisconnectTyped
<1>3. CASE NextTrack \/ Previous \/ \E index \in -1 .. Len(itemList) - 1 : Skip(index)
  BY <1>3, SkipIsTo, SkipTyped
<1>4. CASE \E i \in 0..Len(itemList), item \in Item : Insert(i, item)
  <2>1. PICK i \in 0..Len(itemList), item \in Item : Insert(i, item)
    BY <1>4
  <2> DEFINE j == NewJob("Insert", i, 0, item)
  <2>2. Fresh(j, "Insert", i, 0, item)
    BY EditsTyped
  <2>3. Edit(j)
    BY <2>1 DEF Insert
  <2> HIDE DEF j
  <2> QED BY <2>2, <2>3, EditTyped DEF Fresh
<1>5. CASE \E i \in 0..Len(itemList) - 1 : Remove(i)
  <2>1. PICK i \in 0..Len(itemList) - 1 : Remove(i)
    BY <1>5
  <2> DEFINE j == NewJob("Remove", i, 1, <<>>)
  <2>2. Fresh(j, "Remove", i, 1, <<>>)
    BY EditsTyped
  <2>3. Edit(j)
    BY <2>1 DEF Remove
  <2> HIDE DEF j
  <2> QED BY <2>2, <2>3, EditTyped DEF Fresh
<1>6. CASE \E i, k \in 0..Len(itemList) - 1 : Move(i, k)
  <2>1. PICK i \in 0..Len(itemList) - 1, k \in 0..Len(itemList) - 1 : Move(i, k)
    BY <1>6
  <2> DEFINE j == NewJob("Move", i, k, <<>>)
  <2>2. Fresh(j, "Move", i, k, <<>>)
    BY EditsTyped
  <2>3. Edit(j)
    BY <2>1 DEF Move
  <2> HIDE DEF j
  <2> QED BY <2>2, <2>3, EditTyped DEF Fresh
<1>7. CASE \E mode \in Mode : SetPlayMode(mode)
  BY <1>7, SetPlayModeTyped
<1>8. CASE \E state \in PlayState : Request(state)
  BY <1>8, RequestTyped
<1>9. CASE \E type \in {"FetchMore", "DataChanged"} : SetLoadingType(type)
  BY <1>9, SetLoadingTypeTyped
<1>10. CASE FetchMore
  BY <1>10, FetchMoreTyped
<1>11. CASE Execute \/ FinishSelect \/ FinishSetIndex \/ FinishInsert
  BY <1>11, ExecuteTyped, FinishSelectTyped, FinishSetIndexTyped, FinishInsertTyped
<1>12. CASE FinishRemove \/ FinishMove \/ FinishRemoveCurrent
  BY <1>12, FinishRemoveTyped, FinishMoveTyped, FinishRemoveCurrentTyped
<1>13. CASE OnCurrentIndexChanged \/ OnCurrentTrackChanged \/ OnCountChanged
  BY <1>13, OnCurrentIndexChangedTyped, OnCurrentTrackChangedTyped, OnCountChangedTyped
<1>14. CASE OnDataFetched \/ OnDataChanged \/ OnPlayTrack \/ OnStateChanged
  BY <1>14, OnDataFetchedTyped, OnDataChangedTyped, OnPlayTrackTyped, OnStateChangedTyped
<1>15. CASE OnLoadedMedia \/ OnEndOfMedia
  BY <1>15, OnLoadedMediaTyped, OnEndOfMediaTyped
<1>16. CASE UNCHANGED vars
  <2>1. /\ UNCHANGED viewVars /\ UNCHANGED shownVars /\ UNCHANGED sessionVars
        /\ UNCHANGED mediaVars /\ UNCHANGED <<queue, count>> /\ UNCHANGED currentIndex
        /\ UNCHANGED modeVars /\ UNCHANGED requested /\ UNCHANGED jobs /\ UNCHANGED events
        /\ UNCHANGED uses /\ UNCHANGED off
    BY <1>16 DEF vars
  <2> QED BY <2>1, TypeStays, TypeJoined
<1> QED BY <1>0, <1>1, <1>2, <1>3, <1>4, <1>5, <1>6, <1>7, <1>8, <1>9, <1>10, <1>11, <1>12,
           <1>13, <1>14, <1>15, <1>16 DEF Steps

LEMMA TypeAlways == Spec => []TypeInv
<1>1. Init => TypeInv
  BY InitTyped
<1>2. TypeInv /\ [Next]_vars => TypeInv'
  BY TypeStep
<1> QED BY <1>1, <1>2, PTL DEF Spec

(***************************************************************************)
(* Every variable keeps its type, however edits, pages and skips meet: the *)
(* connections to the play queue are as many as the identifiers used, the  *)
(* table keeps one row to a track, a job under way is the first, and the   *)
(* current index never falls below that of an empty queue.                 *)
(***************************************************************************)
THEOREM TypeCorrect == Spec => []TypeOK
<1>1. TypeInv => TypeOK
  BY DEF TypeInv
<1> QED BY <1>1, TypeAlways, PTL

------------------------------------------------------------------------------
(* What becomes of a queue: d of its elements are taken, x is added to it.   *)
Goes(S, old, new, d, x) ==
    /\ old \in Seq(S) /\ new \in Seq(S) /\ x \in Seq(S)
    /\ d \in {0, 1} /\ d <= Len(old) /\ Len(new) = Len(old) - d + Len(x)
    /\ \A p \in 1 .. Len(old) - d : new[p] = old[p + d]
    /\ \A p \in 1 .. Len(x) : new[Len(old) - d + p] = x[p]

JobsGo(d, x) == Goes(Job, jobs, jobs', d, x)
EventsGo(d, y) == Goes(Event, events, events', d, y)

LEMMA GoesAdded ==
    ASSUME NEW S, NEW s \in Seq(S), NEW x \in Seq(S)
    PROVE  Goes(S, s, s \o x, 0, x)
<1>1. /\ s \o x \in Seq(S) /\ Len(s \o x) = Len(s) + Len(x)
      /\ \A i \in 1 .. Len(s) : (s \o x)[i] = s[i]
      /\ \A i \in 1 .. Len(x) : (s \o x)[Len(s) + i] = x[i]
  BY Joined
<1> DEFINE y == s \o x
<1> HIDE DEF y
<1>2. /\ y \in Seq(S) /\ Len(y) = Len(s) + Len(x)
      /\ \A i \in 1 .. Len(s) : y[i] = s[i]
      /\ \A i \in 1 .. Len(x) : y[Len(s) + i] = x[i]
  BY <1>1 DEF y
<1>3. Goes(S, s, y, 0, x)
  BY <1>2 DEF Goes
<1> QED BY <1>3 DEF y

LEMMA GoesTaken ==
    ASSUME NEW S, NEW s \in Seq(S), s # <<>>
    PROVE  Goes(S, s, Tail(s), 1, <<>>)
<1>1. /\ Tail(s) \in Seq(S) /\ Len(Tail(s)) = Len(s) - 1 /\ Len(s) \in Nat \ {0}
      /\ \A i \in 1 .. Len(s) - 1 : Tail(s)[i] = s[i + 1]
  BY TailKeeps
<1>2. <<>> \in Seq(S) /\ Len(<<>>) = 0
  OBVIOUS
<1> DEFINE y == Tail(s)
<1> HIDE DEF y
<1>3. Goes(S, s, y, 1, <<>>)
  BY <1>1, <1>2 DEF Goes, y
<1> QED BY <1>3 DEF y

LEMMA GoesTakenAdded ==
    ASSUME NEW S, NEW s \in Seq(S), s # <<>>, NEW x \in Seq(S)
    PROVE  Goes(S, s, Tail(s) \o x, 1, x)
<1>1. /\ Tail(s) \in Seq(S) /\ Len(Tail(s)) = Len(s) - 1 /\ Len(s) \in Nat \ {0}
      /\ \A i \in 1 .. Len(s) - 1 : Tail(s)[i] = s[i + 1]
  BY TailKeeps
<1> DEFINE t == Tail(s)
           y == t \o x
<1> HIDE DEF t
<1>2. Goes(S, t, y, 0, x)
  BY <1>1, GoesAdded DEF t
<1> HIDE DEF y
<1>3. /\ y \in Seq(S) /\ Len(y) = Len(t) + Len(x)
      /\ \A i \in 1 .. Len(t) : y[i] = t[i]
      /\ \A i \in 1 .. Len(x) : y[Len(t) + i] = x[i]
      /\ Len(x) \in Nat
  BY <1>2 DEF Goes
<1>4. Goes(S, s, y, 1, x)
  BY <1>1, <1>3 DEF Goes, t
<1> QED BY <1>4 DEF y, t

LEMMA GoesSame ==
    ASSUME NEW S, NEW s \in Seq(S)
    PROVE  Goes(S, s, s, 0, <<>>)
<1>1. <<>> \in Seq(S) /\ Len(<<>>) = 0
  OBVIOUS
<1> QED BY <1>1 DEF Goes

\* Where the elements come from and where they go.
Origin(old, new, d, x) ==
    /\ \A p \in DOMAIN new :
          \/ p + d \in DOMAIN old /\ new[p] = old[p + d]
          \/ p - (Len(old) - d) \in DOMAIN x /\ new[p] = x[p - (Len(old) - d)]
    /\ \A p \in DOMAIN old : p > d => p - d \in DOMAIN new /\ new[p - d] = old[p]
    /\ \A r \in DOMAIN x : Len(old) - d + r \in DOMAIN new /\ new[Len(old) - d + r] = x[r]

LEMMA GoesFrom ==
    ASSUME NEW S, NEW old, NEW new, NEW d, NEW x, Goes(S, old, new, d, x)
    PROVE  /\ Origin(old, new, d, x)
           /\ DOMAIN old = 1 .. Len(old) /\ DOMAIN new = 1 .. Len(new) /\ DOMAIN x = 1 .. Len(x)
           /\ Len(old) \in Nat /\ Len(x) \in Nat /\ Len(new) \in Nat /\ d \in {0, 1}
           /\ d <= Len(old) /\ Len(new) = Len(old) - d + Len(x)
<1>1. /\ DOMAIN old = 1 .. Len(old) /\ DOMAIN new = 1 .. Len(new) /\ DOMAIN x = 1 .. Len(x)
      /\ Len(old) \in Nat /\ Len(x) \in Nat /\ Len(new) \in Nat /\ d \in {0, 1}
      /\ d <= Len(old) /\ Len(new) = Len(old) - d + Len(x)
      /\ \A p \in 1 .. Len(old) - d : new[p] = old[p + d]
      /\ \A p \in 1 .. Len(x) : new[Len(old) - d + p] = x[p]
  BY DEF Goes
<1>2. ASSUME NEW p \in DOMAIN new
      PROVE  \/ p + d \in DOMAIN old /\ new[p] = old[p + d]
             \/ p - (Len(old) - d) \in DOMAIN x /\ new[p] = x[p - (Len(old) - d)]
  <2>1. CASE p <= Len(old) - d
    <3>1. p \in 1 .. Len(old) - d /\ p + d \in 1 .. Len(old)
      BY <1>1, <2>1
    <3> QED BY <1>1, <3>1
  <2>2. CASE ~(p <= Len(old) - d)
    <3>1. p - (Len(old) - d) \in 1 .. Len(x) /\ Len(old) - d + (p - (Len(old) - d)) = p
      BY <1>1, <2>2
    <3> QED BY <1>1, <3>1
  <2> QED BY <2>1, <2>2
<1>3. ASSUME NEW p \in DOMAIN old, p > d
      PROVE  p - d \in DOMAIN new /\ new[p - d] = old[p]
  <2>1. p - d \in 1 .. Len(old) - d /\ p - d \in 1 .. Len(new) /\ (p - d) + d = p
    BY <1>1, <1>3
  <2> QED BY <1>1, <2>1
<1>4. ASSUME NEW r \in DOMAIN x
      PROVE  Len(old) - d + r \in DOMAIN new /\ new[Len(old) - d + r] = x[r]
  BY <1>1
<1> QED BY <1>1, <1>2, <1>3, <1>4 DEF Origin

\* An element is said to be in a queue.
Has(s, e) == \E p \in DOMAIN s : s[p] = e

LEMMA GoesHas ==
    ASSUME NEW S, NEW old, NEW new, NEW d, NEW x, Goes(S, old, new, d, x)
    PROVE  /\ \A p \in DOMAIN new : Has(old, new[p]) \/ Has(x, new[p])
           /\ \A p \in DOMAIN old : p > d => Has(new, old[p])
           /\ \A p \in DOMAIN x : Has(new, x[p])
<1>1. Origin(old, new, d, x)
  BY GoesFrom
<1>2. ASSUME NEW p \in DOMAIN new PROVE Has(old, new[p]) \/ Has(x, new[p])
  <2>1. \/ p + d \in DOMAIN old /\ new[p] = old[p + d]
        \/ p - (Len(old) - d) \in DOMAIN x /\ new[p] = x[p - (Len(old) - d)]
    BY <1>1 DEF Origin
  <2> QED BY <2>1 DEF Has
<1>3. ASSUME NEW p \in DOMAIN old, p > d PROVE Has(new, old[p])
  BY <1>1, <1>3 DEF Origin, Has
<1>4. ASSUME NEW p \in DOMAIN x PROVE Has(new, x[p])
  BY <1>1 DEF Origin, Has
<1> QED BY <1>2, <1>3, <1>4

LEMMA AskedElsewhere ==
    ASSUME NEW old, NEW new, NEW d, NEW x, Goes(Job, old, new, d, x)
    PROVE  /\ NoAsks(old) /\ NoAsks(x) => NoAsks(new)
           /\ NoAsks(x) /\ (\A p, r \in DOMAIN old : Asks(old[p]) /\ Asks(old[r]) => p = r)
                => \A p, r \in DOMAIN new : Asks(new[p]) /\ Asks(new[r]) => p = r
           /\ NoAsks(old) /\ Len(x) <= 1
                => \A p, r \in DOMAIN new : Asks(new[p]) /\ Asks(new[r]) => p = r
           /\ (\A p, r \in DOMAIN old : Asks(old[p]) /\ Asks(old[r]) => p = r)
                /\ d = 1 /\ Asks(old[1]) /\ NoAsks(x) => NoAsks(new)
<1>0. /\ DOMAIN old = 1 .. Len(old) /\ DOMAIN new = 1 .. Len(new) /\ DOMAIN x = 1 .. Len(x)
      /\ Len(old) \in Nat /\ Len(x) \in Nat /\ d \in {0, 1} /\ d <= Len(old)
  BY GoesFrom
<1>1. \A p \in DOMAIN new :
          \/ p + d \in DOMAIN old /\ new[p] = old[p + d]
          \/ p - (Len(old) - d) \in DOMAIN x /\ new[p] = x[p - (Len(old) - d)]
  BY GoesFrom DEF Origin
<1>2. NoAsks(old) /\ NoAsks(x) => NoAsks(new)
  BY <1>1 DEF NoAsks
<1>3. ASSUME NoAsks(x), \A p, r \in DOMAIN old : Asks(old[p]) /\ Asks(old[r]) => p = r,
             NEW p \in DOMAIN new, NEW r \in DOMAIN new, Asks(new[p]), Asks(new[r])
      PROVE  p = r
  <2>1. p + d \in DOMAIN old /\ new[p] = old[p + d]
    BY <1>1, <1>3 DEF NoAsks
  <2>2. r + d \in DOMAIN old /\ new[r] = old[r + d]
    BY <1>1, <1>3 DEF NoAsks
  <2>3. p + d = r + d
    BY <1>3, <2>1, <2>2
  <2> QED BY <1>0, <2>3
<1>4. ASSUME NoAsks(old), Len(x) <= 1,
             NEW p \in DOMAIN new, NEW r \in DOMAIN new, Asks(new[p]), Asks(new[r])
      PROVE  p = r
  <2>1. p - (Len(old) - d) \in DOMAIN x
    BY <1>1, <1>4 DEF NoAsks
  <2>2. r - (Len(old) - d) \in DOMAIN x
    BY <1>1, <1>4 DEF NoAsks
  <2>3. p - (Len(old) - d) = 1 /\ r - (Len(old) - d) = 1
    BY <1>0, <1>4, <2>1, <2>2
  <2> QED BY <1>0, <2>3
<1>5. ASSUME \A p, r \in DOMAIN old : Asks(old[p]) /\ Asks(old[r]) => p = r,
             d = 1, Asks(old[1]), NoAsks(x), NEW p \in DOMAIN new
      PROVE  ~Asks(new[p])
  <2>1. CASE p + d \in DOMAIN old /\ new[p] = old[p + d]
    <3>1. p + 1 \in DOMAIN old /\ new[p] = old[p + 1] /\ 1 \in DOMAIN old /\ p + 1 # 1
      BY <1>0, <1>5, <2>1
    <3> QED BY <1>5, <3>1
  <2>2. CASE p - (Len(old) - d) \in DOMAIN x /\ new[p] = x[p - (Len(old) - d)]
    BY <1>5, <2>2 DEF NoAsks
  <2> QED BY <1>1, <2>1, <2>2
<1> QED BY <1>2, <1>3, <1>4, <1>5 DEF NoAsks

LEMMA ToldElsewhere ==
    ASSUME NEW old, NEW new, NEW d, NEW x, Goes(Event, old, new, d, x)
    PROVE  /\ NoTells(old) /\ NoTells(x) => NoTells(new)
           /\ NoTells(x) /\ (\A p, r \in DOMAIN old : Tells(old[p]) /\ Tells(old[r]) => p = r)
                => \A p, r \in DOMAIN new : Tells(new[p]) /\ Tells(new[r]) => p = r
           /\ NoTells(old) /\ (\A p, r \in DOMAIN x : Tells(x[p]) /\ Tells(x[r]) => p = r)
                => \A p, r \in DOMAIN new : Tells(new[p]) /\ Tells(new[r]) => p = r
           /\ (\A p, r \in DOMAIN old : Tells(old[p]) /\ Tells(old[r]) => p = r)
                /\ d = 1 /\ Tells(old[1]) /\ NoTells(x) => NoTells(new)
<1>0. /\ DOMAIN old = 1 .. Len(old) /\ DOMAIN new = 1 .. Len(new) /\ DOMAIN x = 1 .. Len(x)
      /\ Len(old) \in Nat /\ Len(x) \in Nat /\ d \in {0, 1} /\ d <= Len(old)
  BY GoesFrom
<1>1. \A p \in DOMAIN new :
          \/ p + d \in DOMAIN old /\ new[p] = old[p + d]
          \/ p - (Len(old) - d) \in DOMAIN x /\ new[p] = x[p - (Len(old) - d)]
  BY GoesFrom DEF Origin
<1>2. NoTells(old) /\ NoTells(x) => NoTells(new)
  BY <1>1 DEF NoTells
<1>3. ASSUME NoTells(x), \A p, r \in DOMAIN old : Tells(old[p]) /\ Tells(old[r]) => p = r,
             NEW p \in DOMAIN new, NEW r \in DOMAIN new, Tells(new[p]), Tells(new[r])
      PROVE  p = r
  <2>1. p + d \in DOMAIN old /\ new[p] = old[p + d]
    BY <1>1, <1>3 DEF NoTells
  <2>2. r + d \in DOMAIN old /\ new[r] = old[r + d]
    BY <1>1, <1>3 DEF NoTells
  <2>3. p + d = r + d
    BY <1>3, <2>1, <2>2
  <2> QED BY <1>0, <2>3
<1>4. ASSUME NoTells(old), \A p, r \in DOMAIN x : Tells(x[p]) /\ Tells(x[r]) => p = r,
             NEW p \in DOMAIN new, NEW r \in DOMAIN new, Tells(new[p]), Tells(new[r])
      PROVE  p = r
  <2>1. p - (Len(old) - d) \in DOMAIN x /\ new[p] = x[p - (Len(old) - d)]
    BY <1>1, <1>4 DEF NoTells
  <2>2. r - (Len(old) - d) \in DOMAIN x /\ new[r] = x[r - (Len(old) - d)]
    BY <1>1, <1>4 DEF NoTells
  <2>3. p - (Len(old) - d) = r - (Len(old) - d)
    BY <1>4, <2>1, <2>2
  <2> QED BY <1>0, <2>3
<1>5. ASSUME \A p, r \in DOMAIN old : Tells(old[p]) /\ Tells(old[r]) => p = r,
             d = 1, Tells(old[1]), NoTells(x), NEW p \in DOMAIN new
      PROVE  ~Tells(new[p])
  <2>1. CASE p + d \in DOMAIN old /\ new[p] = old[p + d]
    <3>1. p + 1 \in DOMAIN old /\ new[p] = old[p + 1] /\ 1 \in DOMAIN old /\ p + 1 # 1
      BY <1>0, <1>5, <2>1
    <3> QED BY <1>5, <3>1
  <2>2. CASE p - (Len(old) - d) \in DOMAIN x /\ new[p] = x[p - (Len(old) - d)]
    BY <1>5, <2>2 DEF NoTells
  <2> QED BY <1>1, <2>1, <2>2
<1> QED BY <1>2, <1>3, <1>4, <1>5 DEF NoTells

\* Nothing is asked or told.
LEMMA OneStays ==
    ASSUME NEW js, NEW js2, NEW d, NEW x, Goes(Job, js, js2, d, x), NoAsks(x),
           NEW es, NEW es2, NEW e, NEW y, Goes(Event, es, es2, e, y), NoTells(y),
           NEW more, NEW more2, One(js, es, more), more2 => more
    PROVE  One(js2, es2, more2)
  BY AskedElsewhere, ToldElsewhere DEF One

\* Something is asked for.
LEMMA OneAsked ==
    ASSUME NEW js, NEW js2, NEW d, NEW x, Goes(Job, js, js2, d, x), NoAsks(js), Len(x) <= 1,
           NEW es, NoTells(es)
    PROVE  One(js2, es, FALSE)
  BY AskedElsewhere DEF One, NoTells

\* What was asked for is told.
LEMMA OneTold ==
    ASSUME NEW js, NEW js2, NEW x, Goes(Job, js, js2, 1, x), Asks(js[1]), NoAsks(x),
           NEW es, NEW es2, NEW y, Goes(Event, es, es2, 0, y),
           \A p, r \in DOMAIN y : Tells(y[p]) /\ Tells(y[r]) => p = r,
           NEW more, One(js, es, more)
    PROVE  One(js2, es2, more) /\ NoAsks(js2) /\ NoTells(es) /\ ~more
<1>1. DOMAIN js = 1 .. Len(js) /\ Len(js) \in Nat /\ 1 <= Len(js)
  BY GoesFrom
<1>2. ~NoAsks(js)
  BY <1>1 DEF NoAsks
<1>3. NoTells(es) /\ ~more
  BY <1>2 DEF One
<1>4. NoAsks(js2)
  BY AskedElsewhere DEF One
<1>5. \A p, r \in DOMAIN es2 : Tells(es2[p]) /\ Tells(es2[r]) => p = r
  BY <1>3, ToldElsewhere
<1> QED BY <1>3, <1>4, <1>5 DEF One, NoAsks

\* What was told is heard.
LEMMA OneHeard ==
    ASSUME NEW js, NEW es, NEW es2, Goes(Event, es, es2, 1, <<>>), Tells(es[1]),
           NEW more, One(js, es, more)
    PROVE  NoAsks(js) /\ NoTells(es2) /\ ~more /\ One(js, es2, FALSE) /\ One(js, es2, TRUE)
<1>1. DOMAIN es = 1 .. Len(es) /\ Len(es) \in Nat /\ 1 <= Len(es)
  BY GoesFrom
<1>2. ~NoTells(es)
  BY <1>1 DEF NoTells
<1>3. NoAsks(js) /\ ~more
  BY <1>2 DEF One
<1>4. NoTells(es2)
  <2>1. NoTells(<<>>)
    BY DEF NoTells
  <2> QED BY <2>1, ToldElsewhere DEF One
<1> QED BY <1>3, <1>4 DEF One, NoAsks, NoTells

------------------------------------------------------------------------------
(* What the actions do with the jobs and with the events.                    *)
Minor == {"currentIndexChanged", "currentTrackChanged", "playTrack", "stateChanged"}

IndexJobs(x) == \A p \in DOMAIN x : x[p].kind = "SetIndex" /\ ~x[p].done
MinorEvents(y) == \A p \in DOMAIN y : y[p].kind \in Minor

JobsQuiet ==
    \E d \in {0, 1}, x \in Seq(Job) :
        JobsGo(d, x) /\ IndexJobs(x) /\ (d = 1 => Head(jobs).kind = "SetIndex")
EventsQuiet ==
    \E d \in {0, 1}, y \in Seq(Event) :
        EventsGo(d, y) /\ MinorEvents(y) /\ (d = 1 => Head(events).kind \in Minor)

\* Neither the list nor the table is concerned.
Quiet == UNCHANGED <<viewVars, sessionVars, queue, count>> /\ JobsQuiet /\ EventsQuiet

LEMMA SameQuiet ==
    ASSUME TypeInv
    PROVE  /\ UNCHANGED jobs => JobsQuiet /\ JobsGo(0, <<>>)
           /\ UNCHANGED events => EventsQuiet /\ EventsGo(0, <<>>)
<1>1. jobs \in Seq(Job) /\ events \in Seq(Event)
  BY TypeParts DEF JobsOK
<1>2. <<>> \in Seq(Job) /\ <<>> \in Seq(Event) /\ IndexJobs(<<>>) /\ MinorEvents(<<>>)
  BY DEF IndexJobs, MinorEvents
<1>3. UNCHANGED jobs => JobsGo(0, <<>>)
  BY <1>1, GoesSame DEF JobsGo
<1>4. UNCHANGED events => EventsGo(0, <<>>)
  BY <1>1, GoesSame DEF EventsGo
<1> DEFINE n == 0
<1>0. n \in {0, 1} /\ n # 1 /\ n = 0
  OBVIOUS
<1> HIDE DEF n
<1>5. UNCHANGED jobs => JobsQuiet
  BY <1>0, <1>2, <1>3 DEF JobsQuiet
<1>6. UNCHANGED events => EventsQuiet
  BY <1>0, <1>2, <1>4 DEF EventsQuiet
<1> QED BY <1>3, <1>4, <1>5, <1>6

\* A job to set the index is of a row the worker has counted.
LEMMA IndexJob ==
    ASSUME TypeInv, NEW index, Sets(index)
    PROVE  /\ index \in Nat /\ index < count /\ count \in Nat
           /\ Fresh(SetIndexJob(index), "SetIndex", index, 0, <<>>)
<1>1. index \in Nat /\ index < count /\ count \in Nat
  BY TypeParts DEF Sets, TableType
<1>2. 0 \in Nat /\ <<>> \in Seq(Track)
  OBVIOUS
<1>3. Fresh(NewJob("SetIndex", index, 0, <<>>), "SetIndex", index, 0, <<>>)
  BY <1>1, <1>2, NewJobTyped
<1> QED BY <1>1, <1>3 DEF SetIndexJob

LEMMA ChooseGoes ==
    ASSUME TypeInv, NEW index, Choose(index)
    PROVE  /\ Sets(index) => /\ JobsGo(0, <<SetIndexJob(index)>>)
                             /\ IndexJobs(<<SetIndexJob(index)>>)
                             /\ <<SetIndexJob(index)>> \in Seq(Job)
           /\ JobsQuiet
<1>1. jobs \in Seq(Job)
  BY TypeParts DEF JobsOK
<1>2. CASE Sets(index)
  <2> DEFINE j == SetIndexJob(index)
             x == <<j>>
  <2>1. Fresh(j, "SetIndex", index, 0, <<>>)
    BY <1>2, IndexJob
  <2>2. jobs' = Append(jobs, j)
    BY <1>2 DEF Choose
  <2>3. j \in Job /\ j.kind = "SetIndex" /\ ~j.done
    BY <2>1 DEF Fresh
  <2> HIDE DEF j
  <2>4. jobs' = jobs \o x /\ x \in Seq(Job)
    BY <1>1, <2>2, <2>3
  <2>5. IndexJobs(x)
    BY <2>3 DEF IndexJobs
  <2> HIDE DEF x
  <2>6. JobsGo(0, x)
    BY <1>1, <2>4, GoesAdded DEF JobsGo
  <2>7. JobsQuiet
    BY <2>4, <2>5, <2>6 DEF JobsQuiet
  <2> QED BY <1>2, <2>4, <2>5, <2>6, <2>7 DEF x, j
<1>3. CASE ~Sets(index)
  BY <1>3, SameQuiet DEF Choose
<1> QED BY <1>2, <1>3

LEMMA SkipQuiet ==
    ASSUME TypeInv, NEW index, Skip(index)
    PROVE  Quiet
<1>1. UNCHANGED <<viewVars, sessionVars, queue, count>> /\ UNCHANGED events
  BY DEF Skip
<1>2. JobsQuiet
  BY ChooseGoes, SameQuiet DEF Skip, Empty
<1> QED BY <1>1, <1>2, SameQuiet DEF Quiet

LEMMA EndQuiet ==
    ASSUME TypeInv, OnEndOfMedia
    PROVE  Quiet
<1>1. UNCHANGED <<viewVars, sessionVars, queue, count>> /\ UNCHANGED events
  BY DEF OnEndOfMedia
<1>2. JobsQuiet
  BY ChooseGoes DEF OnEndOfMedia
<1> QED BY <1>1, <1>2, SameQuiet DEF Quiet

LEMMA StillQuiet ==
    ASSUME TypeInv,
           \/ \E mode \in Mode : SetPlayMode(mode)
           \/ \E state \in PlayState : Request(state)
           \/ OnLoadedMedia \/ UNCHANGED vars
    PROVE  Quiet
<1>1. UNCHANGED <<viewVars, sessionVars, queue, count>> /\ UNCHANGED events /\ UNCHANGED jobs
  <2>1. CASE \E mode \in Mode : SetPlayMode(mode)
    BY <2>1 DEF SetPlayMode
  <2>2. CASE \E state \in PlayState : Request(state)
    BY <2>2 DEF Request
  <2>3. CASE OnLoadedMedia
    BY <2>3 DEF OnLoadedMedia
  <2>4. CASE UNCHANGED vars
    BY <2>4 DEF vars
  <2> QED BY <2>1, <2>2, <2>3, <2>4
<1> QED BY <1>1, SameQuiet DEF Quiet

LEMMA HeardGoes ==
    ASSUME TypeInv, NEW kind, Hear(kind)
    PROVE  /\ EventsGo(1, <<>>) /\ Head(events).kind = kind /\ events[1].kind = kind
           /\ Head(events) = events[1] /\ Head(events) \in Event /\ events # <<>>
           /\ 1 \in DOMAIN events /\ UNCHANGED jobs /\ JobsGo(0, <<>>)
<1>1. events # <<>> /\ Head(events).kind = kind /\ events' = Tail(events) /\ UNCHANGED jobs
  BY DEF Hear
<1>2. events \in Seq(Event) /\ Head(events) = events[1] /\ Head(events) \in Event
      /\ 1 \in DOMAIN events
  BY <1>1, EventTaken, TypeParts
<1>3. EventsGo(1, <<>>)
  BY <1>1, <1>2, GoesTaken DEF EventsGo
<1>4. JobsGo(0, <<>>)
  BY <1>1, SameQuiet
<1> QED BY <1>1, <1>2, <1>3, <1>4

LEMMA MinorQuiet ==
    ASSUME TypeInv, OnCurrentIndexChanged \/ OnCurrentTrackChanged \/ OnPlayTrack \/ OnStateChanged
    PROVE  Quiet
<1>1. PICK kind \in Minor : Hear(kind) /\ UNCHANGED viewVars
  BY DEF OnCurrentIndexChanged, OnCurrentTrackChanged, OnPlayTrack, OnStateChanged, Minor
<1>2. UNCHANGED <<viewVars, sessionVars, queue, count>>
  BY <1>1 DEF Hear
<1>3. EventsGo(1, <<>>) /\ Head(events).kind \in Minor /\ UNCHANGED jobs
  BY <1>1, HeardGoes
<1>4. <<>> \in Seq(Event) /\ MinorEvents(<<>>)
  BY DEF MinorEvents
<1>5. EventsQuiet
  BY <1>3, <1>4 DEF EventsQuiet
<1> QED BY <1>2, <1>3, <1>5, SameQuiet DEF Quiet

LEMMA JobTakenGoes ==
    ASSUME TypeInv, jobs # <<>>, NEW x \in Seq(Job), jobs' = Tail(jobs) \o x
    PROVE  JobsGo(1, x)
<1>1. jobs \in Seq(Job)
  BY TypeParts DEF JobsOK
<1> QED BY <1>1, GoesTakenAdded DEF JobsGo

LEMMA JobDoneGoes ==
    ASSUME TypeInv, jobs # <<>>, jobs' = Tail(jobs)
    PROVE  JobsGo(1, <<>>)
<1>1. jobs \in Seq(Job)
  BY TypeParts DEF JobsOK
<1> QED BY <1>1, GoesTaken DEF JobsGo

LEMMA EventsAddedGo ==
    ASSUME TypeInv, NEW y \in Seq(Event), events' = events \o y
    PROVE  EventsGo(0, y)
<1>1. events \in Seq(Event)
  BY TypeParts
<1> QED BY <1>1, GoesAdded DEF EventsGo

\* Only minor events tell of a new current track.
LEMMA IndexToldMinor ==
    ASSUME TypeInv, NEW job \in Job, job.list # <<>>
    PROVE  MinorEvents(IndexTold(job))
<1> DEFINE p == [kind |-> "playTrack", track |-> job.list[1]]
           t == [kind |-> "currentTrackChanged", track |-> job.list[1]]
           i == [kind |-> "currentIndexChanged", index |-> job.start]
           both == <<p>> \o IndexChanged(job.start)
<1>1. /\ <<p>> \in Seq(Event) /\ t \in Event /\ IndexChanged(job.start) \in Seq(Event)
      /\ both \in Seq(Event) /\ ToPlayer(t) \in Seq(Event)
  BY IndexToldTyped
<1>2. i \in Event
  BY JobFields, EventsTyped DEF Index
<1>3. p.kind \in Minor /\ t.kind \in Minor /\ i.kind \in Minor
  BY DEF Minor
<1>4. IndexChanged(job.start) = ToQueue(i)
  BY DEF IndexChanged
<1>5. IndexTold(job) = both \o ToPlayer(t) /\ both = <<p>> \o IndexChanged(job.start)
  BY DEF IndexTold
<1> HIDE DEF p, t, i, both
<1>6. MinorEvents(ToPlayer(t)) /\ MinorEvents(ToQueue(i))
  BY <1>1, <1>2, <1>3, SignalsTyped DEF MinorEvents
<1>7. MinorEvents(<<p>>)
  BY <1>3 DEF MinorEvents
<1>8. Goes(Event, <<p>>, both, 0, IndexChanged(job.start))
  BY <1>1, <1>5, GoesAdded
<1>9. MinorEvents(both)
  BY <1>4, <1>6, <1>7, <1>8, GoesHas DEF MinorEvents, Has
<1>10. Goes(Event, both, IndexTold(job), 0, ToPlayer(t))
  BY <1>1, <1>5, GoesAdded
<1> QED BY <1>6, <1>9, <1>10, GoesHas DEF MinorEvents, Has

\* The worker's second step with a new current track.
LEMMA FinishSetIndexFacts ==
    ASSUME TypeInv, FinishSetIndex
    PROVE  /\ jobs # <<>> /\ Head(jobs).done /\ Head(jobs).kind = "SetIndex"
           /\ JobsGo(1, <<>>) /\ JobsQuiet
           /\ Head(jobs).list = <<>> => UNCHANGED events
           /\ Head(jobs).list # <<>> =>
                /\ EventsGo(0, IndexTold(Head(jobs))) /\ IndexTold(Head(jobs)) \in Seq(Event)
                /\ MinorEvents(IndexTold(Head(jobs)))
           /\ Quiet
<1> DEFINE job == Head(jobs)
<1>1. jobs # <<>> /\ job.done /\ job.kind = "SetIndex" /\ jobs' = Tail(jobs)
      /\ UNCHANGED <<viewVars, sessionVars, queue, count>>
      /\ (job.list = <<>> => UNCHANGED events)
  BY DEF FinishSetIndex, Done
<1>2. job \in Job
  BY <1>1, HeadFields
<1>3. JobsGo(1, <<>>)
  BY <1>1, JobDoneGoes
<1>4. JobsQuiet
  <2>1. <<>> \in Seq(Job) /\ IndexJobs(<<>>)
    BY DEF IndexJobs
  <2> QED BY <1>1, <1>3, <2>1 DEF JobsQuiet
<1>5. ASSUME job.list # <<>>
      PROVE  /\ EventsGo(0, IndexTold(job)) /\ IndexTold(job) \in Seq(Event)
             /\ MinorEvents(IndexTold(job))
  <2>1. events' = ((events \o <<[kind |-> "playTrack", track |-> job.list[1]]>>)
                    \o IndexChanged(job.start))
                    \o ToPlayer([kind |-> "currentTrackChanged", track |-> job.list[1]])
    BY <1>5 DEF FinishSetIndex
  <2>2. events' = events \o IndexTold(job)
    BY <1>2, <1>5, <2>1, IndexToldGrouped
  <2>3. IndexTold(job) \in Seq(Event)
    BY <1>2, <1>5, IndexToldTyped
  <2>4. MinorEvents(IndexTold(job))
    BY <1>2, <1>5, IndexToldMinor
  <2> QED BY <2>2, <2>3, <2>4, EventsAddedGo
<1>6. EventsQuiet
  <2>1. CASE job.list = <<>>
    BY <1>1, <2>1, SameQuiet
  <2>2. CASE job.list # <<>>
    BY <1>5, <2>2 DEF EventsQuiet
  <2> QED BY <2>1, <2>2
<1> QED BY <1>1, <1>3, <1>4, <1>5, <1>6 DEF Quiet

------------------------------------------------------------------------------
(* What holds before the first connection, of counts and of states.          *)
LEMMA SessionKept ==
    ASSUME Steps
    PROVE  Connect \/ Disconnect \/ UNCHANGED sessionVars
<1>1. CASE NextTrack \/ Previous \/ \E index \in -1 .. Len(itemList) - 1 : Skip(index)
  BY <1>1, SkipIsTo DEF Skip
<1>2. CASE \/ \E i \in 0..Len(itemList), item \in Item : Insert(i, item)
           \/ \E i \in 0..Len(itemList) - 1 : Remove(i)
           \/ \E i, j \in 0..Len(itemList) - 1 : Move(i, j)
  BY <1>2 DEF Insert, Remove, Move, Edit
<1>3. CASE \/ \E mode \in Mode : SetPlayMode(mode)
           \/ \E state \in PlayState : Request(state)
           \/ \E type \in {"FetchMore", "DataChanged"} : SetLoadingType(type)
           \/ FetchMore \/ OnLoadedMedia \/ OnEndOfMedia
  BY <1>3 DEF SetPlayMode, Request, SetLoadingType, FetchMore, OnLoadedMedia, OnEndOfMedia
<1>4. CASE Execute \/ FinishSelect \/ FinishSetIndex \/ FinishInsert
           \/ FinishRemove \/ FinishMove \/ FinishRemoveCurrent
  BY <1>4 DEF Execute, FinishSelect, FinishSetIndex, FinishInsert, FinishRemove, FinishMove,
              FinishRemoveCurrent, FinishEdit
<1>5. CASE OnCurrentIndexChanged \/ OnCurrentTrackChanged \/ OnCountChanged
           \/ OnDataFetched \/ OnDataChanged \/ OnPlayTrack \/ OnStateChanged
  BY <1>5 DEF OnCurrentIndexChanged, OnCurrentTrackChanged, OnCountChanged, OnDataFetched,
              OnDataChanged, OnPlayTrack, OnStateChanged, Hear
<1>6. CASE UNCHANGED vars
  BY <1>6 DEF vars
<1> QED BY <1>1, <1>2, <1>3, <1>4, <1>5, <1>6 DEF Steps

\* Unless the player is connected or something is under way, one can but connect.
LEMMA NothingElse ==
    ASSUME Steps, ~connected, jobs = <<>>, events = <<>>, mediaStatus = "NoMedia"
    PROVE  Connect \/ UNCHANGED vars
<1>1. CASE NextTrack \/ Previous \/ \E index \in -1 .. Len(itemList) - 1 : Skip(index)
  BY <1>1, SkipIsTo DEF Skip
<1>2. CASE \/ \E i \in 0..Len(itemList), item \in Item : Insert(i, item)
           \/ \E i \in 0..Len(itemList) - 1 : Remove(i)
           \/ \E i, j \in 0..Len(itemList) - 1 : Move(i, j)
  BY <1>2 DEF Insert, Remove, Move, Edit, MayEdit
<1>3. CASE \/ \E mode \in Mode : SetPlayMode(mode)
           \/ \E state \in PlayState : Request(state)
           \/ \E type \in {"FetchMore", "DataChanged"} : SetLoadingType(type)
           \/ FetchMore \/ OnLoadedMedia \/ OnEndOfMedia \/ Disconnect
  BY <1>3 DEF SetPlayMode, Request, SetLoadingType, FetchMore, OnLoadedMedia, OnEndOfMedia,
              Disconnect
<1>4. CASE Execute \/ FinishSelect \/ FinishSetIndex \/ FinishInsert
           \/ FinishRemove \/ FinishMove \/ FinishRemoveCurrent
  BY <1>4 DEF Execute, FinishSelect, FinishSetIndex, FinishInsert, FinishRemove, FinishMove,
              FinishRemoveCurrent, FinishEdit, Done
<1>5. CASE OnCurrentIndexChanged \/ OnCurrentTrackChanged \/ OnCountChanged
           \/ OnDataFetched \/ OnDataChanged \/ OnPlayTrack \/ OnStateChanged
  BY <1>5 DEF OnCurrentIndexChanged, OnCurrentTrackChanged, OnCountChanged, OnDataFetched,
              OnDataChanged, OnPlayTrack, OnStateChanged, Hear
<1> QED BY <1>1, <1>2, <1>3, <1>4, <1>5 DEF Steps

LEMMA LinksGrow ==
    ASSUME TypeInv, [Next]_vars, links' \in {0, 1}
    PROVE  /\ links' = 0 => links = 0 /\ ~connected
           /\ links' = 1 => \/ links = 1 /\ (Disconnect \/ UNCHANGED sessionVars)
                            \/ links = 0 /\ Connect
<1>1. SessionType
  BY TypeParts
<1>2. CASE Connect
  BY <1>1, <1>2 DEF Connect, SessionType, Session
<1>3. CASE Disconnect
  BY <1>1, <1>3 DEF Disconnect, SessionType, Session
<1>4. CASE UNCHANGED sessionVars
  BY <1>1, <1>4 DEF sessionVars, SessionType, Session
<1> QED BY <1>2, <1>3, <1>4, SessionKept, StepIsOne

LEMMA FreshStep == ASSUME TypeInv, FreshInv, [Next]_vars PROVE FreshInv'
<1> SUFFICES ASSUME links' = 0 PROVE FreshInv'
  BY DEF FreshInv
<1>1. links = 0 /\ ~connected
  BY LinksGrow
<1>2. jobs = <<>> /\ events = <<>> /\ mediaStatus = "NoMedia"
  BY <1>1 DEF FreshInv
<1>3. Connect \/ UNCHANGED vars
  BY <1>1, <1>2, StepIsOne, NothingElse
<1>4. CASE UNCHANGED vars
  BY <1>4 DEF FreshInv, vars, viewVars, shownVars, sessionVars, mediaVars, stateVars, modeVars
<1>5. CASE Connect
  BY <1>1, <1>5 DEF Connect
<1> QED BY <1>3, <1>4, <1>5

\* The worker's current job is half done only after its first step.
LEMMA HeadAfter ==
    ASSUME TypeInv, NEW d, NEW x, JobsGo(d, x), \A p \in DOMAIN x : ~x[p].done,
           jobs' # <<>>
    PROVE  \/ ~Head(jobs').done
           \/ /\ d = 0 /\ jobs # <<>> /\ Head(jobs') = Head(jobs) /\ Head(jobs).done
<1>1. /\ Origin(jobs, jobs', d, x)
      /\ DOMAIN jobs = 1 .. Len(jobs) /\ DOMAIN jobs' = 1 .. Len(jobs')
      /\ Len(jobs) \in Nat /\ d \in {0, 1} /\ d <= Len(jobs)
  BY GoesFrom DEF JobsGo
<1>2. jobs' \in Seq(Job) /\ JobsOK(jobs)
  BY TypeParts DEF JobsGo, Goes
<1>3. Head(jobs') = jobs'[1] /\ 1 \in DOMAIN jobs'
  BY <1>2, TailKeeps
<1>4. CASE 1 + d \in DOMAIN jobs /\ jobs'[1] = jobs[1 + d]
  <2>1. CASE d = 1
    <3>1. 1 + d > 1
      BY <2>1
    <3> QED BY <1>2, <1>3, <1>4, <3>1 DEF JobsOK
  <2>2. CASE d = 0
    <3>1. jobs'[1] = jobs[1] /\ 1 \in DOMAIN jobs
      BY <1>4, <2>2
    <3>2. jobs # <<>> /\ Head(jobs) = jobs[1]
      BY <1>2, <3>1 DEF JobsOK
    <3> QED BY <1>3, <2>2, <3>1, <3>2
  <2> QED BY <1>1, <2>1, <2>2
<1>5. CASE 1 - (Len(jobs) - d) \in DOMAIN x /\ jobs'[1] = x[1 - (Len(jobs) - d)]
  BY <1>3, <1>5
<1> QED BY <1>1, <1>3, <1>4, <1>5 DEF Origin

LEMMA CountGoes ==
    ASSUME TypeInv, CountInv, UNCHANGED <<queue, count>>,
           NEW d, NEW x, JobsGo(d, x), \A p \in DOMAIN x : ~x[p].done
    PROVE  CountInv'
<1>1. Size' = Size /\ count' = count
  BY DEF Size
<1>2. ASSUME Worked' PROVE Worked
  BY <1>2, HeadAfter DEF Worked
<1> QED BY <1>1, <1>2 DEF CountInv

LEMMA QuietCount == ASSUME TypeInv, CountInv, Quiet PROVE CountInv'
<1>1. PICK d \in {0, 1}, x \in Seq(Job) : JobsGo(d, x) /\ IndexJobs(x)
  BY DEF Quiet, JobsQuiet
<1>2. UNCHANGED <<queue, count>>
  BY DEF Quiet
<1> QED BY <1>1, <1>2, CountGoes DEF IndexJobs

LEMMA EditGoes ==
    ASSUME TypeInv, NEW job, job \in Job, ~job.done, Edit(job)
    PROVE  /\ JobsGo(0, <<job>>) /\ Len(<<job>>) = 1 /\ <<job>>[1] = job
           /\ \A p \in DOMAIN <<job>> : <<job>>[p] = job
           /\ EventsGo(0, <<>>)
<1>1. jobs' = jobs \o <<job>> /\ <<job>> \in Seq(Job) /\ \A p \in DOMAIN <<job>> : <<job>>[p] = job
  BY JobAppended DEF Edit
<1>2. jobs \in Seq(Job)
  BY TypeParts DEF JobsOK
<1>3. JobsGo(0, <<job>>)
  BY <1>1, <1>2, GoesAdded DEF JobsGo
<1>4. EventsGo(0, <<>>)
  BY SameQuiet DEF Edit
<1> QED BY <1>1, <1>3, <1>4

LEMMA ConnectGoes ==
    ASSUME TypeInv, Connect
    PROVE  /\ JobsGo(0, Times(links + 1, SelectJob(0))) /\ links + 1 \in Nat
           /\ Len(Times(links + 1, SelectJob(0))) = links + 1
           /\ DOMAIN Times(links + 1, SelectJob(0)) = 1 .. links + 1
           /\ \A p \in DOMAIN Times(links + 1, SelectJob(0)) :
                 Times(links + 1, SelectJob(0))[p] = SelectJob(0)
           /\ SelectJob(0) \in Job /\ ~SelectJob(0).done
           /\ SelectJob(0).kind = "Select" /\ SelectJob(0).id = identifier
           /\ SelectJob(0).start = 0
           /\ EventsGo(0, <<>>)
<1>1. /\ SelectJob(0) \in Job /\ ~SelectJob(0).done /\ SelectJob(0).kind = "Select"
      /\ SelectJob(0).id = identifier /\ SelectJob(0).start = 0
  BY SelectTyped
<1>2. links + 1 \in Nat
  BY TypeParts, PlayerAssumption DEF SessionType
<1>3. jobs' = jobs \o Times(links + 1, SelectJob(0))
  BY DEF Connect, ResetModel, Times
<1> DEFINE x == Times(links + 1, SelectJob(0))
<1>4. x \in Seq(Job) /\ Len(x) = links + 1 /\ DOMAIN x = 1 .. links + 1
      /\ \A p \in DOMAIN x : x[p] = SelectJob(0)
  BY <1>1, <1>2, TimesTyped
<1>5. jobs \in Seq(Job)
  BY TypeParts DEF JobsOK
<1> HIDE DEF x
<1>6. JobsGo(0, x)
  BY <1>3, <1>4, <1>5, GoesAdded DEF JobsGo, x
<1>7. EventsGo(0, <<>>)
  BY SameQuiet DEF Connect
<1> QED BY <1>1, <1>2, <1>4, <1>6, <1>7 DEF x

\* A page is asked for.
LEMMA SelectGoes ==
    ASSUME TypeInv, FetchMore \/ \E type \in {"FetchMore", "DataChanged"} : SetLoadingType(type)
    PROVE  \E start \in Nat :
              /\ JobsGo(0, <<SelectJob(start)>>) /\ Len(<<SelectJob(start)>>) = 1
              /\ \A p \in DOMAIN <<SelectJob(start)>> : <<SelectJob(start)>>[p] = SelectJob(start)
              /\ SelectJob(start) \in Job /\ ~SelectJob(start).done
              /\ SelectJob(start).kind = "Select" /\ SelectJob(start).id = identifier
              /\ SelectJob(start).start = start
              /\ EventsGo(0, <<>>)
              /\ FetchMore => start = fetchedCount
              /\ (\E type \in {"FetchMore", "DataChanged"} : SetLoadingType(type)) => start = 0
<1>1. jobs \in Seq(Job)
  BY TypeParts DEF JobsOK
<1>2. ASSUME NEW start \in Nat, jobs' = jobs \o <<SelectJob(start)>>
      PROVE  /\ JobsGo(0, <<SelectJob(start)>>) /\ Len(<<SelectJob(start)>>) = 1
             /\ \A p \in DOMAIN <<SelectJob(start)>> : <<SelectJob(start)>>[p] = SelectJob(start)
             /\ SelectJob(start) \in Job /\ ~SelectJob(start).done
             /\ SelectJob(start).kind = "Select" /\ SelectJob(start).id = identifier
             /\ SelectJob(start).start = start
  <2> DEFINE j == SelectJob(start)
  <2>1. /\ j \in Job /\ ~j.done /\ j.kind = "Select" /\ j.id = identifier /\ j.start = start
    BY SelectTyped
  <2> HIDE DEF j
  <2>2. <<j>> \in Seq(Job) /\ Len(<<j>>) = 1 /\ \A p \in DOMAIN <<j>> : <<j>>[p] = j
    BY <2>1
  <2>3. jobs' = jobs \o <<j>>
    BY <1>2 DEF j
  <2>4. JobsGo(0, <<j>>)
    BY <1>1, <2>2, <2>3, GoesAdded DEF JobsGo
  <2> QED BY <2>1, <2>2, <2>4 DEF j
<1>3. CASE FetchMore
  <2>1. fetchedCount \in Nat
    BY TypeParts DEF ViewType
  <2>2. SelectJob(fetchedCount) \in Job /\ ~SelectJob(fetchedCount).done
    BY <2>1, SelectTyped
  <2>3. jobs' = jobs \o <<SelectJob(fetchedCount)>>
    BY <1>3, <2>2, JobAppended DEF FetchMore
  <2>4. EventsGo(0, <<>>)
    BY <1>3, SameQuiet DEF FetchMore
  <2>5. moreAvailable /\ ~moreAvailable'
    BY <1>3 DEF FetchMore
  <2>6. ~\E type \in {"FetchMore", "DataChanged"} : SetLoadingType(type)
    BY <1>3 DEF FetchMore, SetLoadingType
  <2> QED BY <1>2, <2>1, <2>3, <2>4, <2>6
<1>4. CASE \E type \in {"FetchMore", "DataChanged"} : SetLoadingType(type)
  <2>1. jobs' = jobs \o <<SelectJob(0)>>
    BY <1>4 DEF SetLoadingType, ResetModel
  <2>2. EventsGo(0, <<>>)
    BY <1>4, SameQuiet DEF SetLoadingType
  <2>3. ~FetchMore
    BY <1>4 DEF FetchMore, SetLoadingType
  <2>4. 0 \in Nat
    OBVIOUS
  <2> QED BY <1>2, <2>1, <2>2, <2>3, <2>4
<1> QED BY <1>3, <1>4

------------------------------------------------------------------------------
(* The worker's second step with a page and with an edit.                    *)
PageOf(job) == [kind |-> "dataFetched", id |-> job.id, items |-> job.list,
                start |-> job.start, more |-> HasMore(job)]

PageDone ==
    /\ jobs # <<>> /\ Head(jobs).done /\ Head(jobs).kind = "Select"
    /\ JobsGo(1, <<>>)
    /\ PageOf(Head(jobs)) \in Event /\ EventsGo(0, ToQueue(PageOf(Head(jobs))))
    /\ UNCHANGED <<viewVars, sessionVars, queue, count>>

LEMMA FinishSelectDone == ASSUME TypeInv, FinishSelect PROVE PageDone
<1> DEFINE job == Head(jobs)
           e == PageOf(job)
<1>1. jobs # <<>> /\ job.done /\ job.kind = "Select" /\ jobs' = Tail(jobs)
      /\ events' = events \o ToQueue(e)
      /\ UNCHANGED <<viewVars, sessionVars, queue, count>>
  BY DEF FinishSelect, Done, PageOf
<1>2. HasMore(job) \in BOOLEAN
  BY DEF HasMore
<1>3. e \in Event
  BY <1>1, <1>2, HeadFields, EventsTyped DEF PageOf
<1> HIDE DEF e
<1>4. ToQueue(e) \in Seq(Event)
  BY <1>3, SignalsTyped
<1>5. EventsGo(0, ToQueue(e))
  BY <1>1, <1>4, EventsAddedGo
<1>6. JobsGo(1, <<>>)
  BY <1>1, JobDoneGoes
<1> QED BY <1>1, <1>3, <1>5, <1>6 DEF PageDone, e

TellsOf(y, e) ==
    /\ \A p \in DOMAIN y : y[p].kind \in Minor \/ y[p] = e
    /\ links > 0 => Has(y, e)
    /\ links <= 1 => \A p, r \in DOMAIN y : Tells(y[p]) /\ Tells(y[r]) => p = r

EditDone ==
    /\ jobs # <<>> /\ Head(jobs).done /\ Head(jobs).kind \in Edits
    /\ \E x \in Seq(Job) : JobsGo(1, x) /\ IndexJobs(x)
    /\ Telling(Head(jobs)) \in Event
    /\ \E y \in Seq(Event) : EventsGo(0, y) /\ TellsOf(y, Telling(Head(jobs)))
    /\ UNCHANGED <<viewVars, sessionVars, queue, count>>

LEMMA MinorThenTold ==
    ASSUME TypeInv, NEW m \in Seq(Event), MinorEvents(m), NEW e \in Event
    PROVE  TellsOf(m \o ToQueue(e), e)
<1> DEFINE t == ToQueue(e)
           y == m \o t
<1>1. /\ t \in Seq(Event) /\ Len(t) = links /\ links \in Nat /\ DOMAIN t = 1 .. links
      /\ \A i \in DOMAIN t : t[i] = e
  BY SignalsTyped
<1> HIDE DEF t
<1>2. Goes(Event, m, y, 0, t)
  BY <1>1, GoesAdded
<1> HIDE DEF y
<1>3. \A p \in DOMAIN y : Has(m, y[p]) \/ Has(t, y[p])
  BY <1>2, GoesHas
<1>4. \A p \in DOMAIN y : y[p].kind \in Minor \/ y[p] = e
  BY <1>1, <1>3 DEF MinorEvents, Has
<1>5. ASSUME links > 0 PROVE Has(y, e)
  <2>1. 1 \in DOMAIN t /\ t[1] = e
    BY <1>1, <1>5
  <2> QED BY <1>2, <2>1, GoesHas
<1>6. ASSUME links <= 1 PROVE \A p, r \in DOMAIN y : Tells(y[p]) /\ Tells(y[r]) => p = r
  <2>1. NoTells(m)
    BY DEF NoTells, Tells, MinorEvents, Minor
  <2>2. \A p, r \in DOMAIN t : p = r
    BY <1>1, <1>6
  <2> QED BY <1>2, <2>1, <2>2, ToldElsewhere
<1> QED BY <1>4, <1>5, <1>6 DEF TellsOf, y, t

LEMMA FinishEditDone ==
    ASSUME TypeInv, FinishInsert \/ FinishRemove \/ FinishMove
    PROVE  EditDone
<1> DEFINE job == Head(jobs)
<1>1. jobs # <<>>
  BY DEF FinishInsert, FinishRemove, FinishMove, FinishEdit, Done
<1>2. job \in Job
  BY <1>1, HeadFields
<1>3. PICK kind \in Edits, index \in Index, start \in Nat, n \in Nat :
        /\ FinishEdit(kind, index, start, n)
        /\ job.kind = kind => start = Telling(job).start /\ n = Telling(job).count
  <2>0. /\ AfterInsert(job) \in Index /\ AfterRemove(job) \in Index /\ AfterMove(job) \in Index
        /\ Lowest(job.start, job.count) \in Nat
        /\ Highest(job.start, job.count) - Lowest(job.start, job.count) + 1 \in Nat
        /\ job.start \in Nat
    BY <1>2, EditNumbers
  <2>1. CASE FinishInsert
    <3>1. FinishEdit("Insert", AfterInsert(job), job.start, 0)
      BY <2>1 DEF FinishInsert
    <3>2. job.kind = "Insert" => job.start = Telling(job).start /\ 0 = Telling(job).count
      BY DEF Telling
    <3> QED BY <2>0, <3>1, <3>2 DEF Edits
  <2>2. CASE FinishRemove
    <3>1. FinishEdit("Remove", AfterRemove(job), job.start, 1)
      BY <2>2 DEF FinishRemove
    <3>2. job.kind = "Remove" => job.start = Telling(job).start /\ 1 = Telling(job).count
      BY DEF Telling
    <3> QED BY <2>0, <3>1, <3>2 DEF Edits
  <2>3. CASE FinishMove
    <3> DEFINE low == Lowest(job.start, job.count)
               rows == Highest(job.start, job.count) - Lowest(job.start, job.count) + 1
    <3>1. FinishEdit("Move", AfterMove(job), low, rows)
      BY <2>3 DEF FinishMove
    <3>2. job.kind = "Move" => low = Telling(job).start /\ rows = Telling(job).count
      BY DEF Telling
    <3>3. low \in Nat /\ rows \in Nat
      BY <2>0
    <3> HIDE DEF low, rows
    <3> QED BY <2>0, <3>1, <3>2, <3>3 DEF Edits
  <2> QED BY <2>1, <2>2, <2>3
<1>4. /\ job.done /\ job.kind = kind /\ jobs' = Tail(jobs)
      /\ events' = events \o EditTold(index, start, n)
      /\ EditTold(index, start, n) \in Seq(Event)
      /\ UNCHANGED <<viewVars, sessionVars, queue, count>>
  BY <1>3, FinishEditTold
<1>5. Telling(job) \in Event /\ DataChanged(start, n) = ToQueue(Telling(job))
  <2>1. [kind |-> "dataChanged", items |-> job.list, start |-> start, count |-> n] \in Event
    BY <1>1, Announced
  <2>2. Telling(job) = [kind |-> "dataChanged", items |-> job.list, start |-> start,
                        count |-> n]
    BY <1>3, <1>4 DEF Telling
  <2> QED BY <2>1, <2>2 DEF DataChanged
<1> DEFINE m == IF index = currentIndex THEN <<>> ELSE IndexChanged(index)
           y == EditTold(index, start, n)
<1>6. m \in Seq(Event) /\ MinorEvents(m)
  <2>1. <<>> \in Seq(Event) /\ MinorEvents(<<>>)
    BY DEF MinorEvents
  <2> DEFINE e == [kind |-> "currentIndexChanged", index |-> index]
  <2>2. e \in Event /\ e.kind \in Minor
    BY EventsTyped DEF Minor
  <2>3. IndexChanged(index) = ToQueue(e)
    BY DEF IndexChanged
  <2> HIDE DEF e
  <2>4. ToQueue(e) \in Seq(Event) /\ MinorEvents(ToQueue(e))
    BY <2>2, SignalsTyped DEF MinorEvents
  <2> QED BY <2>1, <2>3, <2>4
<1>7. y = m \o ToQueue(Telling(job))
  BY <1>5 DEF EditTold
<1> HIDE DEF m, y
<1>8. TellsOf(y, Telling(job))
  BY <1>5, <1>6, <1>7, MinorThenTold
<1>9. y \in Seq(Event) /\ EventsGo(0, y)
  BY <1>4, EventsAddedGo DEF y
<1>10. JobsGo(1, <<>>) /\ IndexJobs(<<>>) /\ <<>> \in Seq(Job)
  BY <1>1, <1>4, JobDoneGoes DEF IndexJobs
<1> QED BY <1>1, <1>4, <1>5, <1>8, <1>9, <1>10 DEF EditDone

LEMMA NowEmptyMinor ==
    ASSUME TypeInv
    PROVE  MinorEvents(NowEmpty)
<1> DEFINE e == [kind |-> "currentTrackChanged", track |-> None]
           i == [kind |-> "currentIndexChanged", index |-> -1]
           s == IF playing = "Stopped" THEN <<>> ELSE <<[kind |-> "stateChanged"]>>
           sc == s \o ToPlayer(e)
<1>1. e \in Event /\ i \in Event
  BY EventsTyped DEF Row, Index
<1>2. s \in Seq(Event) /\ IndexChanged(-1) \in Seq(Event) /\ ToPlayer(e) \in Seq(Event)
  BY NowEmptyTyped
<1>3. MinorEvents(s)
  BY DEF MinorEvents, Minor
<1>4. e.kind \in Minor /\ i.kind \in Minor
  BY DEF Minor
<1>5. NowEmpty = sc \o IndexChanged(-1) /\ sc = s \o ToPlayer(e) /\ IndexChanged(-1) = ToQueue(i)
  BY DEF NowEmpty, IndexChanged
<1> HIDE DEF e, i, s, sc
<1>6. MinorEvents(ToPlayer(e)) /\ MinorEvents(ToQueue(i))
  BY <1>1, <1>4, SignalsTyped DEF MinorEvents
<1>7. Goes(Event, s, sc, 0, ToPlayer(e))
  BY <1>2, <1>5, GoesAdded
<1>8. sc \in Seq(Event)
  BY <1>7 DEF Goes
<1>9. MinorEvents(sc)
  BY <1>3, <1>6, <1>7, GoesHas DEF MinorEvents, Has
<1>10. Goes(Event, sc, NowEmpty, 0, IndexChanged(-1))
  BY <1>2, <1>5, <1>8, GoesAdded
<1> QED BY <1>5, <1>6, <1>9, <1>10, GoesHas DEF MinorEvents, Has

LEMMA FinishRemoveCurrentDone ==
    ASSUME TypeInv, FinishRemoveCurrent
    PROVE  EditDone
<1> DEFINE job == Head(jobs)
<1>1. /\ jobs # <<>> /\ job.done /\ job.kind = "Remove" /\ job.start = currentIndex
      /\ jobs' = Tail(jobs) \o FallbackJobs
      /\ UNCHANGED <<viewVars, sessionVars, queue, count>>
      /\ DataChanged(currentIndex, 1) \in Seq(Event) /\ currentIndex \in Nat
  BY FinishRemoveCurrentFacts
<1>2. Telling(job) \in Event /\ DataChanged(currentIndex, 1) = ToQueue(Telling(job))
  <2>1. [kind |-> "dataChanged", items |-> job.list, start |-> currentIndex, count |-> 1] \in Event
    BY <1>1, Announced
  <2>2. Telling(job) = [kind |-> "dataChanged", items |-> job.list, start |-> currentIndex,
                        count |-> 1]
    BY <1>1 DEF Telling
  <2> QED BY <2>1, <2>2 DEF DataChanged
<1> DEFINE d == DataChanged(currentIndex, 1)
           y == IF Empties(Fallback) THEN NowEmpty \o d ELSE d
<1>3. events' = events \o y
  BY FinishRemoveCurrentFacts
<1>4. NowEmpty \in Seq(Event) /\ MinorEvents(NowEmpty)
  BY NowEmptyTyped, NowEmptyMinor
<1>5. <<>> \in Seq(Event) /\ MinorEvents(<<>>) /\ d = <<>> \o d
  BY <1>1 DEF MinorEvents
<1>6. d = ToQueue(Telling(job)) /\ d \in Seq(Event)
  BY <1>1, <1>2
<1>7. y \in Seq(Event)
  BY <1>4, <1>6
<1> HIDE DEF d
<1>8. TellsOf(NowEmpty \o d, Telling(job))
  BY <1>2, <1>4, <1>6, MinorThenTold
<1>9. TellsOf(<<>> \o d, Telling(job))
  BY <1>2, <1>5, <1>6, MinorThenTold
<1>10. TellsOf(d, Telling(job))
  BY <1>5, <1>9
<1>11. TellsOf(y, Telling(job))
  BY <1>8, <1>10
<1> HIDE DEF y
<1>12. EventsGo(0, y)
  BY <1>3, <1>7, EventsAddedGo
<1>13. FallbackJobs \in Seq(Job) /\ IndexJobs(FallbackJobs)
  <2>1. FallbackJobs \in Seq(Job) /\ \A p \in DOMAIN FallbackJobs : ~FallbackJobs[p].done
    BY FallbackTyped
  <2>2. \A p \in DOMAIN FallbackJobs : FallbackJobs[p].kind = "SetIndex"
    BY DEF FallbackJobs, SetIndexJob, NewJob
  <2> QED BY <2>1, <2>2 DEF IndexJobs
<1>14. JobsGo(1, FallbackJobs)
  BY <1>1, <1>13, JobTakenGoes
<1>15. job.kind \in Edits
  BY <1>1 DEF Edits
<1> QED BY <1>1, <1>2, <1>7, <1>11, <1>12, <1>13, <1>14, <1>15 DEF EditDone

------------------------------------------------------------------------------
(* The steps by what they mean for the list and the table.                   *)
AnEdit(job) ==
    /\ job \in Job /\ ~job.done /\ job.kind \in Edits /\ job.list = <<>>
    /\ InRange(job, Len(itemList)) /\ NewTracks(job) /\ Edit(job)

Kinds ==
    \/ Connect \/ Disconnect \/ Quiet \/ (\E job \in Job : AnEdit(job))
    \/ FetchMore \/ (\E type \in {"FetchMore", "DataChanged"} : SetLoadingType(type))
    \/ Execute \/ PageDone \/ EditDone
    \/ OnCountChanged \/ OnDataFetched \/ OnDataChanged

LEMMA InsertIsEdit ==
    ASSUME TypeInv, NEW i \in 0..Len(itemList), NEW item \in Item, Insert(i, item)
    PROVE  \E job \in Job : AnEdit(job)
<1> DEFINE j == NewJob("Insert", i, 0, item)
<1>1. Fresh(j, "Insert", i, 0, item) /\ j.list = <<>>
  BY EditsTyped DEF NewJob
<1>2. Edit(j) /\ \A k \in DOMAIN item : item[k] \notin DOMAIN queue
  BY DEF Insert
<1>3. item # <<>> /\ \A k, l \in DOMAIN item : item[k] = item[l] => k = l
  BY PlayerAssumption
<1>4. Len(itemList) \in Nat
  BY TypeParts DEF ViewType
<1> HIDE DEF j
<1>5. InRange(j, Len(itemList))
  BY <1>1, <1>4 DEF Fresh, InRange
<1>6. NewTracks(j)
  BY <1>1, <1>2, <1>3 DEF Fresh, NewTracks
<1> QED BY <1>1, <1>2, <1>5, <1>6 DEF AnEdit, Fresh, Edits

LEMMA RemoveIsEdit ==
    ASSUME TypeInv, NEW i \in 0..Len(itemList) - 1, Remove(i)
    PROVE  \E job \in Job : AnEdit(job)
<1> DEFINE j == NewJob("Remove", i, 1, <<>>)
<1>1. Fresh(j, "Remove", i, 1, <<>>) /\ j.list = <<>>
  BY EditsTyped DEF NewJob
<1>2. Edit(j)
  BY DEF Remove
<1>4. Len(itemList) \in Nat
  BY TypeParts DEF ViewType
<1> HIDE DEF j
<1>5. InRange(j, Len(itemList))
  BY <1>1, <1>4 DEF Fresh, InRange
<1>6. NewTracks(j)
  BY <1>1 DEF Fresh, NewTracks
<1> QED BY <1>1, <1>2, <1>5, <1>6 DEF AnEdit, Fresh, Edits

LEMMA MoveIsEdit ==
    ASSUME TypeInv, NEW i \in 0..Len(itemList) - 1, NEW k \in 0..Len(itemList) - 1, Move(i, k)
    PROVE  \E job \in Job : AnEdit(job)
<1> DEFINE j == NewJob("Move", i, k, <<>>)
<1>1. Fresh(j, "Move", i, k, <<>>) /\ j.list = <<>>
  BY EditsTyped DEF NewJob
<1>2. Edit(j) /\ i # k
  BY DEF Move
<1>4. Len(itemList) \in Nat
  BY TypeParts DEF ViewType
<1> HIDE DEF j
<1>5. InRange(j, Len(itemList))
  BY <1>1, <1>2, <1>4 DEF Fresh, InRange
<1>6. NewTracks(j)
  BY <1>1 DEF Fresh, NewTracks
<1> QED BY <1>1, <1>2, <1>5, <1>6 DEF AnEdit, Fresh, Edits

LEMMA StepKinds == ASSUME TypeInv, [Next]_vars PROVE Kinds
<1>1. CASE NextTrack \/ Previous \/ \E index \in -1 .. Len(itemList) - 1 : Skip(index)
  BY <1>1, SkipIsTo, SkipQuiet DEF Kinds
<1>2. CASE \/ \E mode \in Mode : SetPlayMode(mode)
           \/ \E state \in PlayState : Request(state)
           \/ OnLoadedMedia \/ UNCHANGED vars
  BY <1>2, StillQuiet DEF Kinds
<1>3. CASE OnEndOfMedia
  BY <1>3, EndQuiet DEF Kinds
<1>4. CASE OnCurrentIndexChanged \/ OnCurrentTrackChanged \/ OnPlayTrack \/ OnStateChanged
  BY <1>4, MinorQuiet DEF Kinds
<1>5. CASE FinishSetIndex
  BY <1>5, FinishSetIndexFacts DEF Kinds
<1>6. CASE FinishSelect
  BY <1>6, FinishSelectDone DEF Kinds
<1>7. CASE FinishInsert \/ FinishRemove \/ FinishMove
  BY <1>7, FinishEditDone DEF Kinds
<1>8. CASE FinishRemoveCurrent
  BY <1>8, FinishRemoveCurrentDone DEF Kinds
<1>9. CASE \/ \E i \in 0..Len(itemList), item \in Item : Insert(i, item)
           \/ \E i \in 0..Len(itemList) - 1 : Remove(i)
           \/ \E i, j \in 0..Len(itemList) - 1 : Move(i, j)
  BY <1>9, InsertIsEdit, RemoveIsEdit, MoveIsEdit DEF Kinds
<1>10. CASE \/ Connect \/ Disconnect
            \/ FetchMore \/ (\E type \in {"FetchMore", "DataChanged"} : SetLoadingType(type))
            \/ Execute \/ OnCountChanged \/ OnDataFetched \/ OnDataChanged
  BY <1>10 DEF Kinds
<1> QED BY <1>1, <1>2, <1>3, <1>4, <1>5, <1>6, <1>7, <1>8, <1>9, <1>10, StepIsOne DEF Steps

\* The simulator's count is that of the table once the worker has counted it.
LEMMA CountStep == ASSUME TypeInv, CountInv, [Next]_vars PROVE CountInv'
<1>1. CASE Quiet
  BY <1>1, QuietCount
<1>2. CASE Connect
  <2>1. UNCHANGED <<queue, count>>
    BY <1>2 DEF Connect
  <2> DEFINE x == Times(links + 1, SelectJob(0))
  <2>2. JobsGo(0, x) /\ \A p \in DOMAIN x : ~x[p].done
    BY <1>2, ConnectGoes
  <2> HIDE DEF x
  <2> QED BY <2>1, <2>2, CountGoes
<1>3. CASE Disconnect
  <2>1. UNCHANGED <<queue, count>> /\ UNCHANGED jobs
    <3>1. jobs' = jobs \o <<>> /\ UNCHANGED <<queue, count>>
      BY <1>3 DEF Disconnect, ClearQueue, ResetModel
    <3> QED BY <3>1, TypeParts DEF JobsOK
  <2> QED BY <2>1, SameQuiet, CountGoes
<1>4. CASE \E job \in Job : AnEdit(job)
  <2>1. PICK job \in Job : AnEdit(job)
    BY <1>4
  <2>2. JobsGo(0, <<job>>) /\ \A p \in DOMAIN <<job>> : ~<<job>>[p].done
    BY <2>1, EditGoes DEF AnEdit
  <2>3. UNCHANGED <<queue, count>>
    BY <2>1 DEF AnEdit, Edit
  <2> DEFINE x == <<job>>
  <2>4. JobsGo(0, x) /\ \A p \in DOMAIN x : ~x[p].done
    BY <2>2
  <2> HIDE DEF x
  <2> QED BY <2>3, <2>4, CountGoes
<1>5. CASE FetchMore \/ \E type \in {"FetchMore", "DataChanged"} : SetLoadingType(type)
  <2>1. PICK start \in Nat :
           /\ JobsGo(0, <<SelectJob(start)>>)
           /\ \A p \in DOMAIN <<SelectJob(start)>> : <<SelectJob(start)>>[p] = SelectJob(start)
           /\ ~SelectJob(start).done
    BY <1>5, SelectGoes
  <2>2. UNCHANGED <<queue, count>>
    BY <1>5 DEF FetchMore, SetLoadingType
  <2> DEFINE x == <<SelectJob(start)>>
  <2>3. JobsGo(0, x) /\ \A p \in DOMAIN x : ~x[p].done
    BY <2>1
  <2> HIDE DEF x
  <2> QED BY <2>2, <2>3, CountGoes
<1>6. CASE Execute
  BY <1>6, ExecuteFacts DEF CountInv, Size
<1>7. CASE PageDone
  BY <1>7, CountGoes DEF PageDone
<1>8. CASE EditDone
  BY <1>8, CountGoes DEF EditDone, IndexJobs
<1>9. CASE OnCountChanged \/ OnDataFetched \/ OnDataChanged
  <2>1. UNCHANGED <<queue, count>> /\ UNCHANGED jobs
    BY <1>9 DEF OnCountChanged, OnDataFetched, OnDataChanged, Hear
  <2> QED BY <2>1, SameQuiet, CountGoes
<1> QED BY <1>1, <1>2, <1>3, <1>4, <1>5, <1>6, <1>7, <1>8, <1>9, StepKinds DEF Kinds

------------------------------------------------------------------------------
(* The state QMediaPlayer is in, and the mode.                               *)
LEMMA ReachesGoing ==
    ASSUME TypeInv, NEW state, NEW heard, Reaches(state, heard)
    PROVE  /\ playing' = state
           /\ state # "Stopped" => playState' = state
           /\ state = "Stopped" => playState' = playState
           /\ shownState' = IF connected /\ heard THEN playState' ELSE shownState
  BY DEF Reaches, Passed, OnPlayStateChanged

\* QMediaPlayer goes from one state to another, and it is heard of.
LEMMA PlaysShown ==
    ASSUME TypeInv, StateInv, NEW state \in PlayState, NEW heard, Reaches(state, heard),
           heard \/ state = playing, UNCHANGED <<sessionVars, modeVars>>
    PROVE  StateInv'
<1>1. /\ playing' = state
      /\ state # "Stopped" => playState' = state
      /\ state = "Stopped" => playState' = playState
      /\ shownState' = IF connected /\ heard THEN playState' ELSE shownState
  BY ReachesGoing
<1>2. UNCHANGED <<connected, links, playMode, shownMode>>
  BY DEF sessionVars, modeVars
<1>3. playing # "Stopped" => playState = playing
  BY DEF StateInv
<1>4. CASE state = "Stopped"
  BY <1>1, <1>2, <1>4 DEF StateInv, ModeAndStateShown
<1>5. CASE state # "Stopped" /\ heard
  BY <1>1, <1>2, <1>5 DEF StateInv, ModeAndStateShown
<1>6. CASE state # "Stopped" /\ ~heard
  BY <1>1, <1>2, <1>3, <1>6 DEF StateInv, ModeAndStateShown
<1> QED BY <1>4, <1>5, <1>6

LEMMA StateKept ==
    ASSUME StateInv, UNCHANGED <<sessionVars, modeVars>>, UNCHANGED <<playing, stateVars>>
    PROVE  StateInv'
  BY DEF StateInv, ModeAndStateShown, sessionVars, modeVars, stateVars

LEMMA StateStep == ASSUME TypeInv, FreshInv, StateInv, [Next]_vars PROVE StateInv'
<1>0. SessionType /\ MediaType
  BY TypeParts
<1>1. CASE Connect
  <2>1. UNCHANGED <<playing, stateVars, modeVars>> /\ links' = links + 1 /\ ~connected
    BY <1>1 DEF Connect, mediaVars
  <2>2. CASE links = 0
    BY <2>1, <2>2 DEF FreshInv, StateInv, ModeAndStateShown, stateVars, modeVars
  <2>3. CASE links # 0
    <3>1. ~(links' <= 1)
      BY <1>0, <2>1, <2>3 DEF SessionType, Session
    <3> QED BY <2>1, <3>1 DEF StateInv, stateVars
  <2> QED BY <2>2, <2>3
<1>2. CASE Disconnect
  <2>1. ~connected' /\ UNCHANGED <<playing, stateVars>>
    BY <1>2 DEF Disconnect, mediaVars
  <2> QED BY <2>1 DEF StateInv, ModeAndStateShown, stateVars
<1>3. CASE NextTrack \/ Previous \/ \E index \in -1 .. Len(itemList) - 1 : Skip(index)
  <2>1. PICK index : Skip(index)
    BY <1>3, SkipIsTo
  <2>2. UNCHANGED <<sessionVars, modeVars>>
    BY <2>1 DEF Skip
  <2>3. CASE Empties(index)
    <3>1. Reaches("Stopped", "Stopped" # playing) /\ "Stopped" \in PlayState
      BY <2>1, <2>3 DEF Skip, Empty, Plays, PlayState
    <3> QED BY <2>2, <3>1, PlaysShown
  <2>4. CASE ~Empties(index)
    <3>1. UNCHANGED <<playing, stateVars>>
      BY <2>1, <2>4 DEF Skip, mediaVars
    <3> QED BY <2>2, <3>1, StateKept
  <2> QED BY <2>3, <2>4
<1>4. CASE \/ \E i \in 0..Len(itemList), item \in Item : Insert(i, item)
           \/ \E i \in 0..Len(itemList) - 1 : Remove(i)
           \/ \E i, j \in 0..Len(itemList) - 1 : Move(i, j)
           \/ \E type \in {"FetchMore", "DataChanged"} : SetLoadingType(type)
           \/ FetchMore
  <2>1. UNCHANGED <<sessionVars, modeVars>> /\ UNCHANGED <<playing, stateVars>>
    BY <1>4 DEF Insert, Remove, Move, Edit, SetLoadingType, FetchMore, mediaVars
  <2> QED BY <2>1, StateKept
<1>5. CASE \E mode \in Mode : SetPlayMode(mode)
  <2>1. /\ shownMode' = playMode' /\ UNCHANGED <<connected, links>>
        /\ UNCHANGED <<playing, playState, shownState>>
    BY <1>5 DEF SetPlayMode, OnPlayModeChanged, mediaVars, stateVars, sessionVars
  <2> QED BY <2>1 DEF StateInv, ModeAndStateShown
<1>6. CASE \E state \in PlayState : Request(state)
  <2>1. PICK state \in PlayState : Request(state)
    BY <1>6
  <2> DEFINE s == IF media = None THEN "Stopped" ELSE state
  <2>2. Reaches(s, s # playing) /\ s \in PlayState /\ UNCHANGED <<sessionVars, modeVars>>
    BY <2>1 DEF Request, Plays, PlayState
  <2> HIDE DEF s
  <2> QED BY <2>2, PlaysShown
<1>7. CASE Execute \/ FinishSelect \/ FinishSetIndex \/ FinishInsert \/ FinishRemove \/ FinishMove
  <2>1. UNCHANGED <<sessionVars, modeVars>> /\ UNCHANGED <<playing, stateVars>>
    BY <1>7 DEF Execute, FinishSelect, FinishSetIndex, FinishInsert, FinishRemove, FinishMove,
                FinishEdit, mediaVars
  <2> QED BY <2>1, StateKept
<1>8. CASE FinishRemoveCurrent
  <2>1. UNCHANGED <<sessionVars, modeVars>>
    BY <1>8, FinishRemoveCurrentFacts
  <2>2. CASE Empties(Fallback)
    <3>1. playing' = "Stopped" /\ UNCHANGED stateVars
      BY <1>8, <2>2, FinishRemoveCurrentFacts
    <3> QED BY <2>1, <3>1 DEF StateInv, ModeAndStateShown, sessionVars, modeVars, stateVars
  <2>3. CASE ~Empties(Fallback)
    <3>1. UNCHANGED mediaVars
      BY <1>8, <2>3, FinishRemoveCurrentFacts
    <3> QED BY <2>1, <3>1, StateKept DEF mediaVars
  <2> QED BY <2>2, <2>3
<1>9. CASE OnCurrentIndexChanged \/ OnCurrentTrackChanged \/ OnCountChanged
           \/ OnDataFetched \/ OnDataChanged
  <2>1. UNCHANGED <<sessionVars, modeVars>> /\ UNCHANGED <<playing, stateVars>>
    BY <1>9 DEF OnCurrentIndexChanged, OnCurrentTrackChanged, OnCountChanged, OnDataFetched,
                OnDataChanged, Hear, mediaVars
  <2> QED BY <2>1, StateKept
<1>10. CASE OnPlayTrack
  <2> DEFINE s == IF GoesOn THEN "Playing" ELSE "Stopped"
             heard == GoesOn \/ playing # "Stopped"
  <2>1. Reaches(s, heard) /\ s \in PlayState /\ UNCHANGED <<sessionVars, modeVars>>
    BY <1>10 DEF OnPlayTrack, Hear, PlayState
  <2>2. heard \/ s = playing
    OBVIOUS
  <2> HIDE DEF s, heard
  <2> QED BY <2>1, <2>2, PlaysShown
<1>11. CASE OnStateChanged
  <2>1. UNCHANGED <<sessionVars, modeVars>> /\ UNCHANGED <<playing, playState>>
        /\ shownState' = IF connected THEN playState ELSE shownState
    BY <1>11 DEF OnStateChanged, OnPlayStateChanged, Hear
  <2> QED BY <2>1 DEF StateInv, ModeAndStateShown, sessionVars, modeVars
<1>12. CASE OnLoadedMedia
  <2>1. Reaches(Starts, Starts # playing) /\ Starts \in PlayState
        /\ UNCHANGED <<sessionVars, modeVars>>
    BY <1>12, StartsTyped DEF OnLoadedMedia, Plays
  <2> QED BY <2>1, PlaysShown
<1>13. CASE OnEndOfMedia
  <2>1. Reaches("Stopped", "Stopped" # playing) /\ "Stopped" \in PlayState
        /\ UNCHANGED <<sessionVars, modeVars>>
    BY <1>13 DEF OnEndOfMedia, Plays, PlayState
  <2> QED BY <2>1, PlaysShown
<1>14. CASE UNCHANGED vars
  BY <1>14, StateKept DEF vars, mediaVars
<1> QED BY <1>1, <1>2, <1>3, <1>4, <1>5, <1>6, <1>7, <1>8, <1>9, <1>10, <1>11, <1>12, <1>13,
           <1>14, StepIsOne DEF Steps

\* What the user wants to hear goes on.
LEMMA GoingStep == ASSUME TypeInv, GoingInv, [Next]_vars PROVE GoingInv'
<1>1. ASSUME UNCHANGED <<requested, media, playing, mediaStatus>> PROVE GoingInv'
  BY <1>1 DEF GoingInv
<1>2. CASE NextTrack \/ Previous \/ \E index \in -1 .. Len(itemList) - 1 : Skip(index)
  <2>1. PICK index : Skip(index)
    BY <1>2, SkipIsTo
  <2>2. CASE Empties(index)
    BY <2>1, <2>2 DEF Skip, Empty, GoingInv
  <2>3. CASE ~Empties(index)
    BY <1>1, <2>1, <2>3 DEF Skip, mediaVars
  <2> QED BY <2>2, <2>3
<1>3. CASE \/ Connect \/ Disconnect
           \/ \E i \in 0..Len(itemList), item \in Item : Insert(i, item)
           \/ \E i \in 0..Len(itemList) - 1 : Remove(i)
           \/ \E i, j \in 0..Len(itemList) - 1 : Move(i, j)
           \/ \E type \in {"FetchMore", "DataChanged"} : SetLoadingType(type)
           \/ \E mode \in Mode : SetPlayMode(mode)
           \/ FetchMore
  BY <1>1, <1>3 DEF Connect, Disconnect, Insert, Remove, Move, Edit, SetLoadingType, FetchMore,
                    SetPlayMode, mediaVars
<1>4. CASE \E state \in PlayState : Request(state)
  <2>1. PICK state \in PlayState : Request(state)
    BY <1>4
  <2>2. requested' = state /\ media' = media
    BY <2>1 DEF Request
  <2>3. playing' = IF media = None THEN "Stopped" ELSE state
    BY <2>1 DEF Request, Plays, Reaches
  <2> QED BY <2>2, <2>3 DEF GoingInv
<1>5. CASE Execute \/ FinishSelect \/ FinishSetIndex \/ FinishInsert \/ FinishRemove \/ FinishMove
  BY <1>1, <1>5 DEF Execute, FinishSelect, FinishSetIndex, FinishInsert, FinishRemove, FinishMove,
                    FinishEdit, mediaVars
<1>6. CASE FinishRemoveCurrent
  <2>1. CASE Empties(Fallback)
    BY <1>6, <2>1, FinishRemoveCurrentFacts DEF GoingInv
  <2>2. CASE ~Empties(Fallback)
    BY <1>1, <1>6, <2>2, FinishRemoveCurrentFacts DEF mediaVars
  <2> QED BY <2>1, <2>2
<1>7. CASE OnCurrentIndexChanged \/ OnCurrentTrackChanged \/ OnCountChanged
           \/ OnDataFetched \/ OnDataChanged \/ OnStateChanged
  BY <1>1, <1>7 DEF OnCurrentIndexChanged, OnCurrentTrackChanged, OnCountChanged, OnDataFetched,
                    OnDataChanged, OnStateChanged, Hear, mediaVars
<1>8. CASE OnPlayTrack
  BY <1>8 DEF OnPlayTrack, GoingInv
<1>9. CASE OnLoadedMedia
  BY <1>9 DEF OnLoadedMedia, Plays, Reaches, Starts, GoingInv
<1>10. CASE OnEndOfMedia
  BY <1>10 DEF OnEndOfMedia, GoingInv
<1>11. CASE UNCHANGED vars
  BY <1>1, <1>11 DEF vars, mediaVars
<1> QED BY <1>2, <1>3, <1>4, <1>5, <1>6, <1>7, <1>8, <1>9, <1>10, <1>11, StepIsOne DEF Steps

------------------------------------------------------------------------------
(* Requests, edits to come and the numbers of the rows.                      *)
LEMMA NothingUnderWay ==
    ASSUME TypeInv, Patient
    PROVE  /\ NoAsks(jobs) /\ NoTells(events)
           /\ \A p \in DOMAIN jobs : jobs[p].kind = "SetIndex"
           /\ \A p \in DOMAIN events : events[p].kind \in Minor
<1>1. ASSUME NEW p \in DOMAIN jobs PROVE jobs[p].kind = "SetIndex"
  <2>1. jobs[p] \in Job
    BY TypeParts DEF JobsOK
  <2> QED BY <2>1, JobFields DEF Patient, Pending
<1>2. ASSUME NEW p \in DOMAIN events PROVE events[p].kind \in Minor
  <2>1. events[p] \in Event
    BY TypeParts
  <2> QED BY <2>1, EventFields DEF Patient, Queued, Minor
<1>3. NoAsks(jobs)
  BY <1>1 DEF NoAsks, Asks, Edits
<1>4. NoTells(events)
  BY <1>2 DEF NoTells, Tells, Minor
<1> QED BY <1>1, <1>2, <1>3, <1>4

LEMMA NoneAskTell ==
    ASSUME NEW x, NEW y
    PROVE  /\ IndexJobs(x) => NoAsks(x)
           /\ MinorEvents(y) => NoTells(y)
           /\ NoAsks(<<>>) /\ NoTells(<<>>)
<1>1. IndexJobs(x) => NoAsks(x)
  BY DEF IndexJobs, NoAsks, Asks, Edits
<1>2. MinorEvents(y) => NoTells(y)
  BY DEF MinorEvents, NoTells, Tells, Minor
<1>3. NoAsks(<<>>) /\ NoTells(<<>>)
  BY DEF NoAsks, NoTells
<1> QED BY <1>1, <1>2, <1>3

\* What the worker's first step leaves of the requests.
LEMMA ExecuteAsks ==
    ASSUME TypeInv, Execute
    PROVE  /\ \A p \in DOMAIN jobs' : p \in DOMAIN jobs /\ jobs'[p].kind = jobs[p].kind
           /\ DOMAIN jobs' = DOMAIN jobs
           /\ \E y \in Seq(Event) :
                /\ EventsGo(0, y) /\ NoTells(y)
                /\ \A p \in DOMAIN y : y[p] = [kind |-> "countChanged", length |-> count']
<1>1. /\ DOMAIN jobs' = DOMAIN jobs /\ jobs'[1] = Carried(Head(jobs))
      /\ \A p \in DOMAIN jobs : p > 1 => jobs'[p] = jobs[p]
      /\ jobs # <<>> /\ Head(jobs) \in Job /\ count' \in Nat
  BY ExecuteFacts
<1>2. Head(jobs) = jobs[1] /\ DOMAIN jobs = 1 .. Len(jobs) /\ Len(jobs) \in Nat
  BY <1>1, HeadFields, TypeParts DEF JobsOK
<1>3. Carried(Head(jobs)).kind = Head(jobs).kind
  BY <1>1 DEF Carried, Job
<1>4. \A p \in DOMAIN jobs' : p \in DOMAIN jobs /\ jobs'[p].kind = jobs[p].kind
  BY <1>1, <1>2, <1>3
<1> DEFINE e == [kind |-> "countChanged", length |-> count']
<1>5. e \in Event /\ ~Tells(e)
  BY <1>1, EventsTyped DEF Tells
<1>6. events' = events \o ToQueue(e)
  BY DEF Execute
<1> HIDE DEF e
<1>7. ToQueue(e) \in Seq(Event) /\ \A i \in DOMAIN ToQueue(e) : ToQueue(e)[i] = e
  BY <1>5, SignalsTyped
<1>8. NoTells(ToQueue(e))
  BY <1>5, <1>7 DEF NoTells
<1>9. EventsGo(0, ToQueue(e))
  BY <1>6, <1>7, EventsAddedGo
<1> QED BY <1>1, <1>4, <1>7, <1>8, <1>9 DEF e

LEMMA LinksNat ==
    ASSUME TypeInv, [Next]_vars
    PROVE  links \in Nat /\ links' \in Nat
<1>1. links \in 0..MaxSession /\ MaxSession \in Nat
  BY TypeParts, PlayerAssumption DEF SessionType
<1>2. TypeInv'
  BY TypeStep
<1>3. links' \in 0..MaxSession
  BY <1>2 DEF TypeInv, TypeOK
<1> QED BY <1>1, <1>3

LEMMA RequestStep ==
    ASSUME TypeInv, FreshInv, [Next]_vars, links' <= 1, links <= 1 => OneRequest
    PROVE  OneRequest'
<1>0. links' \in {0, 1} /\ links \in Nat
  BY LinksNat
<1>1. CASE Connect
  <2>1. links = 0
    <3>1. links' = links + 1
      BY <1>1 DEF Connect
    <3> QED BY <1>0, <3>1
  <2>2. jobs = <<>> /\ events = <<>>
    BY <2>1 DEF FreshInv
  <2> DEFINE x == Times(links + 1, SelectJob(0))
  <2>3. JobsGo(0, x) /\ Len(x) <= 1 /\ UNCHANGED events /\ moreAvailable' = FALSE
    BY <1>1, <2>1, ConnectGoes DEF Connect, ResetModel
  <2> HIDE DEF x
  <2>4. NoAsks(jobs) /\ NoTells(events)
    BY <2>2, NoneAskTell
  <2>5. One(jobs', events, FALSE)
    BY <2>3, <2>4, OneAsked DEF JobsGo
  <2> QED BY <2>3, <2>5 DEF OneRequest
<1> SUFFICES ASSUME ~Connect PROVE OneRequest'
  BY <1>1
<1>2. links <= 1 /\ OneRequest
  BY <1>0, LinksGrow
<1>3. CASE Disconnect
  <2>1. jobs' = jobs /\ events' = events /\ moreAvailable' = FALSE
    <3>1. jobs' = jobs \o <<>> /\ events' = events /\ moreAvailable' = FALSE
      BY <1>3 DEF Disconnect, ClearQueue, ResetModel
    <3> QED BY <3>1, TypeParts DEF JobsOK
  <2> QED BY <1>2, <2>1 DEF OneRequest, One
<1>4. CASE Quiet
  <2>1. PICK d \in {0, 1}, x \in Seq(Job) : JobsGo(d, x) /\ IndexJobs(x)
    BY <1>4 DEF Quiet, JobsQuiet
  <2>2. PICK e \in {0, 1}, y \in Seq(Event) : EventsGo(e, y) /\ MinorEvents(y)
    BY <1>4 DEF Quiet, EventsQuiet
  <2>3. moreAvailable' = moreAvailable
    BY <1>4 DEF Quiet, viewVars
  <2>4. NoAsks(x) /\ NoTells(y)
    BY <2>1, <2>2, NoneAskTell
  <2> QED BY <1>2, <2>1, <2>2, <2>3, <2>4, OneStays DEF JobsGo, EventsGo, OneRequest
<1>5. CASE \E job \in Job : AnEdit(job)
  <2>1. PICK job \in Job : AnEdit(job)
    BY <1>5
  <2> DEFINE x == <<job>>
  <2>2. JobsGo(0, x) /\ Len(x) <= 1
    BY <2>1, EditGoes DEF AnEdit
  <2>3. UNCHANGED events /\ moreAvailable' = FALSE /\ Patient
    BY <2>1, TypeParts DEF AnEdit, Edit, MayEdit, viewVars, ViewType
  <2> HIDE DEF x
  <2>4. NoAsks(jobs) /\ NoTells(events)
    BY <2>3, NothingUnderWay
  <2>5. One(jobs', events, FALSE)
    BY <2>2, <2>4, OneAsked DEF JobsGo
  <2> QED BY <2>3, <2>5 DEF OneRequest
<1>6. CASE FetchMore \/ \E type \in {"FetchMore", "DataChanged"} : SetLoadingType(type)
  <2>1. PICK start \in Nat : JobsGo(0, <<SelectJob(start)>>) /\ Len(<<SelectJob(start)>>) = 1
    BY <1>6, SelectGoes
  <2>2. UNCHANGED events /\ moreAvailable' = FALSE
    BY <1>6 DEF FetchMore, SetLoadingType, ResetModel
  <2>3. NoAsks(jobs) /\ NoTells(events)
    BY <1>2, <1>6, NothingUnderWay DEF FetchMore, SetLoadingType, OneRequest, One
  <2> DEFINE x == <<SelectJob(start)>>
  <2>4. JobsGo(0, x) /\ Len(x) <= 1
    BY <2>1
  <2> HIDE DEF x
  <2>5. One(jobs', events, FALSE)
    BY <2>3, <2>4, OneAsked DEF JobsGo
  <2> QED BY <2>2, <2>5 DEF OneRequest
<1>7. CASE Execute
  <2>1. \A p \in DOMAIN jobs' : p \in DOMAIN jobs /\ jobs'[p].kind = jobs[p].kind
    BY <1>7, ExecuteAsks
  <2>2. PICK y \in Seq(Event) : EventsGo(0, y) /\ NoTells(y)
    BY <1>7, ExecuteAsks
  <2>3. moreAvailable' = moreAvailable
    BY <1>7 DEF Execute, viewVars
  <2>4. \A p \in DOMAIN jobs' : Asks(jobs'[p]) <=> Asks(jobs[p])
    BY <2>1 DEF Asks
  <2>6. /\ NoTells(events) => NoTells(events')
        /\ \A p, r \in DOMAIN events' : Tells(events'[p]) /\ Tells(events'[r]) => p = r
    BY <1>2, <2>2, ToldElsewhere DEF EventsGo, OneRequest, One
  <2>7. NoAsks(jobs) => NoAsks(jobs')
    BY <2>1, <2>4 DEF NoAsks
  <2>8. \A p, r \in DOMAIN jobs' : Asks(jobs'[p]) /\ Asks(jobs'[r]) => p = r
    BY <1>2, <2>1, <2>4 DEF OneRequest, One
  <2> QED BY <1>2, <2>3, <2>6, <2>7, <2>8 DEF OneRequest, One
<1>8. CASE PageDone
  <2> DEFINE e == PageOf(Head(jobs))
  <2>1. /\ jobs # <<>> /\ Asks(Head(jobs)) /\ JobsGo(1, <<>>) /\ EventsGo(0, ToQueue(e))
        /\ e \in Event /\ moreAvailable' = moreAvailable
    BY <1>8 DEF PageDone, Asks, viewVars
  <2>2. Head(jobs) = jobs[1]
    BY <2>1, HeadFields
  <2> HIDE DEF e
  <2>3. \A p, r \in DOMAIN ToQueue(e) : p = r
    BY <1>0, <1>2, <2>1, SignalsTyped
  <2>4. One(jobs', events', moreAvailable)
    BY <1>2, <2>1, <2>2, <2>3, NoneAskTell, OneTold DEF JobsGo, EventsGo, OneRequest
  <2> QED BY <2>1, <2>4 DEF OneRequest
<1>9. CASE EditDone
  <2>1. PICK x \in Seq(Job) : JobsGo(1, x) /\ IndexJobs(x)
    BY <1>9 DEF EditDone
  <2>2. PICK y \in Seq(Event) : EventsGo(0, y) /\ TellsOf(y, Telling(Head(jobs)))
    BY <1>9 DEF EditDone
  <2>3. Asks(jobs[1]) /\ moreAvailable' = moreAvailable
    BY <1>9, HeadFields DEF EditDone, Asks, viewVars
  <2>4. \A p, r \in DOMAIN y : Tells(y[p]) /\ Tells(y[r]) => p = r
    BY <1>2, <2>2 DEF TellsOf
  <2>5. NoAsks(x)
    BY <2>1, NoneAskTell
  <2>6. One(jobs', events', moreAvailable)
    BY <1>2, <2>1, <2>2, <2>3, <2>4, <2>5, OneTold DEF JobsGo, EventsGo, OneRequest
  <2> QED BY <2>3, <2>6 DEF OneRequest
<1>10. CASE OnCountChanged
  <2>1. /\ EventsGo(1, <<>>) /\ JobsGo(0, <<>>) /\ moreAvailable' = moreAvailable
    BY <1>10, HeardGoes DEF OnCountChanged
  <2> QED BY <1>2, <2>1, NoneAskTell, OneStays DEF JobsGo, EventsGo, OneRequest
<1>11. CASE OnDataFetched \/ OnDataChanged
  <2>1. EventsGo(1, <<>>) /\ Tells(events[1]) /\ UNCHANGED jobs
    BY <1>11, HeardGoes DEF OnDataFetched, OnDataChanged, Tells
  <2>2. NoAsks(jobs) /\ NoTells(events') /\ One(jobs, events', FALSE) /\ One(jobs, events', TRUE)
    BY <1>2, <2>1, OneHeard DEF EventsGo, OneRequest
  <2> QED BY <2>1, <2>2 DEF OneRequest, One
<1> QED BY <1>3, <1>4, <1>5, <1>6, <1>7, <1>8, <1>9, <1>10, <1>11, StepKinds DEF Kinds

\* Only edits are of rows.
LEMMA RangeOfOthers ==
    ASSUME NEW job, job.kind \notin Edits, NEW n
    PROVE  InRange(job, n) /\ NewTracks(job)
  BY DEF InRange, NewTracks, Edits

LEMMA RangeGrows ==
    ASSUME NEW job \in Job, NEW m \in Nat, NEW n \in Nat, m <= n, InRange(job, m)
    PROVE  InRange(job, n)
<1>1. job.start \in Nat /\ job.count \in Nat /\ job.kind \in Edits \cup {"Select", "SetIndex"}
  BY JobFields
<1>2. CASE job.kind = "Insert"
  BY <1>1, <1>2 DEF InRange
<1>3. CASE job.kind = "Remove"
  BY <1>1, <1>3 DEF InRange
<1>4. CASE job.kind = "Move"
  BY <1>1, <1>4 DEF InRange
<1> QED BY <1>2, <1>3, <1>4 DEF InRange

LEMMA FetchedFits ==
    ASSUME TypeInv, RowsNumbered, NEW list \in Seq(Row), FromRow(queue, list, 0)
    PROVE  Len(list) <= Size
<1>1. IsTable(queue) /\ Size \in Nat
  BY TypeInvFacts
<1>2. Gapless(queue)
  BY DEF RowsNumbered, Gapless
<1>3. \A t \in DOMAIN queue : queue[t] \in 0 .. Size - 1
  BY <1>1, <1>2, RowsListed DEF Size
<1>4. Len(list) \in Nat /\ DOMAIN list = 1 .. Len(list)
  OBVIOUS
<1>5. CASE Len(list) = 0
  BY <1>1, <1>5
<1>6. CASE Len(list) # 0
  <2>1. Len(list) \in DOMAIN list
    BY <1>4, <1>6
  <2>2. queue[list[Len(list)]] = 0 + Len(list) - 1 /\ list[Len(list)] \in DOMAIN queue
    BY <2>1 DEF FromRow
  <2>3. 0 + Len(list) - 1 \in 0 .. Size - 1
    BY <1>3, <2>2
  <2> QED BY <1>1, <1>4, <2>3
<1> QED BY <1>5, <1>6

\* A list that may be edited has the first rows of the table.
LEMMA EditedListFollows ==
    ASSUME TypeInv, NumberInv, ViewInv, links <= 1, MayEdit
    PROVE  FromRow(queue, itemList, 0) /\ Len(itemList) <= Size
<1>1. ListGrows /\ Patient
  BY DEF ViewInv, ListFits, MayEdit
<1>2. ~Edited
  <2>1. SUFFICES ASSUME jobs # <<>> PROVE Head(jobs).kind \notin Edits
    BY DEF Edited, Worked
  <2>2. Head(jobs) = jobs[1] /\ 1 \in DOMAIN jobs
    BY <2>1, HeadFields
  <2> QED BY <1>1, <2>2, NothingUnderWay DEF Edits
<1>3. NoneOf(events, "dataChanged")
  BY <1>1, NothingUnderWay DEF NoneOf, Minor
<1>4. FromRow(queue, itemList, 0)
  BY <1>1, <1>2, <1>3 DEF ListGrows
<1> QED BY <1>4, FetchedFits, TypeParts DEF NumberInv, ViewType

LEMMA RangeGoes ==
    ASSUME TypeInv, EditsInv, UNCHANGED queue, NEW d, NEW x, JobsGo(d, x),
           \A p \in DOMAIN x : InRange(x[p], Size) /\ NewTracks(x[p])
    PROVE  EditsInv'
<1>1. Size' = Size
  BY DEF Size
<1>2. \A p \in DOMAIN jobs' : Has(jobs, jobs'[p]) \/ Has(x, jobs'[p])
  BY GoesHas DEF JobsGo
<1>3. ASSUME NEW p \in DOMAIN jobs', ~jobs'[p].done
      PROVE  InRange(jobs'[p], Size) /\ NewTracks(jobs'[p])
  BY <1>2, <1>3 DEF Has, EditsInv
<1>4. ASSUME NEW p \in DOMAIN jobs', ~jobs'[p].done
      PROVE  /\ InRange(jobs'[p], Size')
             /\ jobs'[p].kind = "Insert" =>
                 /\ jobs'[p].tracks # <<>>
                 /\ \A i, j \in DOMAIN jobs'[p].tracks :
                       jobs'[p].tracks[i] = jobs'[p].tracks[j] => i = j
                 /\ \A i \in DOMAIN jobs'[p].tracks : jobs'[p].tracks[i] \notin DOMAIN queue'
  BY <1>1, <1>3, <1>4 DEF NewTracks
<1> QED BY <1>4 DEF EditsInv, NewTracks, InRange

\* The worker's first step leaves no edit but the one it does.
LEMMA EditAlone ==
    ASSUME TypeInv, OneRequest, jobs # <<>>, Asks(Head(jobs)), NEW p \in DOMAIN jobs, p > 1
    PROVE  ~Asks(jobs[p])
<1>1. Head(jobs) = jobs[1] /\ 1 \in DOMAIN jobs
  BY HeadFields
<1> QED BY <1>1 DEF OneRequest, One

\* The table keeps its rows numbered through whatever the worker does.
LEMMA TableNumbered ==
    ASSUME TypeInv, EditsInv, RowsNumbered, Execute
    PROVE  Gapless(queue')
<1> DEFINE job == Head(jobs)
<1>1. jobs # <<>> /\ ~job.done /\ job \in Job /\ queue' = Table(job)
  BY ExecuteFacts
<1>2. InRange(job, Size) /\ NewTracks(job)
  BY <1>1, HeadFields DEF EditsInv
<1>3. IsTable(queue) /\ Gapless(queue) /\ Size = Cardinality(DOMAIN queue)
  BY TypeInvFacts DEF RowsNumbered, Gapless, Size
<1>4. /\ job.kind \in Edits \cup {"Select", "SetIndex"}
      /\ job.start \in Nat /\ job.count \in Nat /\ job.tracks \in Seq(Track)
  BY <1>1, JobFields
<1>5. CASE job.kind = "Insert"
  <2>1. job.start <= Size /\ queue' = Inserted(queue, job.start, job.tracks)
    BY <1>1, <1>2, <1>5 DEF InRange, Table
  <2>2. /\ \A i, j \in DOMAIN job.tracks : job.tracks[i] = job.tracks[j] => i = j
        /\ \A i \in DOMAIN job.tracks : job.tracks[i] \notin DOMAIN queue
    BY <1>2, <1>5 DEF NewTracks
  <2> HIDE DEF job
  <2> QED BY <1>3, <1>4, <2>1, <2>2, PutInGapless
<1>6. CASE job.kind = "Remove"
  <2>1. job.start < Size /\ queue' = Removed(queue, job.start)
    BY <1>1, <1>2, <1>6 DEF InRange, Table
  <2> HIDE DEF job
  <2> QED BY <1>3, <1>4, <2>1, TakenOutGapless
<1>7. CASE job.kind = "Move"
  <2>1. /\ job.start < Size /\ job.count < Size /\ job.start # job.count
        /\ queue' = Moved(queue, job.start, job.count)
    BY <1>1, <1>2, <1>7 DEF InRange, Table
  <2> HIDE DEF job
  <2> QED BY <1>3, <1>4, <2>1, MovedGapless
<1>8. CASE job.kind \notin Edits
  BY <1>1, <1>3, <1>4, <1>8 DEF Table, Edits
<1> QED BY <1>4, <1>5, <1>6, <1>7, <1>8 DEF Edits

LEMMA EditsStep ==
    ASSUME TypeInv, FreshInv, NumberInv, ViewInv, [Next]_vars, links' <= 1
    PROVE  EditsInv' /\ (links > 0 => RowsNumbered')
<1>0. links' \in {0, 1} /\ links \in Nat
  BY LinksNat
<1>1. CASE Connect
  <2>1. links = 0
    <3>1. links' = links + 1
      BY <1>1 DEF Connect
    <3> QED BY <1>0, <3>1
  <2> DEFINE x == Times(links + 1, SelectJob(0))
  <2>2. /\ JobsGo(0, x) /\ \A p \in DOMAIN x : x[p].kind \notin Edits
    BY <1>1, ConnectGoes DEF Edits
  <2>3. UNCHANGED queue
    BY <1>1 DEF Connect
  <2> HIDE DEF x
  <2>4. \A p \in DOMAIN x : InRange(x[p], Size) /\ NewTracks(x[p])
    BY <2>2, RangeOfOthers
  <2>5. EditsInv
    BY <2>1 DEF NumberInv
  <2> QED BY <2>1, <2>2, <2>3, <2>4, <2>5, RangeGoes
<1> SUFFICES ASSUME ~Connect PROVE EditsInv' /\ RowsNumbered'
  BY <1>1
<1>2. links <= 1 /\ OneRequest /\ EditsInv /\ RowsNumbered
  BY <1>0, LinksGrow DEF NumberInv
<1>3. ASSUME UNCHANGED queue, NEW d, NEW x, JobsGo(d, x),
             \A p \in DOMAIN x : InRange(x[p], Size) /\ NewTracks(x[p])
      PROVE  EditsInv' /\ RowsNumbered'
  BY <1>2, <1>3, RangeGoes DEF RowsNumbered
<1>4. ASSUME UNCHANGED queue, UNCHANGED jobs PROVE EditsInv' /\ RowsNumbered'
  BY <1>3, <1>4, SameQuiet
<1>5. CASE Disconnect
  <2>1. UNCHANGED queue /\ jobs' = jobs \o <<>>
    BY <1>5 DEF Disconnect, ClearQueue, ResetModel
  <2> QED BY <1>4, <2>1, TypeParts DEF JobsOK
<1>6. CASE Quiet
  <2>1. PICK d \in {0, 1}, x \in Seq(Job) : JobsGo(d, x) /\ IndexJobs(x)
    BY <1>6 DEF Quiet, JobsQuiet
  <2>2. \A p \in DOMAIN x : InRange(x[p], Size) /\ NewTracks(x[p])
    BY <2>1, RangeOfOthers DEF IndexJobs, Edits
  <2> QED BY <1>3, <1>6, <2>1, <2>2 DEF Quiet
<1>7. CASE \E job \in Job : AnEdit(job)
  <2>1. PICK job \in Job : AnEdit(job)
    BY <1>7
  <2> DEFINE x == <<job>>
  <2>2. JobsGo(0, x) /\ \A p \in DOMAIN x : x[p] = job
    BY <2>1, EditGoes DEF AnEdit
  <2>3. UNCHANGED queue /\ MayEdit
    BY <2>1 DEF AnEdit, Edit
  <2>4. Len(itemList) <= Size /\ Len(itemList) \in Nat /\ Size \in Nat
    BY <1>2, <2>3, EditedListFollows, TypeParts, TypeInvFacts DEF ViewType
  <2>5. InRange(job, Size) /\ NewTracks(job)
    BY <2>1, <2>4, RangeGrows DEF AnEdit
  <2> HIDE DEF x
  <2> QED BY <1>3, <2>2, <2>3, <2>5
<1>8. CASE FetchMore \/ \E type \in {"FetchMore", "DataChanged"} : SetLoadingType(type)
  <2>1. PICK start \in Nat :
           /\ JobsGo(0, <<SelectJob(start)>>)
           /\ \A p \in DOMAIN <<SelectJob(start)>> : <<SelectJob(start)>>[p] = SelectJob(start)
           /\ SelectJob(start).kind = "Select"
    BY <1>8, SelectGoes
  <2>2. UNCHANGED queue
    BY <1>8 DEF FetchMore, SetLoadingType
  <2> DEFINE x == <<SelectJob(start)>>
  <2>3. JobsGo(0, x) /\ \A p \in DOMAIN x : x[p].kind \notin Edits
    BY <2>1 DEF Edits
  <2> HIDE DEF x
  <2>4. \A p \in DOMAIN x : InRange(x[p], Size) /\ NewTracks(x[p])
    BY <2>3, RangeOfOthers
  <2> QED BY <1>3, <2>2, <2>3, <2>4
<1>9. CASE Execute
  <2>1. RowsNumbered'
    BY <1>2, <1>9, TableNumbered DEF RowsNumbered, Gapless
  <2>2. /\ DOMAIN jobs' = DOMAIN jobs /\ jobs'[1] = Carried(Head(jobs)) /\ Head(jobs) \in Job
        /\ \A p \in DOMAIN jobs : p > 1 => jobs'[p] = jobs[p]
        /\ jobs # <<>> /\ queue' = Table(Head(jobs))
        /\ Head(jobs).kind \in Edits \cup {"Select", "SetIndex"}
    BY <1>9, ExecuteFacts, HeadFields
  <2>3. DOMAIN jobs = 1 .. Len(jobs) /\ Len(jobs) \in Nat
    BY TypeParts DEF JobsOK
  <2>4. Carried(Head(jobs)).done
    BY <2>2 DEF Carried, Job
  <2>5. ASSUME NEW p \in DOMAIN jobs', ~jobs'[p].done
        PROVE  /\ p \in DOMAIN jobs /\ p > 1 /\ jobs'[p] = jobs[p]
               /\ InRange(jobs[p], Size) /\ NewTracks(jobs[p])
    <3>1. p \in DOMAIN jobs /\ p > 1 /\ jobs'[p] = jobs[p]
      BY <2>2, <2>3, <2>4, <2>5
    <3> QED BY <1>2, <2>5, <3>1 DEF EditsInv
  <2>6. CASE Head(jobs).kind \in Edits
    <3>1. ASSUME NEW p \in DOMAIN jobs', ~jobs'[p].done
          PROVE  jobs'[p].kind \notin Edits
      BY <1>2, <2>2, <2>5, <2>6, <3>1, EditAlone DEF Asks
    <3>2. ASSUME NEW p \in DOMAIN jobs', ~jobs'[p].done
          PROVE  InRange(jobs'[p], Size') /\ (jobs'[p].kind # "Insert")
      BY <3>1, <3>2, RangeOfOthers DEF Edits
    <3>3. EditsInv'
      BY <3>2 DEF EditsInv, NewTracks, InRange
    <3> QED BY <2>1, <3>3
  <2>7. CASE Head(jobs).kind \notin Edits
    <3>1. queue' = queue
      BY <2>2, <2>7 DEF Table, Edits
    <3>2. EditsInv'
      BY <2>5, <3>1 DEF EditsInv, InRange, NewTracks, Size
    <3> QED BY <2>1, <3>2
  <2> QED BY <2>6, <2>7
<1>10. CASE PageDone
  <2>1. JobsGo(1, <<>>) /\ UNCHANGED queue
    BY <1>10 DEF PageDone
  <2> QED BY <1>3, <2>1
<1>11. CASE EditDone
  <2>1. PICK x \in Seq(Job) : JobsGo(1, x) /\ IndexJobs(x)
    BY <1>11 DEF EditDone
  <2>2. \A p \in DOMAIN x : InRange(x[p], Size) /\ NewTracks(x[p])
    BY <2>1, RangeOfOthers DEF IndexJobs, Edits
  <2> QED BY <1>3, <1>11, <2>1, <2>2 DEF EditDone
<1>12. CASE OnCountChanged \/ OnDataFetched \/ OnDataChanged
  <2>1. UNCHANGED queue /\ UNCHANGED jobs
    BY <1>12 DEF OnCountChanged, OnDataFetched, OnDataChanged, Hear
  <2> QED BY <1>4, <2>1
<1> QED BY <1>5, <1>6, <1>7, <1>8, <1>9, <1>10, <1>11, <1>12, StepKinds DEF Kinds

LEMMA ConnectNumbers ==
    ASSUME TypeInv, NumberInv, Connect, links = 0
    PROVE  RowsNumbered'
  BY DEF Connect, NumberInv, RowsNumbered

LEMMA NumberStep ==
    ASSUME TypeInv, FreshInv, NumberInv, ViewInv, [Next]_vars
    PROVE  NumberInv'
<1> SUFFICES ASSUME links' <= 1 PROVE OneRequest' /\ EditsInv' /\ RowsNumbered'
  BY DEF NumberInv
<1>1. OneRequest'
  BY RequestStep DEF NumberInv
<1>2. EditsInv' /\ (links > 0 => RowsNumbered')
  BY EditsStep
<1>3. links \in Nat /\ links' \in {0, 1}
  BY LinksNat
<1>4. ASSUME links = 0 PROVE RowsNumbered'
  <2>1. CASE links' = 0
    <3>1. ~connected /\ jobs = <<>> /\ events = <<>> /\ mediaStatus = "NoMedia"
      BY <1>4, <2>1, LinksGrow DEF FreshInv
    <3>2. Connect \/ UNCHANGED vars
      BY <3>1, StepIsOne, NothingElse
    <3> QED BY <1>4, <3>2, ConnectNumbers DEF NumberInv, RowsNumbered, vars
  <2>2. CASE links' = 1
    <3>1. Connect
      BY <1>4, <2>2, LinksGrow
    <3> QED BY <1>4, <3>1, ConnectNumbers
  <2> QED BY <1>3, <2>1, <2>2
<1> QED BY <1>1, <1>2, <1>3, <1>4

------------------------------------------------------------------------------
(* The edits of a list that follow the updates of the table.                 *)
PutBetween(list, i, items) ==
    SubSeq(list, 1, i) \o items \o SubSeq(list, i + 1, Len(list))

TakenFrom(list, i) == SubSeq(list, 1, i) \o SubSeq(list, i + 2, Len(list))

Overwritten(list, start, items) ==
    [k \in DOMAIN list |-> IF k > start /\ k <= start + Len(items)
                           THEN items[k - start] ELSE list[k]]

LEMMA FollowsJoined ==
    ASSUME NEW S, NEW s \in Seq(S), NEW t \in Seq(S), NEW q, NEW row \in Nat,
           FromRow(q, s, row), FromRow(q, t, row + Len(s))
    PROVE  s \o t \in Seq(S) /\ Len(s \o t) = Len(s) + Len(t) /\ FromRow(q, s \o t, row)
<1>1. /\ s \o t \in Seq(S) /\ Len(s \o t) = Len(s) + Len(t)
      /\ \A i \in 1 .. Len(s \o t) :
           \/ i \in 1 .. Len(s) /\ (s \o t)[i] = s[i]
           \/ i - Len(s) \in 1 .. Len(t) /\ (s \o t)[i] = t[i - Len(s)]
  BY Joined
<1> DEFINE u == s \o t
<1>2. /\ DOMAIN u = 1 .. Len(u) /\ DOMAIN s = 1 .. Len(s) /\ DOMAIN t = 1 .. Len(t)
      /\ Len(s) \in Nat /\ Len(t) \in Nat
  BY <1>1
<1> HIDE DEF u
<1>3. ASSUME NEW k \in DOMAIN u PROVE u[k] \in DOMAIN q /\ q[u[k]] = row + k - 1
  <2>1. \/ k \in 1 .. Len(s) /\ u[k] = s[k]
        \/ k - Len(s) \in 1 .. Len(t) /\ u[k] = t[k - Len(s)]
    BY <1>1, <1>2, <1>3 DEF u
  <2>2. k \in Int
    BY <1>2, <1>3
  <2>3. CASE k \in 1 .. Len(s) /\ u[k] = s[k]
    BY <1>2, <2>3 DEF FromRow
  <2>4. CASE k - Len(s) \in 1 .. Len(t) /\ u[k] = t[k - Len(s)]
    <3>1. t[k - Len(s)] \in DOMAIN q /\ q[t[k - Len(s)]] = row + Len(s) + (k - Len(s)) - 1
      BY <1>2, <2>4 DEF FromRow
    <3> QED BY <1>2, <2>2, <2>4, <3>1
  <2> QED BY <2>1, <2>3, <2>4
<1> QED BY <1>1, <1>3 DEF FromRow, u

Shifted(q, r, m, n, by) ==
    \A t \in DOMAIN q : q[t] \in m - 1 .. n - 1 => t \in DOMAIN r /\ r[t] = q[t] + by

Piece(r, u, n, row) == u \in Seq(Row) /\ Len(u) = n /\ FromRow(r, u, row)

LEMMA FollowsPart ==
    ASSUME NEW s \in Seq(Row), NEW q, NEW r, FromRow(q, s, 0),
           NEW m \in Nat, NEW n \in Nat, m >= 1, m <= n + 1, n <= Len(s), NEW by \in Int,
           Shifted(q, r, m, n, by)
    PROVE  Piece(r, SubSeq(s, m, n), n - m + 1, m - 1 + by)
<1> DEFINE u == SubSeq(s, m, n)
<1>1. u \in Seq(Row) /\ Len(u) = n - m + 1 /\ \A i \in 1 .. n - m + 1 : u[i] = s[m + i - 1]
  BY Part
<1>2. DOMAIN u = 1 .. n - m + 1 /\ DOMAIN s = 1 .. Len(s) /\ Len(s) \in Nat
  BY <1>1
<1> HIDE DEF u
<1>3. ASSUME NEW k \in DOMAIN u PROVE u[k] \in DOMAIN r /\ r[u[k]] = m - 1 + by + k - 1
  <2>1. k \in 1 .. n - m + 1 /\ u[k] = s[m + k - 1] /\ m + k - 1 \in DOMAIN s
    BY <1>1, <1>2, <1>3
  <2>2. u[k] \in DOMAIN q /\ q[u[k]] = 0 + (m + k - 1) - 1
    BY <2>1 DEF FromRow
  <2>3. q[u[k]] \in m - 1 .. n - 1
    BY <2>1, <2>2
  <2>4. u[k] \in DOMAIN r /\ r[u[k]] = q[u[k]] + by
    BY <2>2, <2>3 DEF Shifted
  <2>5. q[u[k]] + by = m - 1 + by + k - 1
    BY <2>1, <2>2
  <2> QED BY <2>4, <2>5
<1> QED BY <1>1, <1>3 DEF FromRow, u, Piece

\* Tracks put in: the rows before stay, the rows behind move on.
LEMMA InsertFollows ==
    ASSUME NEW q, IsTable(q), Gapless(q), NEW list \in Seq(Row), FromRow(q, list, 0),
           Len(list) <= Cardinality(DOMAIN q), NEW i \in Nat, i <= Len(list),
           NEW tracks \in Seq(Track), tracks # <<>>,
           \A j, k \in DOMAIN tracks : tracks[j] = tracks[k] => j = k,
           \A k \in DOMAIN tracks : tracks[k] \notin DOMAIN q,
           NEW items, items = Between(Inserted(q, i, tracks), i, i + Len(tracks) - 1)
    PROVE  /\ Len(items) = Len(tracks) /\ Len(items) > 0
           /\ FromRow(Inserted(q, i, tracks), PutBetween(list, i, items), 0)
<1> DEFINE r == Inserted(q, i, tracks)  n == Len(tracks)
<1>1. /\ IsTable(r) /\ Widened(q, r, i, tracks) /\ Gapless(r)
      /\ Cardinality(DOMAIN r) = Cardinality(DOMAIN q) + n
      /\ Cardinality(DOMAIN q) \in Nat
  <2>1. i <= Cardinality(DOMAIN q) /\ Cardinality(DOMAIN q) \in Nat
    BY TableFinite
  <2> QED BY <2>1, PutIn, PutInGapless
<1>2. n \in Nat /\ n > 0 /\ Len(list) \in Nat
  BY EmptySeq
<1> HIDE DEF r, n
<1>3. items \in Seq(Track) /\ Len(items) = n /\ FromRow(r, items, i)
  <2>1. i + n - 1 \in Nat /\ i <= i + n - 1 /\ i + n - 1 < Cardinality(DOMAIN r)
    BY <1>1, <1>2
  <2>2. items = Between(r, i, i + n - 1)
    BY DEF r, n
  <2> DEFINE high == i + n - 1
  <2>3. high - i + 1 = n /\ high \in Nat /\ i <= high /\ high < Cardinality(DOMAIN r)
    BY <1>2, <2>1
  <2>4. items = Between(r, i, high)
    BY <2>2
  <2> HIDE DEF high
  <2>5. /\ Between(r, i, high) \in Seq(Track) /\ Len(Between(r, i, high)) = high - i + 1
        /\ FromRow(r, Between(r, i, high), i)
    BY <1>1, <2>3, BetweenListed
  <2> QED BY <2>3, <2>4, <2>5
<1>4. items \in Seq(Row)
  BY <1>3, SeqWider DEF Row
<1>5. \A t \in DOMAIN q : t \in DOMAIN r /\ r[t] = IF q[t] >= i THEN q[t] + n ELSE q[t]
  BY <1>1 DEF Widened, n
<1>6. \A t \in DOMAIN q : q[t] \in Nat
  BY DEF IsTable
<1> DEFINE a == SubSeq(list, 1, i)  c == SubSeq(list, i + 1, Len(list))
<1>7. a \in Seq(Row) /\ Len(a) = i /\ FromRow(r, a, 0)
  <2> DEFINE m == 1  by == 0
  <2>1. Shifted(q, r, m, i, by)
    BY <1>5, <1>6 DEF Shifted
  <2>2. m \in Nat /\ m >= 1 /\ m <= i + 1 /\ by \in Int /\ a = SubSeq(list, m, i)
        /\ i - m + 1 = i /\ m - 1 + by = 0
    BY DEF a
  <2> HIDE DEF m, by, a
  <2>3. Piece(r, SubSeq(list, m, i), i - m + 1, m - 1 + by)
    BY <2>1, <2>2, FollowsPart
  <2> QED BY <2>2, <2>3 DEF Piece
<1>8. c \in Seq(Row) /\ FromRow(r, c, i + n)
  <2> DEFINE m == i + 1  l == Len(list)  by == n
  <2>1. Shifted(q, r, m, l, by)
    BY <1>2, <1>5, <1>6 DEF Shifted
  <2>2. m \in Nat /\ m >= 1 /\ m <= l + 1 /\ by \in Int /\ l \in Nat /\ l <= Len(list)
        /\ c = SubSeq(list, m, l) /\ m - 1 + by = i + n
    BY <1>2 DEF c
  <2> HIDE DEF m, l, by, c
  <2>3. Piece(r, SubSeq(list, m, l), l - m + 1, m - 1 + by)
    BY <2>1, <2>2, FollowsPart
  <2> QED BY <2>2, <2>3 DEF Piece
<1> HIDE DEF a, c
<1>9. a \o items \in Seq(Row) /\ Len(a \o items) = i + n /\ FromRow(r, a \o items, 0)
  <2>1. FromRow(r, items, 0 + Len(a))
    BY <1>3, <1>7
  <2>2. /\ a \o items \in Seq(Row) /\ Len(a \o items) = Len(a) + Len(items)
        /\ FromRow(r, a \o items, 0)
    BY <1>4, <1>7, <2>1, FollowsJoined
  <2> QED BY <1>3, <1>7, <2>2
<1>10. FromRow(r, (a \o items) \o c, 0)
  <2>1. FromRow(r, c, 0 + Len(a \o items))
    BY <1>2, <1>8, <1>9
  <2> QED BY <1>8, <1>9, <2>1, FollowsJoined
<1> QED BY <1>2, <1>3, <1>10 DEF a, c, r, n, PutBetween

\* A track taken out: the rows behind it move up.
LEMMA RemoveFollows ==
    ASSUME NEW q, IsTable(q), NEW list \in Seq(Row), FromRow(q, list, 0),
           NEW i \in Nat, i < Len(list)
    PROVE  FromRow(Removed(q, i), TakenFrom(list, i), 0)
<1> DEFINE r == Removed(q, i)
<1>1. \A t \in DOMAIN q : q[t] # i => t \in DOMAIN r /\ r[t] = IF q[t] >= i THEN q[t] - 1 ELSE q[t]
  BY DEF Removed
<1>2. \A t \in DOMAIN q : q[t] \in Nat
  BY DEF IsTable
<1>3. Len(list) \in Nat
  OBVIOUS
<1> HIDE DEF r
<1> DEFINE a == SubSeq(list, 1, i)  c == SubSeq(list, i + 2, Len(list))
<1>4. a \in Seq(Row) /\ Len(a) = i /\ FromRow(r, a, 0)
  <2> DEFINE m == 1  by == 0
  <2>1. Shifted(q, r, m, i, by)
    BY <1>1, <1>2 DEF Shifted
  <2>2. m \in Nat /\ m >= 1 /\ m <= i + 1 /\ by \in Int /\ a = SubSeq(list, m, i)
        /\ i - m + 1 = i /\ m - 1 + by = 0
    BY DEF a
  <2> HIDE DEF m, by, a
  <2>3. Piece(r, SubSeq(list, m, i), i - m + 1, m - 1 + by)
    BY <2>1, <2>2, FollowsPart
  <2> QED BY <2>2, <2>3 DEF Piece
<1>5. c \in Seq(Row) /\ FromRow(r, c, i)
  <2> DEFINE m == i + 2  l == Len(list)  by == -1
  <2>1. Shifted(q, r, m, l, by)
    BY <1>1, <1>2 DEF Shifted
  <2>2. m \in Nat /\ m >= 1 /\ m <= l + 1 /\ by \in Int /\ l \in Nat /\ l <= Len(list)
        /\ c = SubSeq(list, m, l) /\ m - 1 + by = i
    BY <1>3 DEF c
  <2> HIDE DEF m, l, by, c
  <2>3. Piece(r, SubSeq(list, m, l), l - m + 1, m - 1 + by)
    BY <2>1, <2>2, FollowsPart
  <2> QED BY <2>2, <2>3 DEF Piece
<1> HIDE DEF a, c
<1>6. FromRow(r, c, 0 + Len(a))
  BY <1>4, <1>5
<1>7. FromRow(r, a \o c, 0)
  BY <1>4, <1>5, <1>6, FollowsJoined
<1> QED BY <1>7 DEF a, c, r, TakenFrom

\* A track moved: the rows from the one to the other place are told anew.
LEMMA MoveFollows ==
    ASSUME NEW q, IsTable(q), Gapless(q), NEW list \in Seq(Row), FromRow(q, list, 0),
           Len(list) <= Cardinality(DOMAIN q), NEW from \in Nat, NEW to \in Nat, from # to,
           from < Len(list), to < Len(list),
           NEW items, items = Between(Moved(q, from, to), Lowest(from, to), Highest(from, to))
    PROVE  /\ Len(items) = Highest(from, to) - Lowest(from, to) + 1
           /\ Lowest(from, to) + (Highest(from, to) - Lowest(from, to) + 1) <= Len(list)
           /\ FromRow(Moved(q, from, to), Overwritten(list, Lowest(from, to), items), 0)
<1> DEFINE r == Moved(q, from, to)  low == Lowest(from, to)  high == Highest(from, to)
<1>1. /\ low \in Nat /\ high \in Nat /\ low <= high /\ high < Len(list) /\ Len(list) \in Nat
      /\ from \in low .. high /\ to \in low .. high
  BY DEF Lowest, Highest
<1>2. /\ IsTable(r) /\ DOMAIN r = DOMAIN q /\ Gapless(r)
      /\ \A t \in DOMAIN q : r[t] = NewRow(q[t], from, to)
      /\ Cardinality(DOMAIN q) \in Nat
  <2>1. from < Cardinality(DOMAIN q) /\ to < Cardinality(DOMAIN q) /\ Cardinality(DOMAIN q) \in Nat
    BY <1>1, TableFinite
  <2> QED BY <2>1, MovedTable, MovedGapless
<1>3. \A t \in DOMAIN q : q[t] \in Nat /\ (q[t] \notin low .. high => r[t] = q[t])
  <2>1. \A t \in DOMAIN q : q[t] \in Nat
    BY DEF IsTable
  <2>2. ASSUME NEW row \in Nat, row \notin low .. high PROVE NewRow(row, from, to) = row
    BY <2>2 DEF NewRow, Lowest, Highest
  <2> HIDE DEF r, low, high
  <2> QED BY <1>2, <2>1, <2>2
<1>4. items = Between(r, low, high)
  OBVIOUS
<1> HIDE DEF r, low, high
<1>5. Len(items) = high - low + 1 /\ items \in Seq(Track) /\ FromRow(r, items, low)
  <2>1. high < Cardinality(DOMAIN r)
    BY <1>1, <1>2
  <2>2. /\ Between(r, low, high) \in Seq(Track) /\ Len(Between(r, low, high)) = high - low + 1
        /\ FromRow(r, Between(r, low, high), low)
    BY <1>1, <1>2, <2>1, BetweenListed
  <2> QED BY <1>4, <2>2
<1> DEFINE u == Overwritten(list, low, items)
<1>6. ASSUME NEW k \in DOMAIN u PROVE u[k] \in DOMAIN r /\ r[u[k]] = 0 + k - 1
  <2>1. /\ k \in 1 .. Len(list)
        /\ u[k] = IF k > low /\ k <= low + Len(items) THEN items[k - low] ELSE list[k]
    BY <1>6 DEF Overwritten
  <2>2. list[k] \in DOMAIN q /\ q[list[k]] = 0 + k - 1
    BY <2>1 DEF FromRow
  <2> HIDE DEF u
  <2>3. CASE k > low /\ k <= low + Len(items)
    <3>1. k - low \in 1 .. Len(items) /\ DOMAIN items = 1 .. Len(items) /\ u[k] = items[k - low]
      BY <1>1, <1>5, <2>1, <2>3
    <3>2. items[k - low] \in DOMAIN r /\ r[items[k - low]] = low + (k - low) - 1
      BY <1>5, <3>1 DEF FromRow
    <3> QED BY <1>1, <2>1, <3>1, <3>2
  <2>4. CASE ~(k > low /\ k <= low + Len(items))
    <3>1. u[k] = list[k] /\ q[list[k]] \notin low .. high
      BY <1>1, <1>5, <2>1, <2>2, <2>4
    <3> QED BY <1>2, <1>3, <2>2, <3>1
  <2> QED BY <2>3, <2>4
<1>7. FromRow(r, u, 0)
  BY <1>6 DEF FromRow
<1>8. low + (high - low + 1) <= Len(list)
  BY <1>1
<1> QED BY <1>5, <1>7, <1>8 DEF r, low, high

------------------------------------------------------------------------------
(* Steps that leave the list and the table as they are.                      *)
LEMMA JobsFitGo ==
    ASSUME TypeInv, JobsFit, UNCHANGED <<loadingType, itemList, identifier, queue>>,
           NEW d, NEW x, JobsGo(d, x), \A p \in DOMAIN x : JobFits(x[p])
    PROVE  JobsFit'
<1>1. \A p \in DOMAIN jobs' : Has(jobs, jobs'[p]) \/ Has(x, jobs'[p])
  BY GoesHas DEF JobsGo
<1>2. ASSUME NEW p \in DOMAIN jobs' PROVE JobFits(jobs'[p])
  BY <1>1, <1>2 DEF Has, JobsFit
<1>3. ASSUME NEW p \in DOMAIN jobs', JobFits(jobs'[p]) PROVE JobFits(jobs[p])'
  BY <1>3 DEF JobFits, InRange, FromRow
<1> QED BY <1>2, <1>3 DEF JobsFit

LEMMA EventsFitGo ==
    ASSUME TypeInv, EventsFit, UNCHANGED <<loadingType, itemList, identifier, queue>>,
           NEW d, NEW y, EventsGo(d, y), \A p \in DOMAIN y : EventFits(y[p])
    PROVE  EventsFit'
<1>1. \A p \in DOMAIN events' : Has(events, events'[p]) \/ Has(y, events'[p])
  BY GoesHas DEF EventsGo
<1>2. ASSUME NEW p \in DOMAIN events' PROVE EventFits(events'[p])
  BY <1>1, <1>2 DEF Has, EventsFit
<1>3. ASSUME NEW p \in DOMAIN events' PROVE Changed(events'[p]) = Changed(events[p])'
  BY DEF Changed
<1>4. ASSUME NEW p \in DOMAIN events', EventFits(events'[p]) PROVE EventFits(events[p])'
  BY <1>3, <1>4 DEF EventFits, Fits, FromRow, Size
<1> QED BY <1>2, <1>4 DEF EventsFit

LEMMA HeadKept ==
    ASSUME TypeInv, NEW d, NEW x, JobsGo(d, x), \A p \in DOMAIN x : ~x[p].done,
           d = 1 => Head(jobs).kind \notin Edits
    PROVE  /\ Edited' <=> Edited
           /\ Edited => Head(jobs') = Head(jobs)
<1>2. ASSUME Edited' PROVE Edited /\ Head(jobs') = Head(jobs)
  BY <1>2, HeadAfter DEF Edited, Worked
<1>3. ASSUME Edited PROVE Edited' /\ Head(jobs') = Head(jobs)
  <2>1. d = 0 /\ jobs # <<>> /\ Head(jobs) = jobs[1] /\ Len(jobs) \in Nat \ {0}
    BY <1>3, HeadFields, GoesFrom DEF Edited, Worked, JobsGo
  <2>2. jobs' \in Seq(Job) /\ 1 \in DOMAIN jobs' /\ jobs'[1] = jobs[1]
    BY <2>1, GoesFrom DEF JobsGo, Origin, Goes
  <2>3. jobs' # <<>> /\ Head(jobs') = jobs'[1]
    BY <2>2
  <2> QED BY <1>3, <2>1, <2>2, <2>3 DEF Edited, Worked
<1> QED BY <1>2, <1>3

LEMMA NoneKept ==
    ASSUME TypeInv, NEW d, NEW y, EventsGo(d, y), NEW kind,
           d = 1 => events[1].kind # kind
    PROVE  /\ NoneOf(events', kind) => NoneOf(events, kind)
           /\ NoneOf(events, kind) /\ NoneOf(y, kind) => NoneOf(events', kind)
<1>1. /\ \A p \in DOMAIN events' : Has(events, events'[p]) \/ Has(y, events'[p])
      /\ \A p \in DOMAIN events : p > d => Has(events', events[p])
      /\ DOMAIN events = 1 .. Len(events) /\ d \in {0, 1} /\ Len(events) \in Nat
  BY GoesHas, GoesFrom DEF EventsGo
<1>2. ASSUME NoneOf(events', kind), NEW p \in DOMAIN events PROVE events[p].kind # kind
  <2>1. p > d \/ (d = 1 /\ p = 1)
    BY <1>1
  <2> QED BY <1>1, <1>2, <2>1 DEF NoneOf, Has
<1>3. ASSUME NoneOf(events, kind), NoneOf(y, kind), NEW p \in DOMAIN events'
      PROVE  events'[p].kind # kind
  BY <1>1, <1>3 DEF NoneOf, Has
<1> QED BY <1>2, <1>3 DEF NoneOf

LEMMA ListStays ==
    ASSUME ListFits, UNCHANGED <<loadingType, itemList, fetchedCount, queue>>,
           moreAvailable' => moreAvailable,
           Edited' => Edited /\ Head(jobs') = Head(jobs),
           ~Edited' /\ NoneOf(events', "dataChanged") => ~Edited /\ NoneOf(events, "dataChanged")
    PROVE  ListFits'
<1>1. ASSUME loadingType = "FetchMore" PROVE ListGrows'
  <2>1. ListGrows
    BY <1>1 DEF ListFits
  <2>2. ASSUME Edited' PROVE Fits(Telling(Head(jobs)))'
    <3>1. Fits(Telling(Head(jobs))) /\ Head(jobs') = Head(jobs)
      BY <2>1, <2>2 DEF ListGrows
    <3> DEFINE e == Telling(Head(jobs))
    <3>2. Telling(Head(jobs))' = e
      BY <3>1 DEF Telling
    <3>3. Changed(Telling(Head(jobs)))' = Changed(e)
      BY <3>2 DEF Changed
    <3> QED BY <3>1, <3>2, <3>3 DEF Fits, FromRow
  <2>3. ASSUME ~Edited', NoneOf(events, "dataChanged")' PROVE FromRow(queue, itemList, 0)'
    <3>1. FromRow(queue, itemList, 0)
      BY <2>1, <2>3 DEF ListGrows, NoneOf
    <3> QED BY <3>1 DEF FromRow
  <2> QED BY <2>1, <2>2, <2>3 DEF ListGrows
<1>2. ASSUME loadingType = "DataChanged" PROVE ListFills'
  BY <1>2 DEF ListFits, ListFills, Size
<1> QED BY <1>1, <1>2 DEF ListFits

ViewFollows == JobsFit /\ EventsFit /\ ListFits

LEMMA ViewStays ==
    ASSUME TypeInv, ViewFollows, moreAvailable' => moreAvailable,
           UNCHANGED <<loadingType, itemList, fetchedCount, identifier, queue>>,
           NEW d, NEW x, JobsGo(d, x), \A p \in DOMAIN x : ~x[p].done /\ JobFits(x[p]),
           d = 1 => Head(jobs).kind \notin Edits,
           NEW c, NEW y, EventsGo(c, y), c = 1 => events[1].kind # "dataChanged",
           \A p \in DOMAIN y : EventFits(y[p])
    PROVE  ViewFollows'
<1>1. JobsFit' /\ EventsFit'
  BY JobsFitGo, EventsFitGo DEF ViewFollows
<1>2. (Edited' <=> Edited) /\ (Edited => Head(jobs') = Head(jobs))
  BY HeadKept
<1>3. NoneOf(events', "dataChanged") => NoneOf(events, "dataChanged")
  BY NoneKept
<1>4. ListFits'
  BY <1>2, <1>3, ListStays DEF ViewFollows
<1> QED BY <1>1, <1>4 DEF ViewFollows

------------------------------------------------------------------------------
\* Asking for the first page again.
LEMMA Restarted ==
    ASSUME TypeInv, TypeInv', itemList' = <<>>, moreAvailable' = FALSE,
           NEW x, JobsGo(0, x), \A p \in DOMAIN x : x[p] = SelectJob(0),
           \A p \in DOMAIN jobs : jobs[p].kind = "SetIndex",
           EventsGo(0, <<>>), \A p \in DOMAIN events : events[p].kind \in Minor,
           UNCHANGED <<identifier, queue>>
    PROVE  ViewFollows'
<1>1. \A p \in DOMAIN jobs' : Has(jobs, jobs'[p]) \/ Has(x, jobs'[p])
  BY GoesHas DEF JobsGo
<1>2. \A p \in DOMAIN events' : Has(events, events'[p]) \/ Has(<<>>, events'[p])
  BY GoesHas DEF EventsGo
<1>3. \A p \in DOMAIN events' : events'[p].kind \in Minor
  BY <1>2 DEF Has
<1>4. /\ SelectJob(0).kind = "Select" /\ SelectJob(0).id = identifier
      /\ SelectJob(0).start = 0 /\ ~SelectJob(0).done
  BY SelectTyped
<1>5. ASSUME NEW p \in DOMAIN jobs'
      PROVE  \/ jobs'[p].kind = "SetIndex"
             \/ /\ jobs'[p].kind = "Select" /\ jobs'[p].id = identifier
                /\ jobs'[p].start = 0 /\ ~jobs'[p].done
  BY <1>1, <1>4, <1>5 DEF Has
<1>6. Len(itemList') = 0 /\ DOMAIN itemList' = {}
  BY DEF TypeInv
<1>7. JobsFit'
  <2>1. ASSUME NEW p \in DOMAIN jobs' PROVE JobFits(jobs[p])'
    BY <1>5, <1>6, <2>1 DEF JobFits, InRange, Edits
  <2> QED BY <2>1 DEF JobsFit
<1>8. EventsFit'
  <2>1. ASSUME NEW p \in DOMAIN events' PROVE EventFits(events[p])'
    BY <1>3, <2>1 DEF EventFits, Minor
  <2> QED BY <2>1 DEF EventsFit
<1>9. ~Edited'
  <2>1. SUFFICES ASSUME jobs' # <<>> PROVE Head(jobs').kind \notin Edits
    BY DEF Edited, Worked
  <2>2. jobs' \in Seq(Job)
    BY DEF JobsGo, Goes
  <2>3. Head(jobs') = jobs'[1] /\ 1 \in DOMAIN jobs'
    BY <2>1, <2>2
  <2> QED BY <1>5, <2>3 DEF Edits
<1>10. ListFits'
  <2>1. FromRow(queue', itemList', 0)
    BY <1>6 DEF FromRow
  <2>2. ListGrows'
    BY <1>9, <2>1 DEF ListGrows
  <2>3. ListFills'
    BY <1>6 DEF ListFills
  <2> QED BY <2>2, <2>3 DEF ListFits
<1> QED BY <1>7, <1>8, <1>10 DEF ViewFollows

LEMMA ChangedIs ==
    ASSUME NEW e, Len(e.items) \in Nat
    PROVE  /\ Len(e.items) = e.count => Changed(e) = Overwritten(itemList, e.start, e.items)
           /\ e.count = 0 /\ Len(e.items) > 0
                => Changed(e) = PutBetween(itemList, e.start, e.items)
           /\ e.count = 1 /\ Len(e.items) = 0 => Changed(e) = TakenFrom(itemList, e.start)
<1>1. ASSUME Len(e.items) = e.count
      PROVE  Changed(e) = Overwritten(itemList, e.start, e.items)
  BY <1>1, SMTT(30) DEF Changed, Overwritten
<1>2. ASSUME e.count = 0, Len(e.items) > 0
      PROVE  Changed(e) = PutBetween(itemList, e.start, e.items)
  <2>1. Len(e.items) # e.count
    BY <1>2
  <2> QED BY <1>2, <2>1 DEF Changed, PutBetween
<1>3. ASSUME e.count = 1, Len(e.items) = 0
      PROVE  Changed(e) = TakenFrom(itemList, e.start)
  <2>1. Len(e.items) # e.count /\ e.count # 0
    BY <1>3
  <2> QED BY <2>1 DEF Changed, TakenFrom
<1> QED BY <1>1, <1>2, <1>3

\* The list can follow the edit the worker does.
LEMMA EditFits ==
    ASSUME TypeInv, RowsNumbered, Execute, FromRow(queue, itemList, 0),
           Head(jobs).kind \in Edits, InRange(Head(jobs), Len(itemList)), NewTracks(Head(jobs))
    PROVE  Fits(Telling(Head(jobs)))'
<1> DEFINE job == Head(jobs)  e == Telling(Carried(job))
<1>1. /\ job \in Job /\ queue' = Table(job) /\ Head(jobs') = Carried(job)
      /\ UNCHANGED <<itemList, loadingType>>
  BY ExecuteFacts DEF Execute, viewVars
<1>2. /\ job.start \in Nat /\ job.count \in Nat /\ job.tracks \in Seq(Track)
      /\ Carried(job).kind = job.kind /\ Carried(job).start = job.start
      /\ Carried(job).count = job.count /\ Carried(job).list = Result(job, queue')
  BY <1>1, JobFields DEF Carried, Job
<1>3. IsTable(queue) /\ Gapless(queue) /\ itemList \in Seq(Row) /\ Len(itemList) \in Nat
  BY TypeInvFacts, TypeParts DEF RowsNumbered, Gapless, ViewType
<1>4. Len(itemList) <= Cardinality(DOMAIN queue)
  BY <1>3, FetchedFits DEF Size
<1>5. e.start + e.count <= Len(itemList) /\ FromRow(queue', Changed(e), 0)
  <2>1. CASE job.kind = "Insert"
    <3>1. e.items = Result(job, queue') /\ e.start = job.start /\ e.count = 0
      BY <1>2, <2>1 DEF Telling
    <3>2. /\ job.start <= Len(itemList) /\ queue' = Inserted(queue, job.start, job.tracks)
          /\ Result(job, queue') = Between(queue', job.start, job.start + Len(job.tracks) - 1)
      BY <1>1, <2>1 DEF InRange, Table, Result
    <3>3. /\ job.tracks # <<>>
          /\ \A i, k \in DOMAIN job.tracks : job.tracks[i] = job.tracks[k] => i = k
          /\ \A i \in DOMAIN job.tracks : job.tracks[i] \notin DOMAIN queue
      BY <2>1 DEF NewTracks
    <3> HIDE DEF job, e
    <3> DEFINE i == job.start  tracks == job.tracks  items == e.items  q == queue
    <3>4. items = Between(Inserted(q, i, tracks), i, i + Len(tracks) - 1)
      BY <3>1, <3>2
    <3>5. /\ IsTable(q) /\ Gapless(q) /\ FromRow(q, itemList, 0)
          /\ Len(itemList) <= Cardinality(DOMAIN q)
      BY <1>3, <1>4
    <3>6. /\ tracks \in Seq(Track) /\ tracks # <<>> /\ i \in Nat /\ i <= Len(itemList)
          /\ \A k, l \in DOMAIN tracks : tracks[k] = tracks[l] => k = l
          /\ \A k \in DOMAIN tracks : tracks[k] \notin DOMAIN q
      BY <1>2, <3>2, <3>3
    <3> HIDE DEF i, tracks, items, q
    <3>7. /\ Len(items) = Len(tracks) /\ Len(items) > 0
          /\ FromRow(Inserted(q, i, tracks), PutBetween(itemList, i, items), 0)
      BY <1>3, <3>4, <3>5, <3>6, InsertFollows
    <3>8. /\ Len(e.items) > 0 /\ Len(e.items) \in Nat
          /\ FromRow(queue', PutBetween(itemList, job.start, e.items), 0)
      BY <3>6, <3>7, <3>2 DEF i, tracks, items, q
    <3>9. Changed(e) = PutBetween(itemList, job.start, e.items)
      BY <3>1, <3>8, ChangedIs
    <3> QED BY <1>2, <1>3, <3>1, <3>2, <3>8, <3>9
  <2>2. CASE job.kind = "Remove"
    <3>1. e.items = Result(job, queue') /\ e.start = job.start /\ e.count = 1
      BY <1>2, <2>2 DEF Telling
    <3>2. /\ job.start < Len(itemList) /\ queue' = Removed(queue, job.start)
          /\ Result(job, queue') = <<>>
      BY <1>1, <2>2 DEF InRange, Table, Result
    <3> HIDE DEF job, e
    <3>4. FromRow(queue', TakenFrom(itemList, job.start), 0)
      BY <1>2, <1>3, <3>2, RemoveFollows
    <3>5. Len(e.items) = 0
      BY <3>1, <3>2
    <3>6. Changed(e) = TakenFrom(itemList, job.start)
      BY <3>1, <3>5, ChangedIs
    <3> QED BY <1>2, <1>3, <3>1, <3>2, <3>4, <3>6
  <2>3. CASE job.kind = "Move"
    <3>1. /\ e.items = Result(job, queue') /\ e.start = Lowest(job.start, job.count)
          /\ e.count = Highest(job.start, job.count) - Lowest(job.start, job.count) + 1
      BY <1>2, <2>3 DEF Telling
    <3>2. /\ job.start < Len(itemList) /\ job.count < Len(itemList) /\ job.start # job.count
          /\ queue' = Moved(queue, job.start, job.count)
          /\ Result(job, queue') = Between(queue', Lowest(job.start, job.count),
                                           Highest(job.start, job.count))
      BY <1>1, <2>3 DEF InRange, Table, Result
    <3> HIDE DEF job, e
    <3>3. /\ Len(e.items) = e.count /\ e.start + e.count <= Len(itemList)
          /\ FromRow(queue', Overwritten(itemList, e.start, e.items), 0)
      BY <1>2, <1>3, <1>4, <3>1, <3>2, MoveFollows
    <3>4. Changed(e) = Overwritten(itemList, e.start, e.items)
      BY <3>3 DEF Changed, Overwritten
    <3> QED BY <3>3, <3>4
  <2> QED BY <2>1, <2>2, <2>3 DEF Edits
<1>6. Telling(Head(jobs))' = e
  BY <1>1 DEF Telling
<1>7. Changed(Telling(Head(jobs)))' = Changed(e)
  BY <1>1, <1>6 DEF Changed
<1> HIDE DEF e
<1> QED BY <1>1, <1>5, <1>6, <1>7 DEF Fits

\* An edit takes the worker and the play queue for itself.
LEMMA ExecuteEdit ==
    ASSUME TypeInv, TypeInv', OneRequest, EditsInv, RowsNumbered, ViewFollows, Execute,
           Head(jobs).kind \in Edits
    PROVE  ViewFollows'
<1>1. /\ Head(jobs) = jobs[1] /\ 1 \in DOMAIN jobs /\ Head(jobs) \in Job /\ ~Head(jobs).done
      /\ jobs # <<>> /\ DOMAIN jobs' = DOMAIN jobs /\ jobs'[1] = Carried(Head(jobs))
      /\ \A p \in DOMAIN jobs : p > 1 => jobs'[p] = jobs[p]
      /\ DOMAIN jobs = 1 .. Len(jobs) /\ Len(jobs) \in Nat
  BY ExecuteFacts, HeadFields
<1>2. loadingType = "FetchMore" /\ InRange(Head(jobs), Len(itemList)) /\ NewTracks(Head(jobs))
      /\ UNCHANGED viewVars
  BY <1>1 DEF ViewFollows, JobsFit, JobFits, EditsInv, Execute
<1>3. NoTells(events) /\ ~moreAvailable /\ \A p \in DOMAIN jobs : p > 1 => ~Asks(jobs[p])
  <2>1. Asks(jobs[1])
    BY <1>1 DEF Asks
  <2> QED BY <1>1, <2>1 DEF OneRequest, One, NoAsks
<1>4. FromRow(queue, itemList, 0)
  BY <1>1, <1>2, <1>3 DEF ViewFollows, ListFits, ListGrows, Edited, Worked, NoneOf, NoTells, Tells
<1>5. Fits(Telling(Head(jobs)))'
  BY <1>2, <1>4, EditFits
<1>6. PICK y \in Seq(Event) :
         /\ EventsGo(0, y)
         /\ \A p \in DOMAIN y : y[p] = [kind |-> "countChanged", length |-> count']
  BY ExecuteAsks
<1>7. ASSUME NEW p \in DOMAIN events' PROVE ~Tells(events'[p])
  <2>1. Has(events, events'[p]) \/ Has(y, events'[p])
    BY <1>6, GoesHas DEF EventsGo
  <2> QED BY <1>3, <1>6, <2>1 DEF Has, NoTells, Tells
<1>8. EventsFit'
  BY <1>2, <1>7 DEF EventsFit, EventFits, Tells, viewVars
<1>9. JobsFit'
  <2>1. ASSUME NEW p \in DOMAIN jobs' PROVE JobFits(jobs[p])'
    <3>1. CASE p = 1
      <4>1. jobs'[p].done /\ jobs'[p].kind \in Edits
        BY <1>1, <3>1 DEF Carried, Job
      <4> QED BY <1>2, <4>1 DEF JobFits, viewVars, Edits
    <3>2. CASE p > 1
      <4>1. jobs'[p] = jobs[p] /\ ~Asks(jobs[p])
        BY <1>1, <1>3, <3>2
      <4> QED BY <4>1 DEF JobFits, Asks, InRange, Edits
    <3> QED BY <1>1, <3>1, <3>2
  <2> QED BY <2>1 DEF JobsFit
<1>10. Edited'
  <2>1. Head(jobs') = Carried(Head(jobs)) /\ jobs' # <<>>
    BY ExecuteFacts
  <2> QED BY <1>1, <2>1 DEF Edited, Worked, Carried, Job
<1>11. ListFits'
  BY <1>2, <1>3, <1>5, <1>10 DEF ListFits, ListGrows, viewVars
<1> QED BY <1>8, <1>9, <1>11 DEF ViewFollows

LEMMA PageListed ==
    ASSUME TypeInv, RowsNumbered, NEW job \in Job, job.kind = "Select"
    PROVE  FromRow(queue, Result(job, queue), job.start)
<1> DEFINE size == Cardinality(DOMAIN queue)  m == job.start + 1
           n == Lowest(job.start + job.count, size)
<1>1. /\ Rows(queue) \in Seq(Track) /\ Len(Rows(queue)) = size /\ FromRow(queue, Rows(queue), 0)
      /\ size \in Nat
  BY TypeInvFacts, RowsListed DEF RowsNumbered, Gapless, Size
<1>2. job.start \in Nat /\ job.count \in Nat
  BY JobFields
<1>3. Result(job, queue) = SubSeq(Rows(queue), m, n)
  BY DEF Result
<1>4. m \in Nat /\ n \in Nat /\ m >= 1 /\ n <= size /\ m - 1 = job.start
  BY <1>1, <1>2 DEF Lowest
<1> HIDE DEF size, m, n
<1>5. CASE m <= n + 1
  <2>1. Rows(queue) \in Seq(Row)
    BY <1>1, SeqWider DEF Row
  <2> DEFINE by == 0
  <2>2. Shifted(queue, queue, m, n, by) /\ by \in Int /\ m - 1 + by = job.start
    BY <1>4, TypeInvFacts DEF Shifted, IsTable
  <2> HIDE DEF by
  <2>3. Piece(queue, SubSeq(Rows(queue), m, n), n - m + 1, m - 1 + by)
    BY <1>1, <1>4, <1>5, <2>1, <2>2, FollowsPart
  <2> QED BY <1>3, <2>2, <2>3 DEF Piece
<1>6. CASE ~(m <= n + 1)
  <2>1. SubSeq(Rows(queue), m, n) = <<>>
    BY <1>1, <1>4, <1>6
  <2> QED BY <1>3, <2>1 DEF FromRow
<1> QED BY <1>5, <1>6

\* A page is read, or the track of an index: the table stays.
LEMMA ExecuteOther ==
    ASSUME TypeInv, TypeInv', RowsNumbered, ViewFollows, Execute, Head(jobs).kind \notin Edits
    PROVE  ViewFollows'
<1>1. /\ Head(jobs) = jobs[1] /\ 1 \in DOMAIN jobs /\ Head(jobs) \in Job /\ ~Head(jobs).done
      /\ jobs # <<>> /\ DOMAIN jobs' = DOMAIN jobs /\ jobs'[1] = Carried(Head(jobs))
      /\ Head(jobs') = Carried(Head(jobs))
      /\ \A p \in DOMAIN jobs : p > 1 => jobs'[p] = jobs[p]
      /\ DOMAIN jobs = 1 .. Len(jobs) /\ Len(jobs) \in Nat
      /\ count' = Cardinality(DOMAIN queue') /\ queue' = Table(Head(jobs))
      /\ Head(jobs).kind \in Edits \cup {"Select", "SetIndex"}
  BY ExecuteFacts, HeadFields
<1>2. /\ UNCHANGED <<loadingType, itemList, fetchedCount, moreAvailable, identifier>>
      /\ queue' = queue /\ count' = Size
  BY <1>1 DEF Execute, viewVars, sessionVars, Table, Edits, Size
<1>3. PICK y \in Seq(Event) :
         /\ EventsGo(0, y)
         /\ \A p \in DOMAIN y : y[p] = [kind |-> "countChanged", length |-> count']
  BY ExecuteAsks
<1>4. EventsFit'
  <2>1. \A p \in DOMAIN y : EventFits(y[p])
    BY <1>2, <1>3 DEF EventFits
  <2> QED BY <1>2, <1>3, <2>1, EventsFitGo DEF ViewFollows
<1>5. JobsFit'
  <2>1. ASSUME NEW p \in DOMAIN jobs' PROVE JobFits(jobs'[p])
    <3>1. CASE p = 1
      <4>1. /\ jobs'[p].done /\ jobs'[p].kind = Head(jobs).kind /\ jobs'[p].id = Head(jobs).id
            /\ jobs'[p].start = Head(jobs).start
            /\ jobs'[p].list = Result(Head(jobs), queue)
        <5>1. jobs'[p] = [Head(jobs) EXCEPT !.done = TRUE, !.list = Result(Head(jobs), queue)]
          BY <1>1, <1>2, <3>1 DEF Carried
        <5> QED BY <1>1, <5>1 DEF Job
      <4>2. JobFits(Head(jobs))
        BY <1>1 DEF ViewFollows, JobsFit
      <4>3. Head(jobs).kind = "Select" =>
               FromRow(queue, Result(Head(jobs), queue), Head(jobs).start)
        BY <1>1, PageListed
      <4> QED BY <4>1, <4>2, <4>3 DEF JobFits
    <3>2. CASE p > 1
      BY <1>1, <3>2 DEF ViewFollows, JobsFit
    <3> QED BY <1>1, <3>1, <3>2
  <2>2. ASSUME NEW p \in DOMAIN jobs', JobFits(jobs'[p]) PROVE JobFits(jobs[p])'
    BY <1>2, <2>2 DEF JobFits, InRange, FromRow
  <2> QED BY <2>1, <2>2 DEF JobsFit
<1>6. ~Edited' /\ ~Edited
  <2>1. Carried(Head(jobs)).kind = Head(jobs).kind
    BY <1>1 DEF Carried, Job
  <2> QED BY <1>1, <2>1 DEF Edited, Worked
<1>7. NoneOf(events', "dataChanged") => NoneOf(events, "dataChanged")
  BY <1>3, NoneKept
<1>8. ListFits'
  BY <1>2, <1>6, <1>7, ListStays DEF ViewFollows
<1> QED BY <1>4, <1>5, <1>8 DEF ViewFollows

\* A page comes back as it was asked for.
LEMMA PageFollows ==
    ASSUME TypeInv, ViewFollows, PageDone
    PROVE  ViewFollows'
<1>1. /\ Head(jobs) = jobs[1] /\ 1 \in DOMAIN jobs /\ Head(jobs).done /\ Head(jobs).kind = "Select"
  BY HeadFields DEF PageDone
<1>2. JobFits(Head(jobs))
  BY <1>1 DEF ViewFollows, JobsFit
<1>3. EventFits(PageOf(Head(jobs)))
  BY <1>1, <1>2 DEF JobFits, EventFits, PageOf
<1> DEFINE y == ToQueue(PageOf(Head(jobs)))  x == <<>>
<1>4. \A p \in DOMAIN y : EventFits(y[p])
  BY <1>3, SignalsTyped DEF PageDone
<1>5. EventsGo(0, y) /\ JobsGo(1, x) /\ \A p \in DOMAIN x : ~x[p].done /\ JobFits(x[p])
  BY DEF PageDone
<1>6. Head(jobs).kind \notin Edits /\ UNCHANGED <<viewVars, identifier, queue>>
  BY <1>1 DEF Edits, PageDone, sessionVars
<1> DEFINE d == 1  c == 0
<1>7. EventsGo(c, y) /\ JobsGo(d, x) /\ (c = 1 => events[1].kind # "dataChanged")
  BY <1>5
<1> HIDE DEF x, y, c, d
<1> QED BY <1>4, <1>5, <1>6, <1>7, ViewStays DEF viewVars

\* The worker tells of the edit it has done.
LEMMA EditFollows ==
    ASSUME TypeInv, links = 1, ViewFollows, EditDone
    PROVE  ViewFollows'
<1>1. /\ Head(jobs) = jobs[1] /\ 1 \in DOMAIN jobs /\ Head(jobs).done /\ Head(jobs).kind \in Edits
  BY HeadFields DEF EditDone
<1>2. loadingType = "FetchMore" /\ Fits(Telling(Head(jobs)))
  BY <1>1 DEF ViewFollows, JobsFit, JobFits, ListFits, ListGrows, Edited, Worked, EditDone
<1>3. EventFits(Telling(Head(jobs)))
  BY <1>2 DEF EventFits, Telling
<1>4. PICK x \in Seq(Job) : JobsGo(1, x) /\ IndexJobs(x)
  BY DEF EditDone
<1>5. PICK y \in Seq(Event) : EventsGo(0, y) /\ TellsOf(y, Telling(Head(jobs)))
  BY DEF EditDone
<1>6. UNCHANGED <<loadingType, itemList, fetchedCount, moreAvailable, identifier, queue>>
  BY DEF EditDone, viewVars, sessionVars
<1>7. EventsFit'
  <2>1. \A p \in DOMAIN y : EventFits(y[p])
    BY <1>3, <1>5 DEF TellsOf, EventFits, Minor
  <2> QED BY <1>5, <1>6, <2>1, EventsFitGo DEF ViewFollows
<1>8. JobsFit'
  <2>1. \A p \in DOMAIN x : JobFits(x[p])
    BY <1>4 DEF IndexJobs, JobFits, InRange, Edits
  <2> QED BY <1>4, <1>6, <2>1, JobsFitGo DEF ViewFollows
<1>9. ~Edited'
  <2>1. SUFFICES ASSUME jobs' # <<>> PROVE ~Head(jobs').done
    BY DEF Edited, Worked
  <2>2. \A p \in DOMAIN x : ~x[p].done
    BY <1>4 DEF IndexJobs
  <2> DEFINE d == 1
  <2>3. JobsGo(d, x) /\ d # 0
    BY <1>4
  <2> HIDE DEF d
  <2> QED BY <2>1, <2>2, <2>3, HeadAfter
<1>10. ~NoneOf(events', "dataChanged")
  <2>1. Has(y, Telling(Head(jobs))) /\ \A p \in DOMAIN y : Has(events', y[p])
    BY <1>5, GoesHas DEF TellsOf, EventsGo
  <2>2. Telling(Head(jobs)).kind = "dataChanged"
    BY DEF Telling
  <2> QED BY <2>1, <2>2 DEF Has, NoneOf
<1>11. ListFits'
  BY <1>2, <1>6, <1>9, <1>10 DEF ListFits, ListGrows, ViewFollows
<1> QED BY <1>7, <1>8, <1>11 DEF ViewFollows

\* The list is right when nothing is under way that is about it.
LEMMA Grown ==
    ASSUME TypeInv, NoAsks(jobs), UNCHANGED <<jobs, queue, loadingType>>, NoTells(events'),
           loadingType = "FetchMore", FromRow(queue, itemList', 0),
           moreAvailable' => fetchedCount' = Len(itemList')
    PROVE  ViewFollows'
<1>1. \A p \in DOMAIN jobs : ~Asks(jobs[p])
  BY DEF NoAsks
<1>2. JobsFit'
  <2>1. ASSUME NEW p \in DOMAIN jobs' PROVE JobFits(jobs[p])'
    <3>1. jobs'[p].kind \notin Edits \cup {"Select"}
      BY <1>1, <2>1 DEF Asks
    <3> QED BY <3>1 DEF JobFits, InRange, Edits
  <2> QED BY <2>1 DEF JobsFit
<1>3. EventsFit'
  BY DEF EventsFit, EventFits, NoTells, Tells
<1>4. ~Edited'
  <2>1. SUFFICES ASSUME jobs # <<>> PROVE Head(jobs).kind \notin Edits
    BY DEF Edited, Worked
  <2>2. Head(jobs) = jobs[1] /\ 1 \in DOMAIN jobs
    BY <2>1, HeadFields
  <2> QED BY <1>1, <2>2 DEF Asks
<1>5. ListFits'
  BY <1>4 DEF ListFits, ListGrows, FromRow
<1> QED BY <1>2, <1>3, <1>5 DEF ViewFollows

LEMMA LaidOut ==
    ASSUME TypeInv, ViewFollows, UNCHANGED <<jobs, queue, loadingType, identifier>>,
           EventsGo(1, <<>>), loadingType = "DataChanged", ListFills'
    PROVE  ViewFollows'
<1>1. JobsFit'
  <2>1. ASSUME NEW p \in DOMAIN jobs' PROVE JobFits(jobs[p])'
    <3>1. JobFits(jobs[p])
      BY <2>1 DEF ViewFollows, JobsFit
    <3>2. jobs[p].kind \notin Edits
      BY <3>1 DEF JobFits
    <3> QED BY <3>1, <3>2 DEF JobFits, InRange, FromRow, Edits
  <2> QED BY <2>1 DEF JobsFit
<1>2. EventsFit'
  <2>1. ASSUME NEW p \in DOMAIN events' PROVE EventFits(events[p])'
    <3>1. Has(events, events'[p]) \/ Has(<<>>, events'[p])
      BY <2>1, GoesHas DEF EventsGo
    <3>2. EventFits(events'[p])
      BY <3>1 DEF Has, ViewFollows, EventsFit
    <3> QED BY <3>2 DEF EventFits, FromRow, Size
  <2> QED BY <2>1 DEF EventsFit
<1> QED BY <1>1, <1>2 DEF ViewFollows, ListFits

LEMMA CountHeard ==
    ASSUME TypeInv, TypeInv', ViewFollows, OnCountChanged
    PROVE  ViewFollows'
<1>1. /\ EventsGo(1, <<>>) /\ events[1].kind = "countChanged" /\ Head(events) = events[1]
      /\ 1 \in DOMAIN events /\ JobsGo(0, <<>>)
      /\ UNCHANGED <<jobs, queue, identifier, loadingType, fetchedCount, moreAvailable>>
  BY HeardGoes DEF OnCountChanged, Hear, sessionVars
<1>2. CASE itemList' = itemList
  <2> DEFINE d == 0  c == 1  x == <<>>
  <2>1. /\ JobsGo(d, x) /\ EventsGo(c, x) /\ d # 1
        /\ \A p \in DOMAIN x : ~x[p].done /\ JobFits(x[p]) /\ EventFits(x[p])
    BY <1>1
  <2> HIDE DEF d, c, x
  <2> QED BY <1>1, <1>2, <2>1, ViewStays
<1>3. CASE itemList' # itemList
  <2>1. /\ loadingType = "DataChanged" /\ Len(itemList) # Head(events).length
        /\ itemList' = itemList \o Times(Head(events).length, None)
    BY <1>3 DEF OnCountChanged
  <2>2. Head(events).length = Size /\ Len(itemList) = 0 /\ Size \in Nat
    BY <1>1, <2>1, TypeInvFacts DEF ViewFollows, EventsFit, EventFits, ListFits, ListFills
  <2> DEFINE t == Times(Size, None)
  <2>3. t \in Seq(Row) /\ Len(t) = Size /\ \A i \in 1 .. Size : t[i] = None
    BY <2>2, TimesTyped DEF Row
  <2> DEFINE s == itemList
  <2>4. s \in Seq(Row) /\ Len(s) = 0 /\ itemList' = s \o t
    BY <2>1, <2>2, TypeParts DEF ViewType
  <2> HIDE DEF s, t
  <2>5. /\ Len(s \o t) = Len(s) + Len(t) /\ s \o t \in Seq(Row)
        /\ \A i \in 1 .. Len(t) : (s \o t)[Len(s) + i] = t[i]
    BY <2>3, <2>4, Joined
  <2>6. Len(itemList') = Size /\ \A i \in DOMAIN itemList' : itemList'[i] = None
    BY <2>2, <2>3, <2>4, <2>5
  <2>7. ListFills'
    BY <1>1, <2>6 DEF ListFills, Size
  <2> QED BY <1>1, <2>1, <2>7, LaidOut
<1> QED BY <1>2, <1>3

LEMMA PageHeard ==
    ASSUME TypeInv, TypeInv', OneRequest, ViewFollows, OnDataFetched
    PROVE  ViewFollows'
<1> DEFINE e == Head(events)
<1>1. /\ EventsGo(1, <<>>) /\ e.kind = "dataFetched" /\ e = events[1]
      /\ 1 \in DOMAIN events /\ JobsGo(0, <<>>) /\ e \in Event
      /\ UNCHANGED <<jobs, queue, identifier, loadingType>>
  BY HeardGoes DEF OnDataFetched, Hear, sessionVars, viewVars
<1>2. EventFits(e)
  BY <1>1 DEF ViewFollows, EventsFit
<1>3. e.items \in Seq(Track) /\ e.items \in Seq(Row) /\ Len(e.items) \in Nat /\ e.start \in Nat
  BY <1>1, EventFields, PlacedTyped
<1>4. itemList \in Seq(Row) /\ Len(itemList) \in Nat /\ IsTable(queue)
      /\ loadingType \in {"FetchMore", "DataChanged"}
  BY TypeParts, TypeInvFacts DEF ViewType
<1>5. CASE UNCHANGED viewVars
  <2> DEFINE d == 0  c == 1  x == <<>>
  <2>1. /\ JobsGo(d, x) /\ EventsGo(c, x) /\ d # 1 /\ events[1].kind # "dataChanged"
        /\ \A p \in DOMAIN x : ~x[p].done /\ JobFits(x[p]) /\ EventFits(x[p])
    BY <1>1
  <2> HIDE DEF d, c, x, e
  <2> QED BY <1>1, <1>5, <2>1, ViewStays DEF viewVars
<1>6. CASE loadingType = "FetchMore" /\ ~UNCHANGED viewVars
  <2>1. itemList' = itemList \o e.items /\ fetchedCount' = Len(itemList')
    BY <1>6 DEF OnDataFetched
  <2>2. NoAsks(jobs) /\ NoTells(events')
    <3>1. Tells(events[1])
      BY <1>1 DEF Tells
    <3> QED BY <1>1, <3>1, OneHeard DEF OneRequest, EventsGo
  <2>3. ~Edited
    <3>1. SUFFICES ASSUME jobs # <<>> PROVE Head(jobs).kind \notin Edits
      BY DEF Edited, Worked
    <3>2. Head(jobs) = jobs[1] /\ 1 \in DOMAIN jobs
      BY <3>1, HeadFields
    <3> QED BY <2>2, <3>2 DEF NoAsks, Asks
  <2>4. NoneOf(events, "dataChanged")
    <3>1. ASSUME NEW p \in DOMAIN events, events[p].kind = "dataChanged" PROVE FALSE
      <4>1. Tells(events[p]) /\ Tells(events[1])
        BY <1>1, <3>1 DEF Tells
      <4>2. p = 1
        BY <1>1, <4>1 DEF OneRequest, One
      <4> QED BY <1>1, <3>1, <4>2
    <3> QED BY <3>1 DEF NoneOf
  <2>5. FromRow(queue, itemList, 0)
    BY <1>6, <2>3, <2>4 DEF ViewFollows, ListFits, ListGrows
  <2>6. FromRow(queue, e.items, Len(itemList))
    BY <1>1, <1>2, <1>6 DEF EventFits
  <2>7. FromRow(queue, itemList', 0)
    <3> DEFINE n == 0  s == itemList  t == e.items
    <3>1. /\ FromRow(queue, s, n) /\ n \in Nat /\ FromRow(queue, t, n + Len(s))
          /\ s \in Seq(Row) /\ t \in Seq(Row)
      BY <1>3, <1>4, <2>5, <2>6
    <3> HIDE DEF n, s, t
    <3>2. FromRow(queue, s \o t, n)
      BY <3>1, FollowsJoined
    <3> QED BY <2>1, <3>2 DEF n, s, t
  <2> QED BY <1>1, <1>6, <2>1, <2>2, <2>7, Grown
<1>7. CASE loadingType = "DataChanged" /\ ~UNCHANGED viewVars
  <2>1. \/ itemList' = itemList
        \/ itemList' = Placed(e) /\ Len(itemList) >= e.start + Len(e.items)
    BY <1>7 DEF OnDataFetched
  <2>2. ListFills
    BY <1>7 DEF ViewFollows, ListFits
  <2>3. CASE itemList' = itemList
    BY <1>1, <1>7, <2>2, <2>3, LaidOut DEF ListFills, Size
  <2>4. CASE itemList' = Placed(e) /\ Len(itemList) >= e.start + Len(e.items)
    <3>1. Len(itemList') = Len(itemList) /\ itemList' \in Seq(Row)
      BY <1>1, <2>4, PlacedTyped
    <3>2. DOMAIN itemList' = DOMAIN itemList /\ DOMAIN itemList = 1 .. Len(itemList)
      BY <1>4, <3>1
    <3>3. ASSUME NEW i \in DOMAIN itemList
          PROVE  \/ itemList'[i] = None
                 \/ itemList'[i] \in DOMAIN queue /\ queue[itemList'[i]] = i - 1
      <4>1. itemList'[i] = IF i > e.start /\ i <= e.start + Len(e.items)
                           THEN e.items[i - e.start] ELSE itemList[i]
        BY <2>4 DEF Placed
      <4>2. i \in 1 .. Len(itemList)
        BY <3>2
      <4> HIDE DEF e
      <4>3. CASE i > e.start /\ i <= e.start + Len(e.items)
        <5>1. i - e.start \in DOMAIN e.items /\ itemList'[i] = e.items[i - e.start]
          BY <1>3, <4>1, <4>2, <4>3
        <5>2. /\ e.items[i - e.start] \in DOMAIN queue
              /\ queue[e.items[i - e.start]] = e.start + (i - e.start) - 1
          BY <1>1, <1>2, <5>1 DEF EventFits, FromRow
        <5> QED BY <1>3, <4>2, <5>1, <5>2
      <4>4. CASE ~(i > e.start /\ i <= e.start + Len(e.items))
        BY <2>2, <4>1, <4>4 DEF ListFills
      <4> QED BY <4>3, <4>4
    <3>4. ListFills'
      BY <1>1, <2>2, <3>1, <3>2, <3>3 DEF ListFills, Size
    <3> QED BY <1>1, <1>7, <3>4, LaidOut
  <2> QED BY <2>1, <2>3, <2>4
<1> QED BY <1>4, <1>5, <1>6, <1>7

LEMMA ChangeHeard ==
    ASSUME TypeInv, TypeInv', OneRequest, ViewFollows, OnDataChanged
    PROVE  ViewFollows'
<1> DEFINE e == Head(events)
<1>1. /\ EventsGo(1, <<>>) /\ e.kind = "dataChanged" /\ e = events[1] /\ 1 \in DOMAIN events
      /\ UNCHANGED <<jobs, queue, identifier, loadingType, fetchedCount, moreAvailable>>
  BY HeardGoes DEF OnDataChanged, Hear, sessionVars
<1>2. loadingType = "FetchMore" /\ Fits(e)
  BY <1>1 DEF ViewFollows, EventsFit, EventFits
<1>3. FromRow(queue, itemList', 0)
  BY <1>2 DEF Fits, OnDataChanged
<1>4. NoAsks(jobs) /\ NoTells(events') /\ ~moreAvailable
  <2>1. Tells(events[1])
    BY <1>1 DEF Tells
  <2> QED BY <1>1, <2>1, OneHeard DEF OneRequest, EventsGo
<1> HIDE DEF e
<1> QED BY <1>1, <1>2, <1>3, <1>4, Grown

LEMMA ViewStep ==
    ASSUME TypeInv, FreshInv, NumberInv, ViewInv, [Next]_vars
    PROVE  ViewInv'
<1> SUFFICES ASSUME connected', links' <= 1 PROVE ViewFollows'
  BY DEF ViewInv, ViewFollows
<1>1. TypeInv' /\ links' = 1
  <2>1. TypeInv'
    BY TypeStep
  <2>2. links' \in Nat /\ links' = identifier' /\ identifier' \in Session
    BY <2>1 DEF TypeInv, TypeOK
  <2> QED BY <2>1, <2>2 DEF Session
<1>2. \/ links = 1 /\ (Disconnect \/ UNCHANGED sessionVars)
      \/ links = 0 /\ Connect
  BY <1>1, LinksGrow
<1>3. CASE links = 0 /\ Connect
  <2>1. /\ itemList' = <<>> /\ moreAvailable' = FALSE /\ UNCHANGED <<identifier, queue>>
    BY <1>3 DEF Connect, ResetModel
  <2>2. jobs = <<>> /\ events = <<>>
    BY <1>3 DEF FreshInv
  <2> DEFINE x == Times(links + 1, SelectJob(0))
  <2>3. JobsGo(0, x) /\ (\A p \in DOMAIN x : x[p] = SelectJob(0)) /\ EventsGo(0, <<>>)
    BY <1>3, ConnectGoes
  <2> HIDE DEF x
  <2>4. /\ \A p \in DOMAIN jobs : jobs[p].kind = "SetIndex"
        /\ \A p \in DOMAIN events : events[p].kind \in Minor
    BY <2>2
  <2> QED BY <1>1, <2>1, <2>3, <2>4, Restarted
<1>4. CASE links = 1 /\ Disconnect
  BY <1>4 DEF Disconnect
<1>5. CASE links = 1 /\ UNCHANGED sessionVars
  <2>1. connected /\ UNCHANGED identifier
    BY <1>5 DEF sessionVars
  <2>2. ViewFollows /\ OneRequest /\ EditsInv /\ RowsNumbered
    BY <1>5, <2>1 DEF ViewInv, ViewFollows, NumberInv
  <2>3. CASE Connect \/ Disconnect
    BY <2>1, <2>3 DEF Connect, Disconnect
  <2>4. CASE Quiet
    <3>1. UNCHANGED <<loadingType, itemList, fetchedCount, moreAvailable, queue>>
      BY <2>4 DEF Quiet, viewVars
    <3>2. PICK d \in {0, 1}, x \in Seq(Job) :
             JobsGo(d, x) /\ IndexJobs(x) /\ (d = 1 => Head(jobs).kind = "SetIndex")
      BY <2>4 DEF Quiet, JobsQuiet
    <3>3. PICK c \in {0, 1}, y \in Seq(Event) :
             EventsGo(c, y) /\ MinorEvents(y) /\ (c = 1 => Head(events).kind \in Minor)
      BY <2>4 DEF Quiet, EventsQuiet
    <3>4. \A p \in DOMAIN x : ~x[p].done /\ JobFits(x[p])
      BY <3>2 DEF IndexJobs, JobFits, InRange, Edits
    <3>5. \A p \in DOMAIN y : EventFits(y[p])
      BY <3>3 DEF MinorEvents, EventFits, Minor
    <3>6. c = 1 => events[1].kind # "dataChanged"
      BY <3>3, GoesFrom DEF EventsGo, Goes, Minor
    <3>7. d = 1 => Head(jobs).kind \notin Edits
      BY <3>2 DEF Edits
    <3> QED BY <2>1, <2>2, <3>1, <3>2, <3>3, <3>4, <3>5, <3>6, <3>7, ViewStays
  <2>5. CASE \E job \in Job : AnEdit(job)
    <3>1. PICK job \in Job : AnEdit(job)
      BY <2>5
    <3> DEFINE d == 0  x == <<job>>  y == <<>>
    <3>2. JobsGo(d, x) /\ EventsGo(d, y) /\ \A p \in DOMAIN x : x[p] = job
      BY <3>1, EditGoes DEF AnEdit
    <3>3. /\ UNCHANGED <<loadingType, itemList, fetchedCount, moreAvailable, queue>>
          /\ loadingType = "FetchMore"
      BY <3>1 DEF AnEdit, Edit, MayEdit, viewVars
    <3>4. ~job.done /\ JobFits(job)
      BY <3>1, <3>3 DEF AnEdit, JobFits, Edits
    <3>5. d # 1 /\ \A p \in DOMAIN y : EventFits(y[p])
      OBVIOUS
    <3> HIDE DEF d, x, y
    <3> QED BY <2>1, <2>2, <3>2, <3>3, <3>4, <3>5, ViewStays
  <2>6. CASE FetchMore
    <3>1. PICK start \in Nat :
             /\ JobsGo(0, <<SelectJob(start)>>)
             /\ \A p \in DOMAIN <<SelectJob(start)>> : <<SelectJob(start)>>[p] = SelectJob(start)
             /\ ~SelectJob(start).done /\ SelectJob(start).kind = "Select"
             /\ SelectJob(start).id = identifier /\ SelectJob(start).start = start
             /\ EventsGo(0, <<>>) /\ start = fetchedCount
      BY <2>6, SelectGoes
    <3>2. /\ UNCHANGED <<loadingType, itemList, fetchedCount, queue>>
          /\ moreAvailable /\ ~moreAvailable'
      BY <2>6 DEF FetchMore
    <3>3. JobFits(SelectJob(start))
      BY <2>2, <3>1, <3>2 DEF JobFits, ViewFollows, ListFits, ListGrows, InRange, Edits
    <3> DEFINE d == 0  x == <<SelectJob(start)>>  y == <<>>
    <3>4. /\ JobsGo(d, x) /\ EventsGo(d, y) /\ d # 1
          /\ \A p \in DOMAIN x : ~x[p].done /\ JobFits(x[p])
          /\ \A p \in DOMAIN y : EventFits(y[p])
      BY <3>1, <3>3
    <3> HIDE DEF d, x, y
    <3> QED BY <2>1, <2>2, <3>2, <3>4, ViewStays
  <2>7. CASE \E type \in {"FetchMore", "DataChanged"} : SetLoadingType(type)
    <3>1. PICK start \in Nat :
             /\ JobsGo(0, <<SelectJob(start)>>)
             /\ \A p \in DOMAIN <<SelectJob(start)>> : <<SelectJob(start)>>[p] = SelectJob(start)
             /\ EventsGo(0, <<>>) /\ start = 0
      BY <2>7, SelectGoes
    <3>2. itemList' = <<>> /\ moreAvailable' = FALSE /\ UNCHANGED queue /\ Patient
      BY <2>7 DEF SetLoadingType, ResetModel
    <3> DEFINE x == <<SelectJob(start)>>
    <3>3. JobsGo(0, x) /\ \A p \in DOMAIN x : x[p] = SelectJob(0)
      BY <3>1
    <3> HIDE DEF x
    <3>4. /\ \A p \in DOMAIN jobs : jobs[p].kind = "SetIndex"
          /\ \A p \in DOMAIN events : events[p].kind \in Minor
      BY <3>2, NothingUnderWay
    <3> QED BY <1>1, <2>1, <3>1, <3>2, <3>3, <3>4, Restarted
  <2>8. CASE Execute
    BY <1>1, <2>2, <2>8, ExecuteEdit, ExecuteOther
  <2>9. CASE PageDone
    BY <2>2, <2>9, PageFollows
  <2>10. CASE EditDone
    BY <1>5, <2>2, <2>10, EditFollows
  <2>11. CASE OnCountChanged
    BY <1>1, <2>2, <2>11, CountHeard
  <2>12. CASE OnDataFetched
    BY <1>1, <2>2, <2>12, PageHeard
  <2>13. CASE OnDataChanged
    BY <1>1, <2>2, <2>13, ChangeHeard
  <2> QED BY <2>3, <2>4, <2>5, <2>6, <2>7, <2>8, <2>9, <2>10, <2>11, <2>12, <2>13, StepKinds
          DEF Kinds
<1> QED BY <1>2, <1>3, <1>4, <1>5

------------------------------------------------------------------------------
ListInv == TypeInv /\ FreshInv /\ NumberInv /\ ViewInv

LEMMA InitNumbered == Init => RowsNumbered
<1> SUFFICES ASSUME Init PROVE RowsNumbered
  OBVIOUS
<1>1. PICK s \in InitialQueues :
        queue = [t \in {s[i] : i \in DOMAIN s} |-> (CHOOSE i \in DOMAIN s : s[i] = t) - 1]
  BY DEF Init
<1> DEFINE n == Len(s)  T == DOMAIN queue
<1>2. /\ s \in Seq(Track) /\ DOMAIN s = 1 .. n /\ n \in Nat
      /\ \A i, j \in 1 .. n : s[i] = s[j] => i = j
  BY PlayerAssumption
<1>3. T = {s[i] : i \in 1 .. n} /\ \A i \in 1 .. n : queue[s[i]] = i - 1
  <2>1. ASSUME NEW i \in 1 .. n PROVE (CHOOSE j \in DOMAIN s : s[j] = s[i]) = i
    BY <1>2
  <2> QED BY <1>1, <1>2, <2>1
<1> HIDE DEF n, T
<1>4. Cardinality(T) = n
  <2>1. IsFiniteSet(1 .. n) /\ Cardinality(1 .. n) = n
    BY <1>2, FS_Interval
  <2>2. [i \in 1 .. n |-> s[i]] \in Bijection(1 .. n, T)
    BY <1>2, <1>3 DEF Bijection, Injection, Surjection, IsInjective
  <2>3. ExistsBijection(1 .. n, T)
    BY <2>2 DEF ExistsBijection
  <2> QED BY <2>1, <2>3, FS_Bijection
<1>5. {queue[t] : t \in T} = 0 .. n - 1
  <2>1. ASSUME NEW t \in T PROVE queue[t] \in 0 .. n - 1
    BY <1>2, <1>3
  <2>2. ASSUME NEW k \in 0 .. n - 1 PROVE \E t \in T : queue[t] = k
    <3>1. k + 1 \in 1 .. n /\ (k + 1) - 1 = k
      BY <1>2
    <3>2. s[k + 1] \in T /\ queue[s[k + 1]] = (k + 1) - 1
      BY <1>3, <3>1
    <3> QED BY <3>1, <3>2
  <2> QED BY <2>1, <2>2
<1> QED BY <1>4, <1>5 DEF RowsNumbered, T

LEMMA InitList ==
    ASSUME Init
    PROVE  ListInv
<1>1. TypeInv /\ links = 0 /\ ~connected
  BY InitTyped DEF Init
<1>2. FreshInv /\ ViewInv
  BY <1>1 DEF FreshInv, ViewInv, Init
<1>3. OneRequest /\ EditsInv
  BY DEF Init, OneRequest, One, NoAsks, NoTells, EditsInv
<1>4. RowsNumbered
  BY InitNumbered
<1> QED BY <1>1, <1>2, <1>3, <1>4 DEF ListInv, NumberInv

LEMMA ListAlways == Spec => []ListInv
<1>1. ListInv /\ [Next]_vars => ListInv'
  BY TypeStep, FreshStep, NumberStep, ViewStep DEF ListInv
<1>2. Init => ListInv
  BY InitList
<1> QED BY <1>1, <1>2, PTL DEF Spec

LEMMA ListShows ==
    ASSUME ListInv, links <= 1
    PROVE  QueueShown
<1>1. RowsNumbered
  BY DEF ListInv, NumberInv
<1>2. SUFFICES ASSUME connected, ~Pending(Edits), ~Queued({"dataChanged"}),
                      NEW i \in DOMAIN itemList
               PROVE  \/ i <= Cardinality(DOMAIN queue) /\ itemList[i] = Rows(queue)[i]
                      \/ loadingType = "DataChanged" /\ itemList[i] = None
  BY <1>1 DEF QueueShown, RowsShown
<1>3. /\ IsTable(queue) /\ Gapless(queue) /\ Size = Cardinality(DOMAIN queue) /\ Size \in Nat
      /\ itemList \in Seq(Row) /\ loadingType \in {"FetchMore", "DataChanged"}
  BY <1>1, TypeInvFacts, TypeParts DEF ListInv, RowsNumbered, Gapless, Size, ViewType
<1>4. i \in Nat \ {0}
  BY <1>3
<1>5. ASSUME itemList[i] \in DOMAIN queue, queue[itemList[i]] = i - 1
      PROVE  i <= Cardinality(DOMAIN queue) /\ itemList[i] = Rows(queue)[i]
  <2>1. /\ Rows(queue) \in Seq(Track) /\ Len(Rows(queue)) = Size /\ FromRow(queue, Rows(queue), 0)
        /\ queue[itemList[i]] \in 0 .. Size - 1
    BY <1>3, <1>5, RowsListed
  <2>2. i \in 1 .. Size
    BY <1>3, <1>4, <1>5, <2>1
  <2>3. DOMAIN Rows(queue) = 1 .. Size
    BY <2>1
  <2>4. Rows(queue)[i] \in DOMAIN queue /\ queue[Rows(queue)[i]] = 0 + i - 1
    BY <2>1, <2>2, <2>3 DEF FromRow
  <2> QED BY <1>3, <1>4, <1>5, <2>2, <2>4 DEF IsTable, NoRowTwice
<1>6. CASE loadingType = "FetchMore"
  <2>1. ~Edited
    <3>1. SUFFICES ASSUME jobs # <<>> PROVE Head(jobs).kind \notin Edits
      BY DEF Edited, Worked
    <3>2. Head(jobs) = jobs[1] /\ 1 \in DOMAIN jobs
      BY <3>1, HeadFields DEF ListInv
    <3> QED BY <1>2, <3>2 DEF Pending
  <2>2. NoneOf(events, "dataChanged")
    BY <1>2 DEF Queued, NoneOf
  <2>3. FromRow(queue, itemList, 0)
    BY <1>2, <1>6, <2>1, <2>2 DEF ListInv, ViewInv, ListFits, ListGrows
  <2>4. itemList[i] \in DOMAIN queue /\ queue[itemList[i]] = 0 + i - 1
    BY <2>3 DEF FromRow
  <2> QED BY <1>4, <1>5, <2>4
<1>7. CASE loadingType = "DataChanged"
  <2>1. \/ itemList[i] = None
        \/ itemList[i] \in DOMAIN queue /\ queue[itemList[i]] = i - 1
    BY <1>2, <1>7 DEF ListInv, ViewInv, ListFits, ListFills
  <2> QED BY <1>5, <1>7, <2>1
<1> QED BY <1>3, <1>6, <1>7

(* Through every sequence of edits, pages, skips and changes of the loading  *)
(* type on one connection the play queue shows the rows of the simulator's   *)
(* table in order, and the updates of the table keep its rows numbered       *)
(* without gap or duplicate.                                                 *)
THEOREM QueueShownAlways == Spec => [](links <= 1 => QueueShown)
<1>1. ListInv => (links <= 1 => QueueShown)
  BY ListShows
<1> QED BY <1>1, ListAlways, PTL

------------------------------------------------------------------------------
(* The last of a kind in a sequence that has gone on.                        *)
LEMMA LastGoes ==
    ASSUME NEW S, NEW old, NEW new, NEW d, NEW x, Goes(S, old, new, d, x), NEW kind,
           NoneOf(x, kind)
    PROVE  /\ NoneOf(old, kind) => NoneOf(new, kind)
           /\ \A p \in DOMAIN old : LastAt(old, kind, p) =>
                IF p <= d THEN NoneOf(new, kind)
                          ELSE LastAt(new, kind, p - d) /\ new[p - d] = old[p]
<1>1. /\ Origin(old, new, d, x)
      /\ DOMAIN old = 1 .. Len(old) /\ DOMAIN new = 1 .. Len(new) /\ DOMAIN x = 1 .. Len(x)
      /\ Len(old) \in Nat /\ Len(x) \in Nat /\ Len(new) \in Nat /\ d \in {0, 1}
      /\ d <= Len(old) /\ Len(new) = Len(old) - d + Len(x)
  BY GoesFrom
<1>2. ASSUME NEW r \in DOMAIN new
      PROVE  \/ r + d \in DOMAIN old /\ new[r] = old[r + d]
             \/ new[r].kind # kind
  BY <1>1, <1>2 DEF Origin, NoneOf
<1>3. NoneOf(old, kind) => NoneOf(new, kind)
  BY <1>2 DEF NoneOf
<1>4. ASSUME NEW p \in DOMAIN old, LastAt(old, kind, p), p <= d PROVE NoneOf(new, kind)
  <2>1. ASSUME NEW r \in DOMAIN new PROVE new[r].kind # kind
    <3>1. CASE r + d \in DOMAIN old /\ new[r] = old[r + d]
      <4>1. r + d > p
        BY <1>1, <1>4
      <4> QED BY <1>4, <3>1, <4>1 DEF LastAt
    <3> QED BY <1>2, <3>1
  <2> QED BY <2>1 DEF NoneOf
<1>5. ASSUME NEW p \in DOMAIN old, LastAt(old, kind, p), ~(p <= d)
      PROVE  LastAt(new, kind, p - d) /\ new[p - d] = old[p]
  <2>1. p - d \in DOMAIN new /\ new[p - d] = old[p] /\ p \in Nat /\ d \in Nat
    BY <1>1, <1>5 DEF Origin
  <2>2. ASSUME NEW r \in DOMAIN new, r > p - d PROVE new[r].kind # kind
    <3>1. CASE r + d \in DOMAIN old /\ new[r] = old[r + d]
      <4>1. r + d > p
        BY <1>1, <2>1, <2>2
      <4> QED BY <1>5, <3>1, <4>1 DEF LastAt
    <3> QED BY <1>2, <3>1
  <2>3. old[p].kind = kind
    BY <1>5 DEF LastAt
  <2> QED BY <2>1, <2>2, <2>3 DEF LastAt
<1> QED BY <1>3, <1>4, <1>5

LEMMA LastAdded ==
    ASSUME NEW S, NEW old, NEW new, NEW d, NEW x, Goes(S, old, new, d, x), NEW kind,
           NEW r, LastAt(x, kind, r)
    PROVE  /\ LastAt(new, kind, Len(old) - d + r) /\ new[Len(old) - d + r] = x[r]
           /\ Len(old) - d + r \in DOMAIN new
<1>1. /\ Origin(old, new, d, x)
      /\ DOMAIN old = 1 .. Len(old) /\ DOMAIN new = 1 .. Len(new) /\ DOMAIN x = 1 .. Len(x)
      /\ Len(old) \in Nat /\ Len(x) \in Nat /\ Len(new) \in Nat /\ d \in {0, 1}
      /\ d <= Len(old) /\ Len(new) = Len(old) - d + Len(x)
  BY GoesFrom
<1>2. r \in DOMAIN x /\ x[r].kind = kind /\ \A t \in DOMAIN x : t > r => x[t].kind # kind
  BY DEF LastAt
<1> DEFINE n == Len(old) - d
<1>3. n \in Nat /\ n + r \in DOMAIN new /\ new[n + r] = x[r]
  BY <1>1, <1>2 DEF Origin
<1>4. ASSUME NEW t \in DOMAIN new, t > n + r PROVE new[t].kind # kind
  <2>1. t \in Nat /\ r \in Nat /\ t <= Len(new)
    BY <1>1, <1>2, <1>4
  <2>2. ~(t + d \in DOMAIN old)
    BY <1>1, <1>2, <1>3, <1>4, <2>1
  <2>3. t - n \in DOMAIN x /\ new[t] = x[t - n]
    BY <1>1, <1>4, <2>2 DEF Origin
  <2>4. t - n > r
    BY <1>3, <1>4, <2>1
  <2> QED BY <1>2, <2>3, <2>4
<1> QED BY <1>2, <1>3, <1>4 DEF LastAt

LEMMA BecomesKept ==
    ASSUME NEW es, NEW es2, NEW c, NEW y, Goes(Event, es, es2, c, y), NEW kind,
           NoneOf(y, kind), c = 1 => es[1].kind # kind, NEW now, NEW v, Becomes(es, kind, now, v)
    PROVE  Becomes(es2, kind, now, v)
<1>1. c \in {0, 1} /\ DOMAIN es = 1 .. Len(es) /\ DOMAIN es2 = 1 .. Len(es2)
  BY GoesFrom
<1>2. /\ NoneOf(es, kind) => NoneOf(es2, kind)
      /\ \A p \in DOMAIN es : LastAt(es, kind, p) =>
           IF p <= c THEN NoneOf(es2, kind)
                     ELSE LastAt(es2, kind, p - c) /\ es2[p - c] = es[p]
  BY LastGoes
<1>3. ASSUME NEW p \in DOMAIN es, LastAt(es, kind, p), Told(es[p]) = v
      PROVE  Becomes(es2, kind, now, v)
  <2>1. ~(p <= c)
    <3>1. SUFFICES ASSUME p <= c PROVE FALSE
      OBVIOUS
    <3>2. p = 1 /\ c = 1
      BY <1>1, <3>1
    <3> QED BY <1>3, <3>2 DEF LastAt
  <2>2. LastAt(es2, kind, p - c) /\ es2[p - c] = es[p]
    BY <1>2, <1>3, <2>1
  <2>3. p - c \in DOMAIN es2
    BY <2>2 DEF LastAt
  <2> QED BY <1>3, <2>2, <2>3 DEF Becomes
<1> QED BY <1>2, <1>3 DEF Becomes

LEMMA BecomesHeard ==
    ASSUME NEW es, NEW es2, Goes(Event, es, es2, 1, <<>>), NEW kind, es[1].kind = kind,
           NEW now, NEW v, Becomes(es, kind, now, v)
    PROVE  Becomes(es2, kind, Told(es[1]), v)
<1> DEFINE c == 1  y == <<>>
<1>1. c = 1 /\ Goes(Event, es, es2, c, y) /\ NoneOf(y, kind)
  BY DEF NoneOf
<1> HIDE DEF c, y
<1>2. DOMAIN es = 1 .. Len(es) /\ Len(es) \in Nat /\ c <= Len(es)
  BY <1>1, GoesFrom
<1>3. \A p \in DOMAIN es : LastAt(es, kind, p) =>
           IF p <= c THEN NoneOf(es2, kind)
                     ELSE LastAt(es2, kind, p - c) /\ es2[p - c] = es[p]
  BY <1>1, LastGoes
<1>4. ~NoneOf(es, kind)
  BY <1>1, <1>2 DEF NoneOf
<1>5. PICK p \in DOMAIN es : LastAt(es, kind, p) /\ Told(es[p]) = v
  BY <1>4 DEF Becomes
<1>6. CASE p <= c
  <2>1. p = 1 /\ NoneOf(es2, kind)
    BY <1>1, <1>2, <1>3, <1>5, <1>6
  <2> QED BY <1>5, <2>1 DEF Becomes
<1>7. CASE ~(p <= c)
  <2>1. LastAt(es2, kind, p - c) /\ es2[p - c] = es[p]
    BY <1>3, <1>5, <1>7
  <2>2. p - c \in DOMAIN es2
    BY <2>1 DEF LastAt
  <2> QED BY <1>5, <2>1, <2>2 DEF Becomes
<1> QED BY <1>6, <1>7

LEMMA BecomesTold ==
    ASSUME NEW es, NEW es2, NEW c, NEW y, Goes(Event, es, es2, c, y), NEW kind,
           NEW r, LastAt(y, kind, r), NEW now
    PROVE  Becomes(es2, kind, now, Told(y[r]))
  BY LastAdded DEF Becomes

------------------------------------------------------------------------------
(* The steps by what they mean for the current index and the current track.  *)
Loud == {"currentIndexChanged", "currentTrackChanged", "playTrack"}

Silent(y) == \A p \in DOMAIN y : y[p].kind \notin Loud

Asked(x) ==
    /\ \A p \in DOMAIN x : Asks(x[p]) /\ ~x[p].done
    /\ x # <<>> => Len(x) = 1 /\ NoAsks(jobs)

CalmJobs ==
    \E d \in {0, 1}, x \in Seq(Job) :
        JobsGo(d, x) /\ Asked(x) /\ (d = 1 => Head(jobs).kind = "Select")

CalmEvents ==
    \E c \in {0, 1}, y \in Seq(Event) :
        EventsGo(c, y) /\ Silent(y) /\ (c = 1 => Head(events).kind \notin Loud)

Calm == UNCHANGED <<shownVars, media, currentIndex, queue, off>> /\ CalmJobs /\ CalmEvents

Chosen(index) ==
    /\ Sets(index) /\ currentIndex' = index
    /\ JobsGo(0, <<SetIndexJob(index)>>)
    /\ off' = (IF Pending(Edits) THEN off \cup {"race"} ELSE off)
    /\ UNCHANGED <<shownVars, media, queue, events>>

Emptied ==
    /\ currentIndex' = -1 /\ shownIndex' = -1 /\ shownTrack' = None /\ media' = None
    /\ off' = (IF jobs # <<>> \/ events # <<>> THEN off \cup {"race"} ELSE off)
    /\ UNCHANGED <<jobs, events, queue>>

EditEnds == FinishInsert \/ FinishRemove \/ FinishMove

PlayKinds ==
    \/ Connect \/ Disconnect \/ Calm \/ (\E index : Chosen(index)) \/ Emptied
    \/ Execute \/ FinishSetIndex \/ EditEnds \/ FinishRemoveCurrent
    \/ OnCurrentIndexChanged \/ OnCurrentTrackChanged \/ OnPlayTrack

LEMMA CalmSame ==
    ASSUME TypeInv
    PROVE  (UNCHANGED jobs => CalmJobs) /\ (UNCHANGED events => CalmEvents)
<1> DEFINE n == 0  x == <<>>
<1>1. /\ UNCHANGED jobs => JobsGo(n, x)
      /\ UNCHANGED events => EventsGo(n, x)
  BY SameQuiet
<1>2. n \in {0, 1} /\ n # 1 /\ x \in Seq(Job) /\ x \in Seq(Event) /\ Asked(x) /\ Silent(x)
  BY DEF Asked, Silent
<1> HIDE DEF n, x
<1> QED BY <1>1, <1>2 DEF CalmJobs, CalmEvents

LEMMA CalmAsked ==
    ASSUME TypeInv, NoAsks(jobs), NEW x \in Seq(Job), JobsGo(0, x), Len(x) = 1,
           \A p \in DOMAIN x : Asks(x[p]) /\ ~x[p].done
    PROVE  CalmJobs
<1> DEFINE n == 0
<1>1. n \in {0, 1} /\ n # 1 /\ JobsGo(n, x) /\ Asked(x)
  BY DEF Asked
<1> HIDE DEF n
<1> QED BY <1>1 DEF CalmJobs

LEMMA CalmHeard ==
    ASSUME TypeInv, NEW kind, Hear(kind), kind \notin Loud, UNCHANGED <<shownVars, media>>
    PROVE  Calm
<1> DEFINE n == 1  y == <<>>
<1>1. EventsGo(n, y) /\ Head(events).kind = kind
  BY HeardGoes
<1>2. n \in {0, 1} /\ y \in Seq(Event) /\ Silent(y)
  BY DEF Silent
<1> HIDE DEF n, y
<1>3. CalmEvents
  BY <1>1, <1>2 DEF CalmEvents
<1> QED BY <1>3, CalmSame DEF Calm, Hear

LEMMA ChoosePlays ==
    ASSUME TypeInv, NEW index, Choose(index), UNCHANGED <<shownVars, media, queue, events>>
    PROVE  Calm \/ Chosen(index)
<1>1. CASE Sets(index)
  BY <1>1, ChooseGoes DEF Choose, Chosen
<1>2. CASE ~Sets(index)
  BY <1>2, CalmSame DEF Choose, Calm
<1> QED BY <1>1, <1>2

LEMMA SkipPlays ==
    ASSUME TypeInv, NEW index, Skip(index)
    PROVE  Calm \/ Chosen(index) \/ Emptied
<1>1. CASE Empties(index)
  <2>1. Empty(index) /\ index = -1 /\ UNCHANGED <<queue, events>>
    BY <1>1 DEF Skip, Empties
  <2>2. Emptied
    BY <2>1 DEF Empty, Emptied
  <2> QED BY <2>2
<1>2. CASE ~Empties(index)
  <2>1. Choose(index) /\ UNCHANGED <<mediaVars, shownVars>> /\ UNCHANGED <<queue, events>>
    BY <1>2 DEF Skip
  <2> QED BY <2>1, ChoosePlays DEF mediaVars
<1> QED BY <1>1, <1>2

LEMMA StillPlays ==
    ASSUME TypeInv,
           \/ \E mode \in Mode : SetPlayMode(mode)
           \/ \E state \in PlayState : Request(state)
           \/ OnLoadedMedia \/ UNCHANGED vars
    PROVE  Calm
<1>1. UNCHANGED <<shownVars, media, currentIndex, queue, off>> /\ UNCHANGED events
      /\ UNCHANGED jobs
  <2>1. CASE \E mode \in Mode : SetPlayMode(mode)
    BY <2>1 DEF SetPlayMode, mediaVars
  <2>2. CASE \E state \in PlayState : Request(state)
    BY <2>2 DEF Request
  <2>3. CASE OnLoadedMedia
    BY <2>3 DEF OnLoadedMedia
  <2>4. CASE UNCHANGED vars
    BY <2>4 DEF vars, mediaVars
  <2> QED BY <2>1, <2>2, <2>3, <2>4
<1> QED BY <1>1, CalmSame DEF Calm

LEMMA AskPlays ==
    ASSUME TypeInv, OneRequest,
           \/ \E job \in Job : AnEdit(job)
           \/ FetchMore \/ \E type \in {"FetchMore", "DataChanged"} : SetLoadingType(type)
    PROVE  Calm
<1>1. CASE \E job \in Job : AnEdit(job)
  <2>1. PICK job \in Job : AnEdit(job)
    BY <1>1
  <2> DEFINE x == <<job>>
  <2>2. /\ JobsGo(0, x) /\ Len(x) = 1 /\ x \in Seq(Job)
        /\ \A p \in DOMAIN x : Asks(x[p]) /\ ~x[p].done
    BY <2>1, EditGoes DEF AnEdit, Asks
  <2>3. NoAsks(jobs) /\ UNCHANGED <<shownVars, media, currentIndex, queue, off, events>>
    BY <2>1, NothingUnderWay DEF AnEdit, Edit, MayEdit, mediaVars
  <2> HIDE DEF x
  <2> QED BY <2>2, <2>3, CalmAsked, CalmSame DEF Calm
<1>2. CASE FetchMore \/ \E type \in {"FetchMore", "DataChanged"} : SetLoadingType(type)
  <2>1. PICK start \in Nat :
           /\ JobsGo(0, <<SelectJob(start)>>) /\ Len(<<SelectJob(start)>>) = 1
           /\ \A p \in DOMAIN <<SelectJob(start)>> : <<SelectJob(start)>>[p] = SelectJob(start)
           /\ SelectJob(start) \in Job /\ ~SelectJob(start).done
           /\ SelectJob(start).kind = "Select"
    BY <1>2, SelectGoes
  <2> DEFINE x == <<SelectJob(start)>>
  <2>2. /\ JobsGo(0, x) /\ Len(x) = 1 /\ x \in Seq(Job)
        /\ \A p \in DOMAIN x : Asks(x[p]) /\ ~x[p].done
    BY <2>1 DEF Asks
  <2>3. NoAsks(jobs) /\ UNCHANGED <<shownVars, media, currentIndex, queue, off, events>>
    BY <1>2, NothingUnderWay DEF FetchMore, SetLoadingType, mediaVars, OneRequest, One
  <2> HIDE DEF x
  <2> QED BY <2>2, <2>3, CalmAsked, CalmSame DEF Calm
<1> QED BY <1>1, <1>2

LEMMA PagePlays ==
    ASSUME TypeInv, FinishSelect
    PROVE  Calm
<1>1. /\ jobs # <<>> /\ Head(jobs).kind = "Select" /\ JobsGo(1, <<>>)
      /\ PageOf(Head(jobs)) \in Event /\ EventsGo(0, ToQueue(PageOf(Head(jobs))))
  BY FinishSelectDone DEF PageDone
<1> DEFINE y == ToQueue(PageOf(Head(jobs)))  x == <<>>  d == 1  c == 0
<1>2. y \in Seq(Event) /\ \A p \in DOMAIN y : y[p] = PageOf(Head(jobs))
  BY <1>1, SignalsTyped
<1>3. Silent(y)
  BY <1>2 DEF Silent, PageOf, Loud
<1>4. JobsGo(d, x) /\ EventsGo(c, y) /\ d \in {0, 1} /\ c \in {0, 1} /\ c # 1
      /\ x \in Seq(Job) /\ Asked(x)
  BY <1>1 DEF Asked
<1> HIDE DEF x, y, c, d
<1>5. CalmJobs /\ CalmEvents
  BY <1>1, <1>2, <1>3, <1>4 DEF CalmJobs, CalmEvents
<1> QED BY <1>5 DEF Calm, FinishSelect, mediaVars

LEMMA HeardPlays ==
    ASSUME TypeInv, OnCountChanged \/ OnDataFetched \/ OnDataChanged \/ OnStateChanged
    PROVE  Calm
<1>1. CASE OnCountChanged
  BY <1>1, CalmHeard DEF OnCountChanged, mediaVars, Loud
<1>2. CASE OnDataFetched
  BY <1>2, CalmHeard DEF OnDataFetched, mediaVars, Loud
<1>3. CASE OnDataChanged
  BY <1>3, CalmHeard DEF OnDataChanged, mediaVars, Loud
<1>4. CASE OnStateChanged
  BY <1>4, CalmHeard DEF OnStateChanged, Loud
<1> QED BY <1>1, <1>2, <1>3, <1>4

LEMMA StepPlays == ASSUME TypeInv, OneRequest, [Next]_vars PROVE PlayKinds
<1>1. CASE NextTrack \/ Previous \/ \E index \in -1 .. Len(itemList) - 1 : Skip(index)
  BY <1>1, SkipIsTo, SkipPlays DEF PlayKinds
<1>2. CASE \/ \E mode \in Mode : SetPlayMode(mode)
           \/ \E state \in PlayState : Request(state)
           \/ OnLoadedMedia \/ UNCHANGED vars
  BY <1>2, StillPlays DEF PlayKinds
<1>3. CASE OnEndOfMedia
  BY <1>3, ChoosePlays DEF OnEndOfMedia, PlayKinds
<1>4. CASE OnCountChanged \/ OnDataFetched \/ OnDataChanged \/ OnStateChanged
  BY <1>4, HeardPlays DEF PlayKinds
<1>5. CASE FinishSelect
  BY <1>5, PagePlays DEF PlayKinds
<1>6. CASE \/ \E i \in 0..Len(itemList), item \in Item : Insert(i, item)
           \/ \E i \in 0..Len(itemList) - 1 : Remove(i)
           \/ \E i, j \in 0..Len(itemList) - 1 : Move(i, j)
           \/ FetchMore \/ \E type \in {"FetchMore", "DataChanged"} : SetLoadingType(type)
  BY <1>6, InsertIsEdit, RemoveIsEdit, MoveIsEdit, AskPlays DEF PlayKinds
<1>7. CASE \/ Connect \/ Disconnect \/ Execute \/ FinishSetIndex
           \/ FinishInsert \/ FinishRemove \/ FinishMove \/ FinishRemoveCurrent
           \/ OnCurrentIndexChanged \/ OnCurrentTrackChanged \/ OnPlayTrack
  BY <1>7 DEF PlayKinds, EditEnds
<1> QED BY <1>1, <1>2, <1>3, <1>4, <1>5, <1>6, <1>7, StepIsOne DEF Steps

------------------------------------------------------------------------------
(* One event after the other.                                                *)
Adds(es, es2, e) ==
    /\ es2 \in Seq(Event)
    /\ \A now : Becomes(es2, e.kind, now, Told(e))
    /\ \A kind, now, v : kind # e.kind /\ Becomes(es, kind, now, v) => Becomes(es2, kind, now, v)
    /\ \A kind : kind # e.kind /\ NoneOf(es, kind) => NoneOf(es2, kind)

LEMMA AddsOne ==
    ASSUME NEW es \in Seq(Event), NEW e \in Event
    PROVE  Adds(es, es \o <<e>>, e)
<1> DEFINE y == <<e>>  es2 == es \o y  c == 0
<1>1. y \in Seq(Event) /\ DOMAIN y = {1} /\ y[1] = e /\ c # 1
  OBVIOUS
<1>2. Goes(Event, es, es2, c, y)
  BY <1>1, GoesAdded
<1>3. es2 \in Seq(Event)
  BY <1>2 DEF Goes
<1>4. LastAt(y, e.kind, 1)
  BY <1>1 DEF LastAt
<1> HIDE DEF y, es2, c
<1>5. ASSUME NEW now PROVE Becomes(es2, e.kind, now, Told(e))
  BY <1>1, <1>2, <1>4, BecomesTold
<1>6. ASSUME NEW kind, kind # e.kind
      PROVE  /\ NoneOf(y, kind)
             /\ NoneOf(es, kind) => NoneOf(es2, kind)
             /\ \A now, v : Becomes(es, kind, now, v) => Becomes(es2, kind, now, v)
  <2>1. NoneOf(y, kind)
    BY <1>1, <1>6 DEF NoneOf
  <2>2. NoneOf(es, kind) => NoneOf(es2, kind)
    BY <1>2, <2>1, LastGoes
  <2>3. ASSUME NEW now, NEW v, Becomes(es, kind, now, v) PROVE Becomes(es2, kind, now, v)
    BY <1>1, <1>2, <2>1, <2>3, BecomesKept
  <2> QED BY <2>1, <2>2, <2>3
<1>7. Adds(es, es2, e)
  BY <1>3, <1>5, <1>6 DEF Adds
<1> QED BY <1>7 DEF es2, y

LEMMA OneSignal ==
    ASSUME links = 1, NEW e
    PROVE  ToQueue(e) = <<e>> /\ (connected => ToPlayer(e) = <<e>>)
<1>1. Times(1, e) = <<e>>
  BY DEF Times
<1> QED BY <1>1 DEF ToQueue, ToPlayer

LEMMA SetIndexTold ==
    ASSUME TypeInv, connected, links = 1, FinishSetIndex, Head(jobs).list # <<>>
    PROVE  /\ \A now : Becomes(events', "currentIndexChanged", now, Head(jobs).start)
           /\ \A now : Becomes(events', "currentTrackChanged", now, Head(jobs).list[1])
           /\ \A now : Becomes(events', "playTrack", now, Head(jobs).list[1])
<1> DEFINE job == Head(jobs)
           p == [kind |-> "playTrack", track |-> job.list[1]]
           i == [kind |-> "currentIndexChanged", index |-> job.start]
           t == [kind |-> "currentTrackChanged", track |-> job.list[1]]
<1>1. jobs # <<>> /\ job \in Job /\ job.start \in Nat
  BY HeadFields DEF FinishSetIndex, Done
<1>2. p \in Event /\ i \in Event /\ t \in Event /\ events \in Seq(Event)
  BY <1>1, IndexToldTyped, EventsTyped, TypeParts DEF Index
<1>3. events' = ((events \o <<p>>) \o <<i>>) \o <<t>>
  <2>1. events' = ((events \o <<p>>) \o IndexChanged(job.start)) \o ToPlayer(t)
    BY DEF FinishSetIndex
  <2>2. IndexChanged(job.start) = <<i>> /\ ToPlayer(t) = <<t>>
    BY OneSignal DEF IndexChanged
  <2> QED BY <2>1, <2>2
<1>4. /\ p.kind = "playTrack" /\ Told(p) = job.list[1]
      /\ i.kind = "currentIndexChanged" /\ Told(i) = job.start
      /\ t.kind = "currentTrackChanged" /\ Told(t) = job.list[1]
  BY DEF Told
<1> DEFINE a == events \o <<p>>  b == a \o <<i>>
<1> HIDE DEF p, i, t
<1>5. Adds(events, a, p)
  BY <1>2, AddsOne
<1>6. a \in Seq(Event)
  BY <1>5 DEF Adds
<1>7. Adds(a, b, i)
  BY <1>2, <1>6, AddsOne
<1>8. b \in Seq(Event)
  BY <1>7 DEF Adds
<1>9. Adds(b, events', t)
  BY <1>2, <1>3, <1>8, AddsOne
<1> HIDE DEF a, b, job
<1>10. \A now : Becomes(a, "playTrack", now, job.list[1])
  BY <1>4, <1>5 DEF Adds
<1>11. /\ \A now : Becomes(b, "playTrack", now, job.list[1])
       /\ \A now : Becomes(b, "currentIndexChanged", now, job.start)
  BY <1>4, <1>7, <1>10 DEF Adds
<1>12. /\ \A now : Becomes(events', "playTrack", now, job.list[1])
       /\ \A now : Becomes(events', "currentIndexChanged", now, job.start)
       /\ \A now : Becomes(events', "currentTrackChanged", now, job.list[1])
  BY <1>4, <1>9, <1>11 DEF Adds
<1> QED BY <1>12 DEF job

EndsAs(index) ==
    /\ jobs # <<>> /\ Head(jobs).done /\ Head(jobs).kind \in Edits /\ jobs' = Tail(jobs)
    /\ currentIndex' = index /\ index \in Index
    /\ Becomes(events, "currentIndexChanged", shownIndex, currentIndex)
          => Becomes(events', "currentIndexChanged", shownIndex, index)
    /\ \A kind \in {"currentTrackChanged", "playTrack"} : \A now, v :
          Becomes(events, kind, now, v) => Becomes(events', kind, now, v)
    /\ UNCHANGED <<shownVars, media, queue>>

LEMMA FinishEditEnds ==
    ASSUME TypeInv, links = 1, NEW kind \in Edits, NEW index \in Index, NEW start \in Nat,
           NEW n \in Nat, FinishEdit(kind, index, start, n)
    PROVE  EndsAs(index)
<1> DEFINE d == [kind |-> "dataChanged", items |-> Head(jobs).list, start |-> start, count |-> n]
           i == [kind |-> "currentIndexChanged", index |-> index]
<1>1. /\ jobs # <<>> /\ Head(jobs).done /\ Head(jobs).kind = kind /\ jobs' = Tail(jobs)
      /\ currentIndex' = index /\ UNCHANGED <<shownVars, media, queue>>
      /\ events' = (events \o (IF index = currentIndex THEN <<>> ELSE IndexChanged(index)))
                       \o DataChanged(start, n)
  BY DEF FinishEdit, Done, mediaVars
<1>2. d \in Event /\ i \in Event /\ events \in Seq(Event)
  BY <1>1, Announced, EventsTyped, TypeParts
<1>3. DataChanged(start, n) = <<d>> /\ IndexChanged(index) = <<i>>
  BY OneSignal DEF DataChanged, IndexChanged
<1>4. d.kind = "dataChanged" /\ i.kind = "currentIndexChanged" /\ Told(i) = index
  BY DEF Told
<1> DEFINE a == IF index = currentIndex THEN events ELSE events \o <<i>>
<1>5. events' = a \o <<d>>
  <2>1. events \o <<>> = events
    BY <1>2
  <2> QED BY <1>1, <1>3, <2>1
<1> HIDE DEF d, i
<1>6. /\ a \in Seq(Event)
      /\ Becomes(events, "currentIndexChanged", shownIndex, currentIndex)
            => Becomes(a, "currentIndexChanged", shownIndex, index)
      /\ \A k \in {"currentTrackChanged", "playTrack"} : \A now, v :
            Becomes(events, k, now, v) => Becomes(a, k, now, v)
  <2>1. CASE index = currentIndex
    BY <1>2, <2>1
  <2>2. CASE index # currentIndex
    <3>1. Adds(events, a, i)
      BY <1>2, <2>2, AddsOne
    <3> HIDE DEF a
    <3> QED BY <1>4, <3>1 DEF Adds
  <2> QED BY <2>1, <2>2
<1> HIDE DEF a
<1>7. Adds(a, events', d)
  BY <1>2, <1>5, <1>6, AddsOne
<1>8. \A k, now, v : k # "dataChanged" /\ Becomes(a, k, now, v) => Becomes(events', k, now, v)
  BY <1>4, <1>7 DEF Adds
<1>9. Becomes(events, "currentIndexChanged", shownIndex, currentIndex)
        => Becomes(events', "currentIndexChanged", shownIndex, index)
  BY <1>6, <1>8
<1>10. \A k \in {"currentTrackChanged", "playTrack"} : \A now, v :
          Becomes(events, k, now, v) => Becomes(events', k, now, v)
  BY <1>6, <1>8
<1> QED BY <1>1, <1>9, <1>10 DEF EndsAs

LEMMA EditEndsFacts ==
    ASSUME TypeInv, links = 1, EditEnds
    PROVE  \E index : EndsAs(index) /\ off \subseteq off'
<1> DEFINE job == Head(jobs)
<1>1. jobs # <<>>
  BY DEF EditEnds, FinishInsert, FinishRemove, FinishMove, FinishEdit, Done
<1>2. /\ AfterInsert(job) \in Index /\ AfterRemove(job) \in Index /\ AfterMove(job) \in Index
      /\ Lowest(job.start, job.count) \in Nat /\ job.start \in Nat
      /\ Highest(job.start, job.count) - Lowest(job.start, job.count) + 1 \in Nat
  BY <1>1, HeadFields, EditNumbers
<1>3. CASE FinishInsert
  <2>1. EndsAs(AfterInsert(job))
    BY <1>2, <1>3, FinishEditEnds DEF FinishInsert, Edits
  <2> QED BY <1>3, <2>1 DEF FinishInsert
<1>4. CASE FinishRemove
  <2>1. EndsAs(AfterRemove(job))
    BY <1>2, <1>4, FinishEditEnds DEF FinishRemove, Edits
  <2> QED BY <1>4, <2>1 DEF FinishRemove
<1>5. CASE FinishMove
  <2> DEFINE low == Lowest(job.start, job.count)
             n == Highest(job.start, job.count) - Lowest(job.start, job.count) + 1
  <2>1. FinishEdit("Move", AfterMove(job), low, n) /\ low \in Nat /\ n \in Nat
    BY <1>2, <1>5 DEF FinishMove
  <2> HIDE DEF low, n
  <2>2. EndsAs(AfterMove(job))
    BY <1>2, <2>1, FinishEditEnds DEF Edits
  <2> QED BY <1>5, <2>2 DEF FinishMove
<1> QED BY <1>3, <1>4, <1>5 DEF EditEnds

LEMMA RemoveCurrentTold ==
    ASSUME TypeInv, connected, links = 1, FinishRemoveCurrent
    PROVE  /\ Empties(Fallback) =>
                /\ \A now : Becomes(events', "currentIndexChanged", now, -1)
                /\ \A now : Becomes(events', "currentTrackChanged", now, None)
                /\ NoneOf(events, "playTrack") => NoneOf(events', "playTrack")
           /\ ~Empties(Fallback) =>
                \A kind \in Loud : \A now, v :
                    Becomes(events, kind, now, v) => Becomes(events', kind, now, v)
<1> DEFINE d == [kind |-> "dataChanged", items |-> Head(jobs).list,
                 start |-> Head(jobs).start, count |-> 1]
           i == [kind |-> "currentIndexChanged", index |-> -1]
           t == [kind |-> "currentTrackChanged", track |-> None]
           s == [kind |-> "stateChanged"]
<1>1. jobs # <<>> /\ Head(jobs).start \in Nat /\ events \in Seq(Event)
  BY HeadFields, TypeParts DEF FinishRemoveCurrent, Done
<1>2. d \in Event /\ i \in Event /\ t \in Event /\ s \in Event
  BY <1>1, Announced, EventsTyped DEF Index, Row
<1>3. /\ DataChanged(Head(jobs).start, 1) = <<d>> /\ IndexChanged(-1) = <<i>>
      /\ ToPlayer(t) = <<t>>
  BY OneSignal DEF DataChanged, IndexChanged
<1>4. /\ d.kind = "dataChanged" /\ s.kind = "stateChanged"
      /\ i.kind = "currentIndexChanged" /\ Told(i) = -1
      /\ t.kind = "currentTrackChanged" /\ Told(t) = None
  BY DEF Told
<1>5. CASE Empties(Fallback)
  <2> DEFINE a == events \o (IF playing = "Stopped" THEN <<>> ELSE <<s>>)
             b == a \o <<t>>
             c == b \o <<i>>
  <2>1. events' = c \o <<d>>
    BY <1>3, <1>5 DEF FinishRemoveCurrent
  <2>2. a \in Seq(Event) /\ (NoneOf(events, "playTrack") => NoneOf(a, "playTrack"))
    <3>1. CASE playing = "Stopped"
      <4>1. events \o <<>> = events
        BY <1>1
      <4> QED BY <1>1, <3>1, <4>1
    <3>2. CASE playing # "Stopped"
      <4>1. Adds(events, a, s)
        BY <1>1, <1>2, <3>2, AddsOne
      <4> HIDE DEF a, s
      <4> QED BY <1>4, <4>1 DEF Adds
    <3> QED BY <3>1, <3>2
  <2> HIDE DEF a, d, i, t, s
  <2>3. Adds(a, b, t)
    BY <1>2, <2>2, AddsOne
  <2>4. b \in Seq(Event)
    BY <2>3 DEF Adds
  <2> HIDE DEF b
  <2>5. Adds(b, c, i)
    BY <1>2, <2>4, AddsOne
  <2>6. c \in Seq(Event)
    BY <2>5 DEF Adds
  <2> HIDE DEF c
  <2>7. Adds(c, events', d)
    BY <1>2, <2>1, <2>6, AddsOne
  <2>8. /\ \A now : Becomes(b, "currentTrackChanged", now, None)
        /\ NoneOf(events, "playTrack") => NoneOf(b, "playTrack")
    BY <1>4, <2>2, <2>3 DEF Adds
  <2>9. /\ \A now : Becomes(c, "currentTrackChanged", now, None)
        /\ \A now : Becomes(c, "currentIndexChanged", now, -1)
        /\ NoneOf(events, "playTrack") => NoneOf(c, "playTrack")
    BY <1>4, <2>5, <2>8 DEF Adds
  <2>10. /\ \A now : Becomes(events', "currentTrackChanged", now, None)
         /\ \A now : Becomes(events', "currentIndexChanged", now, -1)
         /\ NoneOf(events, "playTrack") => NoneOf(events', "playTrack")
    BY <1>4, <2>7, <2>9 DEF Adds
  <2> QED BY <1>5, <2>10
<1>6. CASE ~Empties(Fallback)
  <2>1. events' = events \o <<d>>
    BY <1>3, <1>6 DEF FinishRemoveCurrent
  <2> HIDE DEF d
  <2>2. Adds(events, events', d)
    BY <1>1, <1>2, <2>1, AddsOne
  <2>3. \A kind \in Loud : kind # "dataChanged"
    BY DEF Loud
  <2>4. \A kind \in Loud : \A now, v :
            Becomes(events, kind, now, v) => Becomes(events', kind, now, v)
    BY <1>4, <2>2, <2>3 DEF Adds
  <2> QED BY <1>6, <2>4
<1> QED BY <1>5, <1>6

------------------------------------------------------------------------------
(* The index: what each step leaves of the jobs and of what is announced.    *)
IndexTells == Becomes(events, "currentIndexChanged", shownIndex, currentIndex)

LEMMA OrderedStays ==
    ASSUME TypeInv, JobsOrdered, UNCHANGED queue, NEW d, NEW x, JobsGo(d, x),
           \A p \in DOMAIN x :
               /\ ~x[p].done
               /\ x[p].kind = "SetIndex" => x[p].start < Size
               /\ x[p].kind \in Edits => p = Len(x),
           x # <<>> => \A p \in DOMAIN jobs : p > d => jobs[p].kind \notin Edits
    PROVE  JobsOrdered'
<1>1. /\ Origin(jobs, jobs', d, x)
      /\ DOMAIN jobs = 1 .. Len(jobs) /\ DOMAIN jobs' = 1 .. Len(jobs') /\ DOMAIN x = 1 .. Len(x)
      /\ Len(jobs) \in Nat /\ Len(x) \in Nat /\ Len(jobs') \in Nat /\ d \in {0, 1}
      /\ d <= Len(jobs) /\ Len(jobs') = Len(jobs) - d + Len(x)
  BY GoesFrom DEF JobsGo
<1>2. ASSUME NEW p \in DOMAIN jobs'
      PROVE  /\ jobs'[p].kind \in Edits => p = Len(jobs')
             /\ jobs'[p].kind = "SetIndex" =>
                  /\ jobs'[p].start < Size
                  /\ jobs'[p].done => /\ jobs'[p].list # <<>>
                                      /\ FromRow(queue, jobs'[p].list, jobs'[p].start)
  <2>1. CASE p + d \in DOMAIN jobs /\ jobs'[p] = jobs[p + d]
    <3>1. p + d > d
      BY <1>1
    <3>2. jobs'[p].kind \in Edits => p = Len(jobs')
      <4> SUFFICES ASSUME jobs[p + d].kind \in Edits PROVE p = Len(jobs')
        BY <2>1
      <4>1. x = <<>>
        BY <2>1, <3>1
      <4>2. Len(x) = 0
        BY <4>1
      <4>3. p + d = Len(jobs)
        BY <2>1 DEF JobsOrdered
      <4> QED BY <1>1, <4>2, <4>3
    <3> QED BY <2>1, <3>2 DEF JobsOrdered
  <2>2. CASE p - (Len(jobs) - d) \in DOMAIN x /\ jobs'[p] = x[p - (Len(jobs) - d)]
    <3> DEFINE r == p - (Len(jobs) - d)
    <3>1. r \in DOMAIN x /\ jobs'[p] = x[r] /\ (r = Len(x) => p = Len(jobs'))
      BY <1>1, <2>2
    <3> HIDE DEF r
    <3> QED BY <3>1
  <2> QED BY <1>1, <1>2, <2>1, <2>2 DEF Origin
<1>3. Size' = Size /\ queue' = queue
  BY DEF Size
<1> QED BY <1>2, <1>3 DEF JobsOrdered

LEMMA IndexKept ==
    ASSUME TypeInv, IndexFollows, UNCHANGED currentIndex, NEW d, NEW x, JobsGo(d, x),
           NoneOf(x, "SetIndex"), d = 1 => jobs[1].kind # "SetIndex", IndexTells => IndexTells'
    PROVE  IndexFollows'
<1>1. d \in {0, 1} /\ DOMAIN jobs = 1 .. Len(jobs) /\ DOMAIN jobs' = 1 .. Len(jobs')
  BY GoesFrom DEF JobsGo
<1>2. /\ NoneOf(jobs, "SetIndex") => NoneOf(jobs', "SetIndex")
      /\ \A p \in DOMAIN jobs : LastAt(jobs, "SetIndex", p) =>
           IF p <= d THEN NoneOf(jobs', "SetIndex")
                     ELSE LastAt(jobs', "SetIndex", p - d) /\ jobs'[p - d] = jobs[p]
  BY LastGoes DEF JobsGo
<1>3. ASSUME NEW p \in DOMAIN jobs, LastAt(jobs, "SetIndex", p), jobs[p].start = currentIndex
      PROVE  IndexFollows'
  <2>1. ~(p <= d)
    <3>1. SUFFICES ASSUME p <= d PROVE FALSE
      OBVIOUS
    <3>2. p = 1 /\ d = 1
      BY <1>1, <3>1
    <3> QED BY <1>3, <3>2 DEF LastAt
  <2>2. LastAt(jobs', "SetIndex", p - d) /\ jobs'[p - d] = jobs[p]
    BY <1>2, <1>3, <2>1
  <2>3. p - d \in DOMAIN jobs'
    BY <2>2 DEF LastAt
  <2> QED BY <1>3, <2>2, <2>3 DEF IndexFollows
<1>4. CASE NoneOf(jobs, "SetIndex") /\ IndexTells
  BY <1>2, <1>4 DEF IndexFollows, IndexTells
<1> QED BY <1>3, <1>4 DEF IndexFollows, IndexTells

\* An edit at the head is all the worker has to do.
LEMMA EditLast ==
    ASSUME TypeInv, JobsOrdered, jobs # <<>>, Head(jobs).kind \in Edits
    PROVE  Len(jobs) = 1 /\ NoneOf(jobs, "SetIndex") /\ Tail(jobs) = <<>>
<1>1. Head(jobs) = jobs[1] /\ 1 \in DOMAIN jobs /\ Len(jobs) \in Nat /\ jobs \in Seq(Job)
      /\ Tail(jobs) \in Seq(Job) /\ Len(Tail(jobs)) = Len(jobs) - 1
  BY HeadFields, TypeParts DEF JobsOK
<1>2. Len(jobs) = 1
  BY <1>1 DEF JobsOrdered
<1>3. \A p \in DOMAIN jobs : p = 1
  BY <1>1, <1>2
<1>4. NoneOf(jobs, "SetIndex")
  BY <1>1, <1>3 DEF NoneOf, Edits
<1>5. Tail(jobs) = <<>>
  <2>1. Len(Tail(jobs)) = 0
    BY <1>1, <1>2
  <2> QED BY <1>1, <2>1, EmptySeq
<1> QED BY <1>2, <1>4, <1>5

\* What was to become of a value still is: calm steps, and the worker's first one.
LEMMA CalmHears ==
    ASSUME TypeInv, CalmEvents, NEW kind \in Loud, NEW now, NEW v, Becomes(events, kind, now, v)
    PROVE  Becomes(events', kind, now, v)
<1>1. PICK c \in {0, 1}, y \in Seq(Event) :
          EventsGo(c, y) /\ Silent(y) /\ (c = 1 => Head(events).kind \notin Loud)
  BY DEF CalmEvents
<1>2. c = 1 => events[1].kind # kind
  <2>1. c <= Len(events) /\ Len(events) \in Nat /\ events \in Seq(Event)
    BY <1>1, GoesFrom, TypeParts DEF EventsGo
  <2>2. c = 1 => events # <<>>
    BY <2>1
  <2>3. c = 1 => Head(events) = events[1]
    BY <2>2, EventTaken
  <2> QED BY <1>1, <2>3
<1>3. NoneOf(y, kind)
  BY <1>1 DEF Silent, NoneOf
<1> QED BY <1>1, <1>2, <1>3, BecomesKept DEF EventsGo

LEMMA ExecuteHears ==
    ASSUME TypeInv, Execute, NEW kind \in Loud, NEW now, NEW v, Becomes(events, kind, now, v)
    PROVE  Becomes(events', kind, now, v)
<1>1. PICK y \in Seq(Event) :
          /\ EventsGo(0, y)
          /\ \A p \in DOMAIN y : y[p] = [kind |-> "countChanged", length |-> count']
  BY ExecuteAsks
<1> DEFINE c == 0
<1>2. EventsGo(c, y) /\ NoneOf(y, kind) /\ c # 1
  BY <1>1 DEF NoneOf, Loud
<1> HIDE DEF c
<1> QED BY <1>2, BecomesKept DEF EventsGo

LEMMA CalmIndex ==
    ASSUME TypeInv, IndexFollows, JobsOrdered, Calm
    PROVE  IndexFollows' /\ JobsOrdered'
<1>1. PICK d \in {0, 1}, x \in Seq(Job) :
          JobsGo(d, x) /\ Asked(x) /\ (d = 1 => Head(jobs).kind = "Select")
  BY DEF Calm, CalmJobs
<1>3. UNCHANGED <<currentIndex, shownIndex, queue>>
  BY DEF Calm, shownVars
<1>5. d = 1 => jobs[1].kind # "SetIndex"
  <2>1. d <= Len(jobs) /\ Len(jobs) \in Nat /\ jobs \in Seq(Job)
    BY <1>1, GoesFrom, TypeParts DEF JobsGo, JobsOK
  <2>2. d = 1 => jobs # <<>>
    BY <2>1
  <2>3. d = 1 => Head(jobs) = jobs[1]
    BY <2>2, HeadFields
  <2> QED BY <1>1, <2>3
<1>6. NoneOf(x, "SetIndex")
  BY <1>1 DEF NoneOf, Asked, Asks, Edits
<1>7. IndexTells => IndexTells'
  <2>1. "currentIndexChanged" \in Loud /\ CalmEvents
    BY DEF Loud, Calm
  <2> QED BY <1>3, <2>1, CalmHears DEF IndexTells
<1>8. IndexFollows'
  BY <1>1, <1>3, <1>5, <1>6, <1>7, IndexKept
<1>9. /\ x # <<>> => \A p \in DOMAIN jobs : p > d => jobs[p].kind \notin Edits
      /\ \A p \in DOMAIN x : x[p].kind \in Edits => p = Len(x)
  <2>1. ASSUME NEW p \in DOMAIN x PROVE p = Len(x)
    <3>1. Len(x) \in Nat /\ DOMAIN x = 1 .. Len(x) /\ x # <<>>
      BY <1>1
    <3> QED BY <1>1, <3>1 DEF Asked
  <2> QED BY <1>1, <2>1 DEF Asked, NoAsks, Asks
<1>10. JobsOrdered'
  BY <1>1, <1>3, <1>6, <1>9, OrderedStays DEF Asked, NoneOf
<1> QED BY <1>8, <1>10

LEMMA ChosenIndex ==
    ASSUME TypeInv, CountInv, JobsOrdered, NEW index, Chosen(index), "race" \notin off'
    PROVE  IndexFollows' /\ JobsOrdered'
<1> DEFINE x == <<SetIndexJob(index)>>  d == 0
<1>1. /\ index \in Nat /\ index < count /\ count \in Nat
      /\ SetIndexJob(index).kind = "SetIndex" /\ SetIndexJob(index).start = index
      /\ ~SetIndexJob(index).done /\ SetIndexJob(index) \in Job
  BY IndexJob DEF Chosen, Fresh
<1>2. /\ JobsGo(d, x) /\ currentIndex' = index /\ queue' = queue
      /\ \A p \in DOMAIN jobs : jobs[p].kind \notin Edits
  BY DEF Chosen, Pending
<1>3. /\ DOMAIN x = {1} /\ x[1] = SetIndexJob(index)
  OBVIOUS
<1> HIDE DEF x, d
<1>4. LastAt(x, "SetIndex", 1)
  BY <1>1, <1>3 DEF LastAt
<1>5. \E p \in DOMAIN jobs' : LastAt(jobs', "SetIndex", p) /\ jobs'[p] = x[1]
  BY <1>2, <1>4, LastAdded DEF JobsGo
<1>6. IndexFollows'
  BY <1>1, <1>2, <1>3, <1>5 DEF IndexFollows
<1>7. index < Size
  <2>1. Size \in Nat /\ count <= Size
    BY TypeInvFacts DEF CountInv
  <2> QED BY <1>1, <2>1
<1>8. \A p \in DOMAIN x : /\ ~x[p].done /\ x[p].start < Size
                          /\ x[p].kind \notin Edits
  BY <1>1, <1>3, <1>7 DEF Edits
<1>9. JobsOrdered'
  BY <1>2, <1>8, OrderedStays
<1> QED BY <1>6, <1>9

LEMMA ExecuteIndex ==
    ASSUME TypeInv, RowsNumbered, IndexFollows, JobsOrdered, Execute
    PROVE  IndexFollows' /\ JobsOrdered'
<1> DEFINE job == Head(jobs)
<1>1. /\ jobs # <<>> /\ job \in Job /\ jobs' \in Seq(Job) /\ Len(jobs') = Len(jobs)
      /\ DOMAIN jobs' = DOMAIN jobs /\ jobs'[1] = Carried(job) /\ queue' = Table(job)
      /\ \A p \in DOMAIN jobs : p > 1 => jobs'[p] = jobs[p]
  BY ExecuteFacts
<1>2. /\ job = jobs[1] /\ 1 \in DOMAIN jobs /\ DOMAIN jobs = 1 .. Len(jobs) /\ Len(jobs) \in Nat
      /\ \A p \in DOMAIN jobs : p > 1 => ~jobs[p].done
  BY <1>1, HeadFields, TypeParts DEF JobsOK
<1>3. /\ Carried(job).kind = job.kind /\ Carried(job).start = job.start
      /\ Carried(job).list = Result(job, queue')
  BY <1>1 DEF Carried, Job
<1>4. \A p \in DOMAIN jobs : jobs'[p].kind = jobs[p].kind /\ jobs'[p].start = jobs[p].start
  BY <1>1, <1>2, <1>3
<1>5. IndexTells => IndexTells'
  <2>1. UNCHANGED <<currentIndex, shownIndex>> /\ "currentIndexChanged" \in Loud
    BY DEF Execute, shownVars, Loud
  <2> QED BY <2>1, ExecuteHears DEF IndexTells
<1>6. IndexFollows'
  <2>1. currentIndex' = currentIndex
    BY DEF Execute
  <2>2. ASSUME NEW p \in DOMAIN jobs, LastAt(jobs, "SetIndex", p), jobs[p].start = currentIndex
        PROVE  IndexFollows'
    <3>1. LastAt(jobs', "SetIndex", p)
      BY <1>1, <1>4, <2>2 DEF LastAt
    <3> QED BY <1>1, <1>4, <2>1, <2>2, <3>1 DEF IndexFollows
  <2>3. NoneOf(jobs, "SetIndex") => NoneOf(jobs', "SetIndex")
    BY <1>1, <1>4 DEF NoneOf
  <2> QED BY <1>5, <2>2, <2>3 DEF IndexFollows, IndexTells
<1>7. ASSUME NEW p \in DOMAIN jobs, jobs[p].kind = "SetIndex"
      PROVE  /\ jobs'[p].start < Size'
             /\ jobs'[p].done => /\ jobs'[p].list # <<>>
                                 /\ FromRow(queue', jobs'[p].list, jobs'[p].start)
  <2>1. job.kind \notin Edits
    BY <1>1, <1>7, EditLast DEF NoneOf
  <2>2. queue' = queue /\ Size' = Size
    <3>1. queue' = queue
      BY <1>1, <2>1 DEF Table, Edits
    <3> QED BY <3>1 DEF Size
  <2>3. jobs'[p].start < Size'
    BY <1>4, <1>7, <2>2 DEF JobsOrdered
  <2>4. CASE p > 1
    BY <1>1, <1>2, <2>3, <2>4
  <2>5. CASE p = 1
    <3>1. Carried(job).list = Between(queue, job.start, job.start)
      BY <1>2, <1>3, <1>7, <2>2, <2>5 DEF Result
    <3>2. job.start \in Nat /\ job.start < Cardinality(DOMAIN queue) /\ IsTable(queue)
          /\ Gapless(queue)
      BY <1>1, <1>2, <1>7, <2>5, JobFields, TypeInvFacts
         DEF JobsOrdered, Size, RowsNumbered, Gapless
    <3>3. /\ Len(Carried(job).list) = 1
          /\ FromRow(queue, Carried(job).list, job.start)
      <4>1. job.start <= job.start /\ job.start - job.start + 1 = 1
        BY <3>2
      <4> QED BY <3>1, <3>2, <4>1, BetweenListed
    <3>4. Carried(job).list # <<>>
      BY <3>3
    <3> QED BY <1>1, <1>3, <2>2, <2>3, <2>5, <3>3, <3>4
  <2> QED BY <1>2, <2>4, <2>5
<1>8. JobsOrdered'
  BY <1>1, <1>4, <1>7 DEF JobsOrdered
<1> QED BY <1>6, <1>8

LEMMA SetIndexIndex ==
    ASSUME TypeInv, connected, links = 1, IndexFollows, JobsOrdered, FinishSetIndex
    PROVE  IndexFollows' /\ JobsOrdered'
<1> DEFINE d == 1  x == <<>>
<1>1. /\ jobs # <<>> /\ Head(jobs).done /\ Head(jobs).kind = "SetIndex"
      /\ Head(jobs) = jobs[1] /\ 1 \in DOMAIN jobs /\ jobs \in Seq(Job)
  BY HeadFields, TypeParts DEF FinishSetIndex, Done, JobsOK
<1>2. JobsGo(d, x) /\ d = 1 /\ x = <<>> /\ NoneOf(x, "SetIndex") /\ DOMAIN x = {}
  BY FinishSetIndexFacts DEF NoneOf
<1>3. UNCHANGED <<currentIndex, queue>>
  BY DEF FinishSetIndex
<1> HIDE DEF d, x
<1>4. jobs[1].list # <<>>
  BY <1>1 DEF JobsOrdered
<1>5. \A now : Becomes(events', "currentIndexChanged", now, jobs[1].start)
  BY <1>1, <1>4, SetIndexTold
<1>6. \A p \in DOMAIN jobs : LastAt(jobs, "SetIndex", p) =>
           IF p <= d THEN NoneOf(jobs', "SetIndex")
                     ELSE LastAt(jobs', "SetIndex", p - d) /\ jobs'[p - d] = jobs[p]
  BY <1>2, LastGoes DEF JobsGo
<1>7. PICK p \in DOMAIN jobs : LastAt(jobs, "SetIndex", p) /\ jobs[p].start = currentIndex
  BY <1>1 DEF IndexFollows, NoneOf
<1>8. IndexFollows'
  <2>1. CASE p <= d
    <3>1. p = 1
      BY <1>1, <1>2, <2>1
    <3> QED BY <1>3, <1>5, <1>6, <1>7, <2>1, <3>1 DEF IndexFollows
  <2>2. CASE ~(p <= d)
    <3>1. LastAt(jobs', "SetIndex", p - d) /\ jobs'[p - d] = jobs[p]
      BY <1>6, <1>7, <2>2
    <3>2. p - d \in DOMAIN jobs'
      BY <3>1 DEF LastAt
    <3> QED BY <1>3, <1>7, <3>1, <3>2 DEF IndexFollows
  <2> QED BY <2>1, <2>2
<1>9. JobsOrdered'
  BY <1>2, <1>3, OrderedStays
<1> QED BY <1>8, <1>9

LEMMA EndedIndex ==
    ASSUME TypeInv, IndexFollows, JobsOrdered, NEW index, EndsAs(index)
    PROVE  IndexFollows' /\ JobsOrdered'
<1>1. NoneOf(jobs, "SetIndex") /\ jobs' = <<>> /\ currentIndex' = index
      /\ shownIndex' = shownIndex
  BY EditLast DEF EndsAs, shownVars
<1>2. Becomes(events, "currentIndexChanged", shownIndex, currentIndex)
  BY <1>1 DEF IndexFollows, NoneOf, LastAt
<1>3. Becomes(events', "currentIndexChanged", shownIndex, index)
  BY <1>2 DEF EndsAs
<1>4. DOMAIN jobs' = {}
  BY <1>1
<1> QED BY <1>1, <1>3, <1>4 DEF IndexFollows, JobsOrdered, NoneOf

LEMMA RemovedIndex ==
    ASSUME TypeInv, CountInv, connected, links = 1, IndexFollows, JobsOrdered, FinishRemoveCurrent
    PROVE  IndexFollows' /\ JobsOrdered'
<1>1. /\ jobs # <<>> /\ Head(jobs).kind \in Edits /\ jobs' = Tail(jobs) \o FallbackJobs
      /\ currentIndex' = IF Sets(Fallback) \/ Empties(Fallback) THEN Fallback ELSE currentIndex
      /\ UNCHANGED <<shownVars, queue>>
  BY FinishRemoveCurrentFacts DEF Edits
<1>2. NoneOf(jobs, "SetIndex") /\ Tail(jobs) = <<>>
  BY <1>1, EditLast
<1>3. FallbackJobs \in Seq(Job)
  BY FallbackTyped
<1>4. jobs' = FallbackJobs
  BY <1>1, <1>2, <1>3, ConcatEmptySeq
<1>5. IndexTells
  BY <1>2 DEF IndexFollows, NoneOf, LastAt, IndexTells
<1>6. CASE Sets(Fallback)
  <2> DEFINE x == <<SetIndexJob(Fallback)>>
  <2>1. /\ Fallback \in Nat /\ Fallback < count /\ count \in Nat
        /\ SetIndexJob(Fallback).kind = "SetIndex" /\ SetIndexJob(Fallback).start = Fallback
        /\ ~SetIndexJob(Fallback).done
    BY <1>6, IndexJob DEF Fresh
  <2>2. Fallback < Size
    <3>1. Size \in Nat /\ count <= Size
      BY TypeInvFacts DEF CountInv
    <3> QED BY <2>1, <3>1
  <2>3. jobs' = x /\ currentIndex' = Fallback
    BY <1>1, <1>4, <1>6 DEF FallbackJobs
  <2>4. DOMAIN x = {1} /\ x[1] = SetIndexJob(Fallback)
    OBVIOUS
  <2>5. Size' = Size
    BY <1>1 DEF Size
  <2> HIDE DEF x
  <2>6. DOMAIN jobs' = {1} /\ jobs'[1] = SetIndexJob(Fallback)
    BY <2>3, <2>4
  <2>7. IndexFollows'
    BY <2>1, <2>3, <2>6 DEF IndexFollows, LastAt
  <2>8. JobsOrdered'
    BY <2>1, <2>2, <2>5, <2>6 DEF JobsOrdered, Edits
  <2> QED BY <2>7, <2>8
<1>7. CASE ~Sets(Fallback)
  <2>1. jobs' = <<>>
    BY <1>4, <1>7 DEF FallbackJobs
  <2>2. NoneOf(jobs', "SetIndex") /\ JobsOrdered'
    BY <2>1 DEF NoneOf, JobsOrdered
  <2>3. IndexTells'
    <3>1. CASE Empties(Fallback)
      <4>1. currentIndex' = -1
        BY <1>1, <3>1 DEF Empties
      <4> QED BY <3>1, <4>1, RemoveCurrentTold DEF IndexTells
    <3>2. CASE ~Empties(Fallback)
      <4>1. currentIndex' = currentIndex /\ shownIndex' = shownIndex
        BY <1>1, <1>7, <3>2 DEF shownVars
      <4>2. "currentIndexChanged" \in Loud
        BY DEF Loud
      <4> QED BY <1>5, <3>2, <4>1, <4>2, RemoveCurrentTold DEF IndexTells
    <3> QED BY <3>1, <3>2
  <2> QED BY <2>2, <2>3 DEF IndexFollows, IndexTells
<1> QED BY <1>6, <1>7

\* A signal heard is the value now; signals of another kind are still to come.
LEMMA HearBecomes ==
    ASSUME TypeInv, NEW heard, Hear(heard), NEW kind, NEW now, NEW v,
           Becomes(events, kind, now, v)
    PROVE  /\ heard = kind => Becomes(events', kind, Told(Head(events)), v)
           /\ heard # kind => Becomes(events', kind, now, v)
<1>1. /\ EventsGo(1, <<>>) /\ events[1].kind = heard /\ Head(events) = events[1]
  BY HeardGoes
<1>2. CASE heard = kind
  BY <1>1, <1>2, BecomesHeard DEF EventsGo
<1>3. CASE heard # kind
  <2> DEFINE c == 1  y == <<>>
  <2>1. EventsGo(c, y) /\ NoneOf(y, kind)
    BY <1>1 DEF NoneOf
  <2> HIDE DEF c, y
  <2> QED BY <1>1, <1>3, <2>1, BecomesKept DEF EventsGo
<1> QED BY <1>2, <1>3

LEMMA HeardIndex ==
    ASSUME TypeInv, IndexFollows, JobsOrdered,
           OnCurrentIndexChanged \/ OnCurrentTrackChanged \/ OnPlayTrack
    PROVE  IndexFollows' /\ JobsOrdered'
<1>1. UNCHANGED <<jobs, currentIndex, queue>>
  BY DEF OnCurrentIndexChanged, OnCurrentTrackChanged, OnPlayTrack, Hear
<1>2. JobsOrdered'
  BY <1>1 DEF JobsOrdered, Size
<1>3. IndexTells => IndexTells'
  <2>1. CASE OnCurrentIndexChanged
    <3>1. Hear("currentIndexChanged") /\ shownIndex' = Told(Head(events))
      BY <2>1 DEF OnCurrentIndexChanged, Told, Hear
    <3> QED BY <1>1, <3>1, HearBecomes DEF IndexTells
  <2>2. CASE OnCurrentTrackChanged
    <3>1. Hear("currentTrackChanged") /\ shownIndex' = shownIndex
      BY <2>2 DEF OnCurrentTrackChanged
    <3> QED BY <1>1, <3>1, HearBecomes DEF IndexTells
  <2>3. CASE OnPlayTrack
    <3>1. Hear("playTrack") /\ shownIndex' = shownIndex
      BY <2>3 DEF OnPlayTrack, shownVars
    <3> QED BY <1>1, <3>1, HearBecomes DEF IndexTells
  <2> QED BY <2>1, <2>2, <2>3
<1>4. IndexFollows'
  BY <1>1, <1>3 DEF IndexFollows, IndexTells
<1> QED BY <1>2, <1>4

LEMMA EmptiedIndex ==
    ASSUME Emptied, "race" \notin off'
    PROVE  IndexFollows' /\ JobsOrdered'
<1>1. jobs' = <<>> /\ events' = <<>> /\ currentIndex' = -1 /\ shownIndex' = -1
  BY DEF Emptied
<1>2. DOMAIN jobs' = {} /\ DOMAIN events' = {}
  BY <1>1
<1> QED BY <1>1, <1>2 DEF IndexFollows, JobsOrdered, NoneOf, Becomes

\* Nothing has been announced before the first connection.
LEMMA ConnectIndex ==
    ASSUME TypeInv, FreshInv, links = 0, Connect
    PROVE  /\ NoneOf(jobs', "SetIndex") /\ events' = <<>> /\ IndexFollows' /\ JobsOrdered'
           /\ currentIndex' = -1 /\ shownTrack' = None /\ media' = None /\ off' = off
<1>1. /\ jobs = <<>> /\ events = <<>> /\ currentIndex = -1 /\ shownIndex = -1
      /\ shownTrack = None /\ media = None
  BY DEF FreshInv
<1>2. UNCHANGED <<shownVars, media, currentIndex, events, off>>
  BY DEF Connect, mediaVars
<1> DEFINE x == Times(links + 1, SelectJob(0))
<1>3. JobsGo(0, x) /\ \A p \in DOMAIN x : x[p].kind = "Select"
  BY ConnectGoes
<1> HIDE DEF x
<1>4. \A p \in DOMAIN jobs' : jobs'[p].kind = "Select"
  <2>1. \A p \in DOMAIN jobs' : Has(jobs, jobs'[p]) \/ Has(x, jobs'[p])
    BY <1>3, GoesHas DEF JobsGo
  <2> QED BY <1>1, <1>3, <2>1 DEF Has
<1>5. NoneOf(jobs', "SetIndex")
  BY <1>4 DEF NoneOf
<1>6. DOMAIN events' = {}
  BY <1>1, <1>2
<1>7. IndexFollows'
  BY <1>1, <1>2, <1>5, <1>6 DEF IndexFollows, Becomes, NoneOf, shownVars
<1>8. JobsOrdered'
  BY <1>4 DEF JobsOrdered, Edits
<1> QED BY <1>1, <1>2, <1>5, <1>7, <1>8 DEF shownVars

------------------------------------------------------------------------------
\* What went on stays on record.
LEMMA OffGrows == ASSUME TypeInv, links = 1, PlayKinds PROVE off \subseteq off'
<1>1. CASE Connect \/ Disconnect \/ Calm \/ Execute \/ FinishSetIndex
  BY <1>1 DEF Connect, Disconnect, Calm, Execute, FinishSetIndex
<1>2. CASE (\E index : Chosen(index)) \/ Emptied
  BY <1>2 DEF Chosen, Emptied
<1>3. CASE EditEnds
  BY <1>3, EditEndsFacts
<1>4. CASE FinishRemoveCurrent
  BY <1>4 DEF FinishRemoveCurrent
<1>5. CASE OnCurrentIndexChanged \/ OnCurrentTrackChanged \/ OnPlayTrack
  BY <1>5 DEF OnCurrentIndexChanged, OnCurrentTrackChanged, OnPlayTrack, Hear
<1> QED BY <1>1, <1>2, <1>3, <1>4, <1>5 DEF PlayKinds

\* A step that leaves the player connected, by its only connection.
Going ==
    /\ connected /\ links = 1
    /\ \/ Calm \/ (\E index : Chosen(index)) \/ Emptied
       \/ Execute \/ FinishSetIndex \/ EditEnds \/ FinishRemoveCurrent
       \/ OnCurrentIndexChanged \/ OnCurrentTrackChanged \/ OnPlayTrack

LEMMA StepGoing ==
    ASSUME TypeInv, FreshInv, NumberInv, [Next]_vars, connected', links' <= 1
    PROVE  \/ links = 0 /\ Connect
           \/ Going /\ off \subseteq off'
<1>1. links' \in {0, 1} /\ links \in Nat
  BY LinksNat
<1>2. links' = 1
  <2>1. TypeInv'
    BY TypeStep
  <2>2. connected' => links' = identifier' /\ identifier' \in 1 .. MaxSession + 1
    BY <2>1 DEF TypeInv, TypeOK, Session
  <2> QED BY <1>1, <2>2, PlayerAssumption
<1>3. CASE links = 0
  BY <1>1, <1>2, <1>3, LinksGrow
<1>4. CASE links # 0
  <2>1. links = 1 /\ (Disconnect \/ UNCHANGED sessionVars)
    BY <1>1, <1>2, <1>4, LinksGrow
  <2>2. ~Disconnect
    BY DEF Disconnect
  <2>3. connected /\ ~Connect
    BY <2>1, <2>2 DEF sessionVars, Connect
  <2>4. PlayKinds
    BY <2>1, StepPlays DEF NumberInv
  <2> QED BY <2>1, <2>2, <2>3, <2>4, OffGrows DEF PlayKinds, Going
<1> QED BY <1>3, <1>4

LEMMA IndexStep ==
    ASSUME TypeInv, CountInv, FreshInv, NumberInv, IndexInv, [Next]_vars
    PROVE  IndexInv'
<1> SUFFICES ASSUME connected', links' <= 1, "race" \notin off'
             PROVE  IndexFollows' /\ JobsOrdered'
  BY DEF IndexInv
<1>1. CASE links = 0 /\ Connect
  BY <1>1, ConnectIndex
<1>2. CASE Going /\ off \subseteq off'
  <2>1. connected /\ links = 1 /\ IndexFollows /\ JobsOrdered /\ RowsNumbered
    BY <1>2 DEF Going, IndexInv, NumberInv
  <2>2. CASE Calm
    BY <2>1, <2>2, CalmIndex
  <2>3. CASE (\E index : Chosen(index)) \/ Emptied
    BY <2>1, <2>3, ChosenIndex, EmptiedIndex
  <2>4. CASE Execute
    BY <2>1, <2>4, ExecuteIndex
  <2>5. CASE FinishSetIndex
    BY <2>1, <2>5, SetIndexIndex
  <2>6. CASE EditEnds
    BY <2>1, <2>6, EditEndsFacts, EndedIndex
  <2>7. CASE FinishRemoveCurrent
    BY <2>1, <2>7, RemovedIndex
  <2>8. CASE OnCurrentIndexChanged \/ OnCurrentTrackChanged \/ OnPlayTrack
    BY <2>1, <2>8, HeardIndex
  <2> QED BY <1>2, <2>2, <2>3, <2>4, <2>5, <2>6, <2>7, <2>8 DEF Going
<1> QED BY <1>1, <1>2, StepGoing

------------------------------------------------------------------------------
(* The track: what is to be shown is what is to be played.                   *)
LEMMA HeardShows ==
    ASSUME TypeInv, NEW w, OnCurrentIndexChanged \/ OnCurrentTrackChanged \/ OnPlayTrack
    PROVE  /\ WillShow(w) => WillShow(w)'
           /\ WillPlay(w) => WillPlay(w)'
<1>1. CASE OnCurrentIndexChanged
  <2>1. Hear("currentIndexChanged") /\ shownTrack' = shownTrack /\ media' = media
    BY <1>1 DEF OnCurrentIndexChanged, mediaVars
  <2> QED BY <2>1, HearBecomes DEF WillShow, WillPlay
<1>2. CASE OnCurrentTrackChanged
  <2>1. Hear("currentTrackChanged") /\ shownTrack' = Told(Head(events)) /\ media' = media
    BY <1>2 DEF OnCurrentTrackChanged, mediaVars, Told, Hear
  <2> QED BY <2>1, HearBecomes DEF WillShow, WillPlay
<1>3. CASE OnPlayTrack
  <2>1. Hear("playTrack") /\ shownTrack' = shownTrack /\ media' = Told(Head(events))
    BY <1>3 DEF OnPlayTrack, shownVars, Told, Hear
  <2> QED BY <2>1, HearBecomes DEF WillShow, WillPlay
<1> QED BY <1>1, <1>2, <1>3

\* Steps that concern neither the player nor what it is told of tracks.
LEMMA OthersShow ==
    ASSUME TypeInv, NEW w, Calm \/ (\E index : Chosen(index)) \/ Execute
    PROVE  /\ WillShow(w) => WillShow(w)'
           /\ WillPlay(w) => WillPlay(w)'
           /\ shownTrack' = shownTrack
<1>1. "currentTrackChanged" \in Loud /\ "playTrack" \in Loud
  BY DEF Loud
<1>2. CASE Calm
  <2>1. CalmEvents /\ shownTrack' = shownTrack /\ media' = media
    BY <1>2 DEF Calm, shownVars
  <2> QED BY <1>1, <2>1, CalmHears DEF WillShow, WillPlay
<1>3. CASE \E index : Chosen(index)
  <2>1. events' = events /\ shownTrack' = shownTrack /\ media' = media
    BY <1>3 DEF Chosen, shownVars
  <2> QED BY <2>1 DEF WillShow, WillPlay
<1>4. CASE Execute
  <2>1. shownTrack' = shownTrack /\ media' = media
    BY <1>4 DEF Execute, shownVars, mediaVars
  <2> QED BY <1>1, <1>4, <2>1, ExecuteHears DEF WillShow, WillPlay
<1> QED BY <1>2, <1>3, <1>4

LEMMA EndedShows ==
    ASSUME NEW w, NEW index, EndsAs(index)
    PROVE  /\ WillShow(w) => WillShow(w)'
           /\ WillPlay(w) => WillPlay(w)'
<1>1. shownTrack' = shownTrack /\ media' = media
  BY DEF EndsAs, shownVars
<1>2. /\ Becomes(events, "currentTrackChanged", shownTrack, w)
            => Becomes(events', "currentTrackChanged", shownTrack, w)
      /\ Becomes(events, "playTrack", media, w) => Becomes(events', "playTrack", media, w)
  BY DEF EndsAs
<1> QED BY <1>1, <1>2 DEF WillShow, WillPlay

LEMMA RemovedShows ==
    ASSUME TypeInv, connected, links = 1, FinishRemoveCurrent
    PROVE  /\ Empties(Fallback) => WillShow(None)'
           /\ Empties(Fallback) /\ "race" \notin off' => WillPlay(None)'
           /\ ~Empties(Fallback) => \A w : /\ WillShow(w) => WillShow(w)'
                                           /\ WillPlay(w) => WillPlay(w)'
<1>1. "currentTrackChanged" \in Loud /\ "playTrack" \in Loud
  BY DEF Loud
<1>2. Empties(Fallback) => WillShow(None)'
  BY RemoveCurrentTold DEF WillShow
<1>3. ASSUME Empties(Fallback), "race" \notin off' PROVE WillPlay(None)'
  <2>1. ~Queued({"playTrack"})
    BY <1>3 DEF FinishRemoveCurrent
  <2>2. NoneOf(events, "playTrack")
    BY <2>1 DEF Queued, NoneOf
  <2>3. media' = None
    BY <1>3 DEF FinishRemoveCurrent
  <2> QED BY <1>3, <2>2, <2>3, RemoveCurrentTold DEF WillPlay, Becomes
<1>4. ASSUME ~Empties(Fallback), NEW w
      PROVE  (WillShow(w) => WillShow(w)') /\ (WillPlay(w) => WillPlay(w)')
  <2>1. shownTrack' = shownTrack /\ media' = media
    BY <1>4, FinishRemoveCurrentFacts DEF shownVars, mediaVars
  <2> QED BY <1>1, <1>4, <2>1, RemoveCurrentTold DEF WillShow, WillPlay
<1> QED BY <1>2, <1>3, <1>4

LEMMA EmptiedShows ==
    ASSUME Emptied, "race" \notin off'
    PROVE  WillShow(None)' /\ WillPlay(None)'
<1>1. events' = <<>> /\ shownTrack' = None /\ media' = None
  BY DEF Emptied
<1>2. DOMAIN events' = {}
  BY <1>1
<1> QED BY <1>1, <1>2 DEF WillShow, WillPlay, Becomes, NoneOf

LEMMA ConnectShows ==
    ASSUME TypeInv, FreshInv, links = 0, Connect
    PROVE  WillShow(None)' /\ WillPlay(None)'
<1>1. events' = <<>> /\ shownTrack' = None /\ media' = None
  BY ConnectIndex
<1>2. DOMAIN events' = {}
  BY <1>1
<1> QED BY <1>1, <1>2 DEF WillShow, WillPlay, Becomes, NoneOf

\* The index set is told with the track that has it.
LEMMA SetIndexShows ==
    ASSUME TypeInv, connected, links = 1, JobsOrdered, FinishSetIndex,
           NEW w, w = Head(jobs).list[1]
    PROVE  /\ w \in Row /\ WillShow(w)' /\ WillPlay(w)'
           /\ w \in DOMAIN queue /\ queue[w] = Head(jobs).start
<1> DEFINE job == Head(jobs)
<1>1. /\ jobs # <<>> /\ job.done /\ job.kind = "SetIndex" /\ job \in Job
      /\ job = jobs[1] /\ 1 \in DOMAIN jobs /\ job.list \in Seq(Track) /\ job.start \in Nat
  BY HeadFields DEF FinishSetIndex, Done
<1>2. job.list # <<>> /\ FromRow(queue, job.list, job.start)
  BY <1>1 DEF JobsOrdered
<1>3. 1 \in DOMAIN job.list /\ w \in Row
  BY <1>1, <1>2 DEF Row
<1>4. w \in DOMAIN queue /\ queue[w] = job.start
  BY <1>1, <1>2, <1>3 DEF FromRow
<1>5. /\ Becomes(events', "currentTrackChanged", shownTrack', w)
      /\ Becomes(events', "playTrack", media', w)
  BY <1>2, SetIndexTold
<1> QED BY <1>3, <1>4, <1>5 DEF WillShow, WillPlay

LEMMA TrackStep ==
    ASSUME TypeInv, FreshInv, NumberInv, IndexInv, TrackInv, [Next]_vars
    PROVE  TrackInv'
<1> SUFFICES ASSUME connected', links' <= 1, "race" \notin off'
             PROVE  \E w \in Row : WillShow(w)' /\ WillPlay(w)'
  BY DEF TrackInv, Row
<1>1. None \in Row
  BY DEF Row
<1>2. CASE links = 0 /\ Connect
  BY <1>1, <1>2, ConnectShows
<1>3. CASE Going /\ off \subseteq off'
  <2>1. connected /\ links = 1 /\ JobsOrdered
    BY <1>3 DEF Going, IndexInv
  <2>2. PICK w \in Row : WillShow(w) /\ WillPlay(w)
    BY <1>3, <2>1 DEF TrackInv
  <2>3. CASE Calm \/ (\E index : Chosen(index)) \/ Execute
    BY <2>2, <2>3, OthersShow
  <2>4. CASE Emptied
    BY <1>1, <2>4, EmptiedShows
  <2>5. CASE FinishSetIndex
    BY <2>1, <2>5, SetIndexShows
  <2>6. CASE EditEnds
    BY <2>1, <2>2, <2>6, EditEndsFacts, EndedShows
  <2>7. CASE FinishRemoveCurrent
    BY <1>1, <2>1, <2>2, <2>7, RemovedShows
  <2>8. CASE OnCurrentIndexChanged \/ OnCurrentTrackChanged \/ OnPlayTrack
    BY <2>2, <2>8, HeardShows
  <2> QED BY <1>3, <2>3, <2>4, <2>5, <2>6, <2>7, <2>8 DEF Going
<1> QED BY <1>2, <1>3, StepGoing

------------------------------------------------------------------------------
(* The row: the current index names the track that is to be shown.           *)
LEMMA NamedKept ==
    ASSUME UNCHANGED <<currentIndex, queue>>, Edited' <=> Edited,
           Edited => Head(jobs') = Head(jobs), NEW w, Named(w)
    PROVE  Named(w)'
<1>1. CASE Edited
  <2>1. /\ currentIndex' = currentIndex /\ queue' = queue /\ Head(jobs') = Head(jobs)
        /\ Size' = Size /\ Edited'
    BY <1>1 DEF Size
  <2>2. AfterEdit(Head(jobs))' = AfterEdit(Head(jobs))
    BY <2>1 DEF AfterEdit, AfterRemove
  <2> QED BY <1>1, <2>1, <2>2 DEF Named
<1>2. CASE ~Edited
  BY <1>2 DEF Named
<1> QED BY <1>1, <1>2

LEMMA CalmNames ==
    ASSUME TypeInv, Calm, NoneOf(jobs', "SetIndex")
    PROVE  /\ NoneOf(jobs, "SetIndex")
           /\ \A w : Named(w) => Named(w)'
<1>1. PICK d \in {0, 1}, x \in Seq(Job) :
          JobsGo(d, x) /\ Asked(x) /\ (d = 1 => Head(jobs).kind = "Select")
  BY DEF Calm, CalmJobs
<1>2. d = 1 => jobs[1].kind # "SetIndex"
  <2>1. d <= Len(jobs) /\ Len(jobs) \in Nat /\ jobs \in Seq(Job)
    BY <1>1, GoesFrom, TypeParts DEF JobsGo, JobsOK
  <2>2. d = 1 => jobs # <<>>
    BY <2>1
  <2>3. d = 1 => Head(jobs) = jobs[1]
    BY <2>2, HeadFields
  <2> QED BY <1>1, <2>3
<1>3. NoneOf(jobs, "SetIndex")
  <2>1. /\ \A p \in DOMAIN jobs : p > d => p - d \in DOMAIN jobs' /\ jobs'[p - d] = jobs[p]
        /\ DOMAIN jobs = 1 .. Len(jobs) /\ Len(jobs) \in Nat
    BY <1>1, GoesFrom DEF JobsGo, Origin
  <2>2. ASSUME NEW p \in DOMAIN jobs PROVE jobs[p].kind # "SetIndex"
    <3>1. CASE p > d
      BY <2>1, <3>1 DEF NoneOf
    <3>2. CASE ~(p > d)
      <4>1. p = 1 /\ d = 1
        BY <2>1, <3>2
      <4> QED BY <1>2, <4>1
    <3> QED BY <3>1, <3>2
  <2> QED BY <2>2 DEF NoneOf
<1>4. (Edited' <=> Edited) /\ (Edited => Head(jobs') = Head(jobs))
  BY <1>1, HeadKept DEF Asked, Edits
<1>5. UNCHANGED <<currentIndex, queue>>
  BY DEF Calm
<1> QED BY <1>3, <1>4, <1>5, NamedKept

\* Where an edit takes the row of a track that stays.
LEMMA TableRows ==
    ASSUME TypeInv, RowsNumbered, NEW job \in Job, job.kind \in Edits,
           InRange(job, Size), NewTracks(job), NEW t \in DOMAIN queue,
           queue[t] = currentIndex, job.kind = "Remove" => job.start # currentIndex
    PROVE  t \in DOMAIN Table(job) /\ Table(job)[t] = AfterEdit(job)
<1>1. /\ IsTable(queue) /\ Gapless(queue) /\ job.start \in Nat /\ job.count \in Nat
      /\ job.tracks \in Seq(Track) /\ queue[t] \in Nat
      /\ Size = Cardinality(DOMAIN queue)
  BY JobFields, TypeInvFacts DEF RowsNumbered, Gapless, IsTable, Size
<1>2. CASE job.kind = "Insert"
  <2>1. Table(job) = Inserted(queue, job.start, job.tracks)
    BY <1>2 DEF Table
  <2>2. Widened(queue, Table(job), job.start, job.tracks)
    BY <1>1, <2>1, PutIn
  <2>3. AfterEdit(job) = IF job.start <= currentIndex THEN currentIndex + Len(job.tracks)
                         ELSE currentIndex
    BY <1>2 DEF AfterEdit
  <2> QED BY <1>1, <2>2, <2>3 DEF Widened
<1>3. CASE job.kind = "Remove"
  <2>1. Table(job) = Removed(queue, job.start) /\ job.start # currentIndex
    BY <1>3 DEF Table
  <2>2. AfterEdit(job) = IF job.start < currentIndex THEN currentIndex - 1 ELSE currentIndex
    BY <1>3 DEF AfterEdit, AfterRemove
  <2> QED BY <1>1, <2>1, <2>2 DEF Removed
<1>4. CASE job.kind = "Move"
  <2>1. Table(job) = Moved(queue, job.start, job.count)
    BY <1>4 DEF Table
  <2>2. /\ DOMAIN Table(job) = DOMAIN queue
        /\ Table(job)[t] = NewRow(queue[t], job.start, job.count)
    <3> DEFINE from == job.start  to == job.count  moved == Moved(queue, from, to)
    <3>1. /\ from \in Nat /\ to \in Nat /\ from # to
          /\ from < Cardinality(DOMAIN queue) /\ to < Cardinality(DOMAIN queue)
      BY <1>1, <1>4 DEF InRange
    <3> HIDE DEF from, to
    <3>2. /\ DOMAIN moved = DOMAIN queue
          /\ \A u \in DOMAIN queue : moved[u] = NewRow(queue[u], from, to)
      BY <1>1, <3>1, MovedTable, MovedGapless
    <3>3. Table(job) = moved
      BY <2>1 DEF from, to
    <3> HIDE DEF moved
    <3>4. Table(job)[t] = NewRow(queue[t], from, to)
      BY <3>2, <3>3
    <3> QED BY <3>2, <3>3, <3>4 DEF from, to
  <2>3. AfterEdit(job) = IF currentIndex = job.start THEN job.count
                  ELSE IF job.start < currentIndex /\ job.count >= currentIndex
                       THEN currentIndex - 1
                  ELSE IF job.start > currentIndex /\ job.count <= currentIndex
                       THEN currentIndex + 1 ELSE currentIndex
    BY <1>4 DEF AfterEdit
  <2>4. AfterEdit(job) = NewRow(queue[t], job.start, job.count)
    BY <1>1, <2>3 DEF NewRow
  <2> QED BY <2>2, <2>4
<1> QED BY <1>2, <1>3, <1>4 DEF Edits

LEMMA ExecuteNames ==
    ASSUME TypeInv, EditsInv, RowsNumbered, Execute, NEW w, Named(w)
    PROVE  Named(w)'
<1> DEFINE job == Head(jobs)
<1>1. /\ jobs # <<>> /\ job \in Job /\ ~job.done /\ queue' = Table(job)
      /\ jobs' # <<>> /\ Head(jobs') = Carried(job)
  BY ExecuteFacts
<1>2. /\ Carried(job).kind = job.kind /\ Carried(job).start = job.start
      /\ Carried(job).count = job.count /\ Carried(job).tracks = job.tracks
      /\ Carried(job).done
  BY <1>1 DEF Carried, Job
<1>3. currentIndex' = currentIndex /\ ~Edited /\ (Edited' <=> job.kind \in Edits)
  BY <1>1, <1>2 DEF Execute, Edited, Worked
<1>4. \/ currentIndex = -1 /\ w = None
      \/ w \in DOMAIN queue /\ queue[w] = currentIndex
  BY <1>3 DEF Named
<1>5. InRange(job, Size) /\ NewTracks(job) /\ job = jobs[1]
  BY <1>1, HeadFields DEF EditsInv
<1>6. CASE job.kind \notin Edits
  <2>1. queue' = queue
    BY <1>1, <1>6 DEF Table, Edits
  <2> QED BY <1>3, <1>4, <1>6, <2>1 DEF Named
<1>7. CASE job.kind \in Edits
  <2> DEFINE c == Carried(job)
  <2>1. /\ c.kind = job.kind /\ c.start = job.start /\ c.count = job.count
        /\ c.tracks = job.tracks /\ Head(jobs') = c
    BY <1>1, <1>2
  <2>2. AfterEdit(job) = AfterEdit(c)
    <3> HIDE DEF c, job
    <3> QED BY <2>1 DEF AfterEdit, AfterRemove
  <2>3. AfterEdit(c) = AfterEdit(Head(jobs))'
    <3> HIDE DEF c
    <3> QED BY <1>3, <2>1 DEF AfterEdit, AfterRemove
  <2>4. job.kind = "Insert" => job.tracks # <<>>
    BY <1>5 DEF NewTracks
  <2>5. CASE currentIndex = -1 /\ w = None
    BY <1>3, <1>7, <2>5 DEF Named
  <2>6. CASE /\ w \in DOMAIN queue /\ queue[w] = currentIndex
             /\ job.kind = "Remove" => job.start # currentIndex
    <3>1. w \in DOMAIN queue' /\ queue'[w] = AfterEdit(job)
      BY <1>1, <1>5, <1>7, <2>6, TableRows
    <3>2. currentIndex' # -1
      <4>1. currentIndex \in Nat
        BY <2>6, TypeInvFacts DEF IsTable
      <4> QED BY <1>3, <4>1
    <3> HIDE DEF c, job
    <3>3. queue'[w] = AfterEdit(Head(jobs))' /\ Edited'
      BY <1>3, <1>7, <2>2, <2>3, <3>1
    <3>4. Head(jobs').kind = "Insert" => Head(jobs').tracks # <<>>
      BY <2>1, <2>4
    <3> QED BY <3>1, <3>2, <3>3, <3>4 DEF Named
  <2>7. CASE /\ w \in DOMAIN queue /\ queue[w] = currentIndex
             /\ job.kind = "Remove" /\ job.start = currentIndex
    <3>1. /\ IsTable(queue) /\ Gapless(queue) /\ Size = Cardinality(DOMAIN queue) /\ Size \in Nat
          /\ job.start \in Nat /\ job.start < Size
      BY <1>1, <1>5, <2>7, JobFields, TypeInvFacts DEF RowsNumbered, Gapless, Size, InRange
    <3>2. queue' = Removed(queue, job.start)
      BY <1>1, <2>7 DEF Table
    <3>3. Size' = Size - 1
      BY <3>1, <3>2, TakenOutGapless DEF Size
    <3>4. currentIndex' \in 0 .. Size'
      BY <1>3, <2>7, <3>1, <3>3
    <3> QED BY <1>3, <1>7, <2>1, <2>7, <3>4 DEF Named
  <2> QED BY <1>4, <2>5, <2>6, <2>7
<1> QED BY <1>6, <1>7

\* The edits that the current index is right about.
LEMMA AfterRight ==
    ASSUME TypeInv, jobs # <<>>, EditEnds, NEW index, EndsAs(index), off' = {}, NEW w, Named(w)
    PROVE  \/ index = -1 /\ w = None
           \/ w \in DOMAIN queue /\ queue[w] = index
<1> DEFINE job == Head(jobs)
<1>1. /\ job.kind \in Edits /\ job.done /\ job.start \in Nat /\ job.count \in Nat
      /\ job.tracks \in Seq(Track) /\ currentIndex \in Nat \cup {-1} /\ index = currentIndex'
  BY HeadFields, TypeParts DEF EndsAs, Index
<1>2. Edited
  BY <1>1 DEF Edited, Worked
<1>3. \/ currentIndex = -1 /\ w = None
      \/ /\ currentIndex # -1 /\ w \in DOMAIN queue /\ queue[w] = AfterEdit(job)
         /\ job.kind = "Insert" => job.tracks # <<>>
      \/ job.kind = "Remove" /\ job.start = currentIndex
  BY <1>2 DEF Named
<1>4. CASE FinishInsert
  <2>1. index = AfterInsert(job) /\ job.kind = "Insert"
        /\ ~(job.start <= currentIndex /\ Len(job.tracks) > 1)
    BY <1>1, <1>4 DEF FinishInsert, FinishEdit, Done
  <2>2. index = IF job.start <= currentIndex THEN currentIndex + 1 ELSE currentIndex
    BY <2>1 DEF AfterInsert
  <2>3. AfterEdit(job) = IF job.start <= currentIndex THEN currentIndex + Len(job.tracks)
                         ELSE currentIndex
    BY <2>1 DEF AfterEdit
  <2>4. job.tracks # <<>> => Len(job.tracks) \in Nat \ {0}
    BY <1>1
  <2> HIDE DEF job
  <2> QED BY <1>1, <1>3, <2>1, <2>2, <2>3, <2>4
<1>5. CASE FinishRemove
  <2>1. index = AfterRemove(job) /\ job.kind = "Remove" /\ job.start # currentIndex
    BY <1>1, <1>5 DEF FinishRemove, FinishEdit, Done
  <2>2. index = IF job.start < currentIndex THEN currentIndex - 1 ELSE currentIndex
    BY <2>1 DEF AfterRemove
  <2>3. AfterEdit(job) = index
    BY <2>1 DEF AfterEdit
  <2> HIDE DEF job
  <2> QED BY <1>1, <1>3, <2>1, <2>2, <2>3
<1>6. CASE FinishMove
  <2>1. index = AfterMove(job) /\ job.kind = "Move"
        /\ ~(job.start = currentIndex /\ job.count \notin {job.start - 1, job.start + 1})
        /\ ~(job.count = currentIndex /\ job.start > job.count)
    BY <1>1, <1>6 DEF FinishMove, FinishEdit, Done
  <2>2. AfterEdit(job) = IF currentIndex = job.start THEN job.count
                  ELSE IF job.start < currentIndex /\ job.count >= currentIndex
                       THEN currentIndex - 1
                  ELSE IF job.start > currentIndex /\ job.count <= currentIndex
                       THEN currentIndex + 1 ELSE currentIndex
    BY <2>1 DEF AfterEdit
  <2> HIDE DEF job
  <2>3. index = IF \/ job.start < currentIndex /\ job.count >= currentIndex
                   \/ job.start = currentIndex /\ job.count < job.start THEN currentIndex - 1
                ELSE IF \/ job.start > currentIndex /\ job.count < currentIndex
                        \/ job.start = currentIndex /\ job.count > job.start THEN currentIndex + 1
                ELSE currentIndex
    BY <1>1, <2>1 DEF AfterMove
  <2>4. currentIndex = -1 => index = -1
    BY <1>1, <2>3
  <2>5. AfterEdit(job) = index
    BY <1>1, <2>1, <2>2, <2>3
  <2> QED BY <1>1, <1>3, <2>1, <2>4, <2>5
<1> QED BY <1>4, <1>5, <1>6 DEF EditEnds

LEMMA EndedNames ==
    ASSUME TypeInv, JobsOrdered, EditEnds, NEW index, EndsAs(index), off' = {}, NEW w, Named(w)
    PROVE  Named(w)'
<1>1. jobs # <<>> /\ jobs' = <<>> /\ currentIndex' = index /\ queue' = queue
  BY EditLast DEF EndsAs
<1>2. ~Edited'
  BY <1>1 DEF Edited, Worked
<1> QED BY <1>1, <1>2, AfterRight DEF Named

LEMMA RemovedNames ==
    ASSUME TypeInv, CountInv, RowsNumbered, JobsOrdered, FinishRemoveCurrent, off' = {},
           NoneOf(jobs', "SetIndex"), NEW w, Named(w)
    PROVE  Empties(Fallback) /\ Named(None)'
<1> DEFINE job == Head(jobs)
<1>1. /\ jobs # <<>> /\ job.done /\ job.kind = "Remove" /\ job.start = currentIndex
      /\ currentIndex \in Nat /\ jobs' = Tail(jobs) \o FallbackJobs /\ queue' = queue
      /\ currentIndex' = IF Sets(Fallback) \/ Empties(Fallback) THEN Fallback ELSE currentIndex
  BY FinishRemoveCurrentFacts
<1>2. Edited /\ count = Size /\ Size \in Nat
  BY <1>1, TypeInvFacts DEF Edited, Worked, Edits, CountInv
<1>3. jobs' = FallbackJobs
  <2>1. Tail(jobs) = <<>> /\ FallbackJobs \in Seq(Job)
    BY <1>1, EditLast, FallbackTyped DEF Edits
  <2> QED BY <1>1, <2>1, ConcatEmptySeq
<1>4. ~Sets(Fallback)
  <2> SUFFICES ASSUME Sets(Fallback) PROVE FALSE
    OBVIOUS
  <2>1. jobs' = <<SetIndexJob(Fallback)>> /\ SetIndexJob(Fallback).kind = "SetIndex"
    BY <1>3, IndexJob DEF FallbackJobs, Fresh
  <2>2. 1 \in DOMAIN jobs' /\ jobs'[1] = SetIndexJob(Fallback)
    BY <2>1
  <2> QED BY <2>1, <2>2 DEF NoneOf
<1>5. currentIndex <= Size
  <2>1. CASE currentIndex \in 0 .. Size
    BY <1>1, <1>2, <2>1
  <2>2. CASE w \in DOMAIN queue /\ queue[w] = AfterEdit(job)
    <3>1. AfterEdit(job) = currentIndex
      BY <1>1 DEF AfterEdit, AfterRemove
    <3>2. queue[w] \in 0 .. Size - 1
      <4>1. IsTable(queue) /\ Gapless(queue)
        BY TypeInvFacts DEF RowsNumbered, Gapless
      <4> QED BY <2>2, <4>1, RowsListed DEF Size
    <3> QED BY <1>1, <1>2, <2>2, <3>1, <3>2
  <2> QED BY <1>1, <1>2, <2>1, <2>2 DEF Named
<1>6. ~(currentIndex = 0 /\ count \in 1 .. 2)
  BY DEF FinishRemoveCurrent
<1>7. Fallback = -1 /\ count = 0
  <2>1. CASE currentIndex = 0
    <3>1. count > 2 \/ count = 0
      BY <1>2, <1>6, <2>1
    <3>2. CASE count > 2
      <4>1. Fallback = 1
        BY <2>1, <3>2 DEF Fallback
      <4> QED BY <1>2, <1>4, <2>1, <3>2, <4>1 DEF Sets
    <3>3. CASE count = 0
      BY <2>1, <3>3 DEF Fallback
    <3> QED BY <3>1, <3>2, <3>3
  <2>2. CASE currentIndex # 0
    <3>1. Fallback = currentIndex - 1
      BY <2>2 DEF Fallback
    <3>2. Sets(Fallback)
      BY <1>1, <1>2, <1>5, <2>2, <3>1 DEF Sets
    <3> QED BY <1>4, <3>2
  <2> QED BY <2>1, <2>2
<1>8. Empties(Fallback)
  BY <1>1, <1>7 DEF Empties
<1>9. currentIndex' = -1
  BY <1>1, <1>7, <1>8
<1>10. ~Edited'
  <2>1. jobs' = <<>>
    BY <1>3, <1>4 DEF FallbackJobs
  <2> QED BY <2>1 DEF Edited, Worked
<1> QED BY <1>8, <1>9, <1>10 DEF Named

LEMMA SetIndexNames ==
    ASSUME TypeInv, connected, links = 1, IndexFollows, JobsOrdered, FinishSetIndex,
           NoneOf(jobs', "SetIndex"), NEW w, w = Head(jobs).list[1]
    PROVE  Named(w)'
<1> DEFINE d == 1  x == <<>>
<1>1. /\ jobs # <<>> /\ Head(jobs).done /\ Head(jobs).kind = "SetIndex"
      /\ Head(jobs) = jobs[1] /\ 1 \in DOMAIN jobs /\ jobs \in Seq(Job)
      /\ jobs' = Tail(jobs) /\ Tail(jobs) \in Seq(Job)
      /\ \A p \in DOMAIN Tail(jobs) : ~Tail(jobs)[p].done
  BY HeadFields, TypeParts DEF FinishSetIndex, Done, JobsOK
<1>2. JobsGo(d, x) /\ NoneOf(x, "SetIndex") /\ d = 1
  BY FinishSetIndexFacts DEF NoneOf
<1>3. UNCHANGED <<currentIndex, queue>>
  BY DEF FinishSetIndex
<1> HIDE DEF d, x
<1>4. \A p \in DOMAIN jobs : LastAt(jobs, "SetIndex", p) =>
           IF p <= d THEN NoneOf(jobs', "SetIndex")
                     ELSE LastAt(jobs', "SetIndex", p - d) /\ jobs'[p - d] = jobs[p]
  BY <1>2, LastGoes DEF JobsGo
<1>5. PICK p \in DOMAIN jobs : LastAt(jobs, "SetIndex", p) /\ jobs[p].start = currentIndex
  BY <1>1 DEF IndexFollows, NoneOf
<1>6. p = 1
  <2>1. p <= d
    BY <1>4, <1>5 DEF LastAt, NoneOf
  <2> QED BY <1>1, <1>2, <2>1
<1>7. w \in DOMAIN queue /\ queue[w] = currentIndex
  BY <1>1, <1>5, <1>6, SetIndexShows
<1>8. ~Edited'
  <2> SUFFICES ASSUME Edited' PROVE FALSE
    OBVIOUS
  <2>1. Tail(jobs) # <<>> /\ Head(Tail(jobs)).done
    BY <1>1 DEF Edited, Worked
  <2>2. 1 \in DOMAIN Tail(jobs) /\ Head(Tail(jobs)) = Tail(jobs)[1]
    BY <1>1, <2>1
  <2> QED BY <1>1, <2>1, <2>2
<1> QED BY <1>3, <1>7, <1>8 DEF Named

LEMMA NameStep ==
    ASSUME TypeInv, CountInv, FreshInv, NumberInv, IndexInv, NameInv, [Next]_vars
    PROVE  NameInv'
<1> SUFFICES ASSUME connected', links' <= 1, off' = {}, NoneOf(jobs', "SetIndex")
             PROVE  \E w \in Row : WillShow(w)' /\ Named(w)'
  BY DEF NameInv, Row
<1>1. None \in Row
  BY DEF Row
<1>2. CASE links = 0 /\ Connect
  <2>1. currentIndex' = -1 /\ WillShow(None)'
    BY <1>2, ConnectIndex, ConnectShows
  <2>2. ~Edited'
    <3>1. jobs = <<>>
      BY <1>2 DEF FreshInv
    <3> DEFINE d == 0  x == Times(links + 1, SelectJob(0))
    <3>2. JobsGo(d, x) /\ \A p \in DOMAIN x : ~x[p].done
      BY <1>2, ConnectGoes
    <3> HIDE DEF d, x
    <3>3. jobs' # <<>> => ~Head(jobs').done
      BY <3>1, <3>2, HeadAfter
    <3> QED BY <3>3 DEF Edited, Worked
  <2> QED BY <1>1, <2>1, <2>2 DEF Named
<1>3. CASE Going /\ off \subseteq off'
  <2>1. /\ connected /\ links = 1 /\ IndexFollows /\ JobsOrdered
        /\ EditsInv /\ RowsNumbered /\ "race" \notin off'
    BY <1>3 DEF Going, IndexInv, NumberInv
  <2>2. ASSUME NoneOf(jobs, "SetIndex") PROVE \E w \in Row : WillShow(w) /\ Named(w)
    BY <1>3, <2>1, <2>2 DEF NameInv
  <2>3. CASE Calm
    BY <2>2, <2>3, CalmNames, OthersShow
  <2>4. CASE \E index : Chosen(index)
    <3>1. PICK index : Chosen(index)
      BY <2>4
    <3> DEFINE x == <<SetIndexJob(index)>>  d == 0
    <3>2. JobsGo(d, x) /\ 1 \in DOMAIN x /\ x[1].kind = "SetIndex"
      BY <3>1, IndexJob DEF Chosen, Fresh
    <3> HIDE DEF x, d
    <3>3. Has(jobs', x[1])
      BY <3>2, GoesHas DEF JobsGo
    <3> QED BY <3>2, <3>3 DEF Has, NoneOf
  <2>5. CASE Emptied
    <3>1. currentIndex' = -1 /\ jobs' = <<>>
      BY <2>1, <2>5 DEF Emptied
    <3>2. ~Edited'
      BY <3>1 DEF Edited, Worked
    <3> QED BY <1>1, <2>1, <2>5, <3>1, <3>2, EmptiedShows DEF Named
  <2>6. CASE Execute
    <3>1. NoneOf(jobs, "SetIndex")
      BY <2>6, ExecuteAsks DEF NoneOf
    <3> QED BY <2>1, <2>2, <2>6, <3>1, ExecuteNames, OthersShow
  <2>7. CASE FinishSetIndex
    <3>1. PICK w : w = Head(jobs).list[1]
      OBVIOUS
    <3>2. w \in Row /\ WillShow(w)'
      BY <2>1, <2>7, <3>1, SetIndexShows
    <3>3. Named(w)'
      BY <2>1, <2>7, <3>1, SetIndexNames
    <3> QED BY <3>2, <3>3
  <2>8. CASE EditEnds
    <3>1. PICK index : EndsAs(index)
      BY <2>1, <2>8, EditEndsFacts
    <3>2. NoneOf(jobs, "SetIndex")
      BY <2>1, <3>1, EditLast DEF EndsAs
    <3>3. PICK w \in Row : WillShow(w) /\ Named(w)
      BY <2>2, <3>2
    <3> QED BY <2>1, <2>8, <3>1, <3>3, EndedShows, EndedNames
  <2>9. CASE FinishRemoveCurrent
    <3>1. NoneOf(jobs, "SetIndex")
      BY <2>1, <2>9, EditLast, FinishRemoveCurrentFacts DEF Edits
    <3>2. PICK w \in Row : WillShow(w) /\ Named(w)
      BY <2>2, <3>1
    <3>3. Empties(Fallback) /\ Named(None)'
      BY <2>1, <2>9, <3>2, RemovedNames
    <3> QED BY <1>1, <2>1, <2>9, <3>3, RemovedShows
  <2>10. CASE OnCurrentIndexChanged \/ OnCurrentTrackChanged \/ OnPlayTrack
    <3>1. UNCHANGED <<currentIndex, queue>> /\ UNCHANGED jobs
      BY <2>10 DEF OnCurrentIndexChanged, OnCurrentTrackChanged, OnPlayTrack, Hear
    <3>2. (Edited' <=> Edited) /\ Head(jobs') = Head(jobs) /\ NoneOf(jobs, "SetIndex")
      BY <3>1 DEF Edited, Worked
    <3> QED BY <2>2, <2>10, <3>1, <3>2, HeardShows, NamedKept
  <2> QED BY <1>3, <2>3, <2>4, <2>5, <2>6, <2>7, <2>8, <2>9, <2>10 DEF Going
<1> QED BY <1>2, <1>3, StepGoing

------------------------------------------------------------------------------
AgreeInv ==
    /\ ListInv /\ CountInv /\ IndexInv /\ TrackInv /\ NameInv /\ GoingInv /\ StateInv

LEMMA InitAgrees ==
    ASSUME Init
    PROVE  AgreeInv
<1>1. ListInv
  BY InitList
<1>2. /\ ~connected /\ count = 0 /\ jobs = <<>> /\ requested = "Stopped" /\ playing = "Stopped"
  BY DEF Init
<1>3. CountInv
  <2>1. Size \in Nat
    BY <1>1, TypeInvFacts DEF ListInv
  <2> QED BY <1>2, <2>1 DEF CountInv, Worked
<1>4. IndexInv /\ TrackInv /\ NameInv
  BY <1>2 DEF IndexInv, TrackInv, NameInv
<1>5. GoingInv /\ StateInv
  BY <1>2 DEF GoingInv, StateInv, ModeAndStateShown
<1> QED BY <1>1, <1>3, <1>4, <1>5 DEF AgreeInv

LEMMA AgreeStep == ASSUME AgreeInv, [Next]_vars PROVE AgreeInv'
<1>1. TypeInv /\ FreshInv /\ NumberInv /\ ViewInv
  BY DEF AgreeInv, ListInv
<1>2. ListInv'
  BY <1>1, TypeStep, FreshStep, NumberStep, ViewStep DEF ListInv
<1>3. CountInv'
  BY <1>1, CountStep DEF AgreeInv
<1>4. IndexInv'
  BY <1>1, IndexStep DEF AgreeInv
<1>5. TrackInv'
  BY <1>1, TrackStep DEF AgreeInv
<1>6. NameInv'
  BY <1>1, NameStep DEF AgreeInv
<1>7. GoingInv' /\ StateInv'
  BY <1>1, GoingStep, StateStep DEF AgreeInv
<1> QED BY <1>2, <1>3, <1>4, <1>5, <1>6, <1>7 DEF AgreeInv

\* Nothing under way: what is to become of a value is the value.
LEMMA AllHeard ==
    ASSUME events = <<>>, NEW kind, NEW now, NEW v, Becomes(events, kind, now, v)
    PROVE  now = v
<1>1. DOMAIN events = {}
  OBVIOUS
<1> QED BY <1>1 DEF Becomes

LEMMA NamedShown ==
    ASSUME TypeInv, RowsNumbered, jobs = <<>>, NEW w, Named(w), shownTrack = w
    PROVE  IF currentIndex = -1 THEN shownTrack = None
           ELSE /\ currentIndex < Cardinality(DOMAIN queue)
                /\ shownTrack = Rows(queue)[currentIndex + 1]
<1>1. ~Edited
  BY DEF Edited, Worked
<1>2. \/ currentIndex = -1 /\ w = None
      \/ w \in DOMAIN queue /\ queue[w] = currentIndex
  BY <1>1 DEF Named
<1>3. IsTable(queue) /\ Gapless(queue)
  BY TypeInvFacts DEF RowsNumbered, Gapless
<1>4. CASE currentIndex = -1 /\ w = None
  BY <1>4
<1>5. CASE w \in DOMAIN queue /\ queue[w] = currentIndex
  <2> DEFINE n == Cardinality(DOMAIN queue)  rows == Rows(queue)
  <2>1. /\ rows \in Seq(Track) /\ Len(rows) = n /\ FromRow(queue, rows, 0)
        /\ currentIndex \in 0 .. n - 1 /\ n \in Nat
    BY <1>3, <1>5, RowsListed, TypeInvFacts DEF Size
  <2>2. currentIndex + 1 \in DOMAIN rows
    BY <2>1
  <2>3. /\ rows[currentIndex + 1] \in DOMAIN queue
        /\ queue[rows[currentIndex + 1]] = 0 + (currentIndex + 1) - 1
    BY <2>1, <2>2 DEF FromRow
  <2>4. queue[rows[currentIndex + 1]] = queue[w]
    BY <1>5, <2>1, <2>3
  <2>5. rows[currentIndex + 1] = w
    BY <1>3, <1>5, <2>3, <2>4 DEF IsTable, NoRowTwice
  <2> QED BY <2>1, <2>5
<1> QED BY <1>2, <1>4, <1>5

LEMMA AgreeShows ==
    ASSUME AgreeInv, links <= 1
    PROVE  PlayerAgrees
<1>1. TypeInv /\ NumberInv
  BY DEF AgreeInv, ListInv
<1>2. IndexAgrees
  <2> SUFFICES ASSUME jobs = <<>>, events = <<>>, connected, "race" \notin off
               PROVE  shownIndex = currentIndex
    BY DEF IndexAgrees, Settled
  <2>1. IndexFollows
    BY DEF AgreeInv, IndexInv
  <2>2. DOMAIN jobs = {}
    OBVIOUS
  <2>3. Becomes(events, "currentIndexChanged", shownIndex, currentIndex)
    BY <2>1, <2>2 DEF IndexFollows
  <2> QED BY <2>3, AllHeard
<1>3. TrackAtIndex
  <2> SUFFICES ASSUME jobs = <<>>, events = <<>>, connected, off = {}
               PROVE  IF currentIndex = -1 THEN shownTrack = None
                      ELSE /\ currentIndex < Cardinality(DOMAIN queue)
                           /\ shownTrack = Rows(queue)[currentIndex + 1]
    BY DEF TrackAtIndex, Settled
  <2>1. NoneOf(jobs, "SetIndex")
    BY DEF NoneOf
  <2>2. PICK w \in Row : WillShow(w) /\ Named(w)
    BY <2>1 DEF AgreeInv, NameInv
  <2>3. shownTrack = w
    BY <2>2, AllHeard DEF WillShow
  <2> QED BY <1>1, <2>2, <2>3, NamedShown DEF NumberInv
<1>4. PlaysWhatIsShown
  <2> SUFFICES ASSUME jobs = <<>>, events = <<>>, connected, "race" \notin off
               PROVE  media = shownTrack
    BY DEF PlaysWhatIsShown, Settled
  <2>1. PICK w \in Row : WillShow(w) /\ WillPlay(w)
    BY DEF AgreeInv, TrackInv
  <2>2. shownTrack = w /\ media = w
    BY <2>1, AllHeard DEF WillShow, WillPlay
  <2> QED BY <2>2
<1>5. KeepsPlaying
  BY DEF AgreeInv, GoingInv, KeepsPlaying, Settled
<1>6. ModeAndStateShown
  BY DEF AgreeInv, StateInv
<1> QED BY <1>2, <1>3, <1>4, <1>5, <1>6 DEF PlayerAgrees

(* Index, track, mode and state come to agree: whatever the user, the worker  *)
(* and QMediaPlayer do, once all jobs are done and all signals heard the play *)
(* queue shows the simulator's index, the current track is the one in that    *)
(* row and the one being played, what the user wants to hear goes on, and the *)
(* player shows its mode and state, until a second connection announces       *)
(* everything twice (see off for the races and miscounts set apart).         *)
THEOREM PlayerAgreesAlways == Spec => [](links <= 1 => PlayerAgrees)
<1>1. Init => AgreeInv
  BY InitAgrees
<1>2. AgreeInv /\ [Next]_vars => AgreeInv'
  BY AgreeStep
<1>3. AgreeInv => (links <= 1 => PlayerAgrees)
  BY AgreeShows
<1> QED BY <1>1, <1>2, <1>3, PTL DEF Spec
==============================================================================
