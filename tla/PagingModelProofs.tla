-------------------------- MODULE PagingModelProofs --------------------------
(***************************************************************************)
(* Theorems about PagingModel for any items, chunk sizes and edits.        *)
(***************************************************************************)
EXTENDS PagingModel, SequenceTheorems, TLAPS

Row == Items \cup {Blank}

(* The types, but for the range of the chunk bits, which depends on how the  *)
(* caller tunes the chunk size.  An announced change that has more items     *)
(* than it replaces replaces none: onDataChanged() reads past the list       *)
(* otherwise.                                                                *)
Sized(s) == s.kind = "dataChanged" => s.count = 0 \/ Len(s.items) <= s.count

SignalsTyped == signals \in Seq(Signal) /\ \A i \in DOMAIN signals : Sized(signals[i])

Typed ==
    /\ identifier \in Nat \ {0}
    /\ itemList \in Seq(Row)
    /\ fetchedCount \in Nat /\ chunkCount \in Nat
    /\ chunkSize \in Nat \ {0}
    /\ requests \in Seq(Request)
    /\ SignalsTyped
    /\ content \in Seq(Items)

LEMMA AddSignals ==
    ASSUME SignalsTyped, NEW more \in Seq(Signal),
           \A i \in DOMAIN more : Sized(more[i]),
           signals' = signals \o more
    PROVE  SignalsTyped'
<1>1. /\ signals' \in Seq(Signal)
      /\ Len(signals') = Len(signals) + Len(more)
      /\ \A i \in 1..Len(signals) + Len(more) :
            signals'[i] = IF i <= Len(signals) THEN signals[i] ELSE more[i - Len(signals)]
    BY ConcatProperties DEF SignalsTyped
<1>2. Len(signals) \in Nat /\ Len(more) \in Nat
    BY DEF SignalsTyped
<1>3. ASSUME NEW i \in DOMAIN signals' PROVE Sized(signals'[i])
  <2>1. i \in 1..Len(signals) + Len(more)
      BY <1>1
  <2>2. CASE i <= Len(signals)
      BY <1>1, <2>1, <2>2 DEF SignalsTyped
  <2>3. CASE ~(i <= Len(signals))
    <3>1. i - Len(signals) \in DOMAIN more
        BY <1>2, <2>1, <2>3
    <3> QED BY <1>1, <2>1, <2>3, <3>1
  <2> QED BY <2>2, <2>3
<1> QED BY <1>1, <1>3 DEF SignalsTyped

LEMMA AddSignal ==
    ASSUME SignalsTyped, NEW s \in Signal, Sized(s), signals' = Append(signals, s)
    PROVE  SignalsTyped'
<1>1. signals' = signals \o <<s>>
    BY AppendIsConcat DEF SignalsTyped
<1>2. <<s>> \in Seq(Signal) /\ \A i \in DOMAIN <<s>> : Sized(<<s>>[i])
  <2> HIDE DEF Sized, Signal
  <2> QED OBVIOUS
<1> QED BY <1>1, <1>2, AddSignals

\* The signal at the head is typed, and so are those behind it.
LEMMA TakeSignal ==
    ASSUME SignalsTyped, signals # <<>>
    PROVE  /\ Head(signals) \in Signal /\ Sized(Head(signals))
           /\ signals' = Tail(signals) => SignalsTyped'
<1>1. /\ Head(signals) \in Signal /\ Head(signals) = signals[1]
      /\ Tail(signals) \in Seq(Signal)
      /\ Len(Tail(signals)) = Len(signals) - 1
      /\ \A i \in 1..Len(Tail(signals)) : Tail(signals)[i] = signals[i + 1]
    BY HeadTailProperties DEF SignalsTyped
<1>2. Len(signals) \in Nat \ {0}
    BY EmptySeq DEF SignalsTyped
<1> QED BY <1>1, <1>2 DEF SignalsTyped

------------------------------------------------------------------------------
(* Rows.                                                                     *)

LEMMA Slice ==
    ASSUME NEW S, NEW s \in Seq(S), NEW m \in Nat \ {0}, NEW n \in Int, n <= Len(s)
    PROVE  /\ SubSeq(s, m, n) \in Seq(S)
           /\ Len(SubSeq(s, m, n)) = IF m <= n THEN n - m + 1 ELSE 0
<1>1. \A i \in m..n : s[i] \in S
    BY ElementOfSeq
<1> QED BY <1>1, SubSeqProperties

LEMMA SurvivorsTyped ==
    ASSUME NEW S, NEW list \in Seq(S), NEW first \in Nat, NEW count \in Nat,
           first <= Len(list)
    PROVE  Survivors(list, first, count) \in Seq(S)
<1> DEFINE others == (Len(list) - first + 1) \div 2
           gone == IF count < others THEN count ELSE others
           Old(i) == IF i <= first THEN i
                     ELSE IF i <= first + count THEN 2 * i - first ELSE i + count
<1>1. Len(list) \in Nat
    BY LenProperties
<1>2. /\ others \in Nat /\ 2 * others <= Len(list) - first + 1
      /\ Len(list) - first <= 2 * others
    BY <1>1
<1> HIDE DEF others
<1>3. gone \in Nat /\ Len(list) - gone \in Nat
    BY <1>1, <1>2
<1>4. ASSUME NEW i \in 1..Len(list) - gone PROVE Old(i) \in 1..Len(list)
    BY <1>1, <1>2, <1>3
<1>5. \A i \in 1..Len(list) - gone : list[Old(i)] \in S
    BY <1>4, ElementOfSeq
<1>6. [i \in 1..Len(list) - gone |-> list[Old(i)]] \in Seq(S)
  <2> HIDE DEF gone, Old
  <2> QED BY <1>3, <1>5, IsASeq
<1> QED BY <1>6 DEF Survivors, others

(* What onDataChanged() makes of a list that covers the change. *)
LEMMA ChangedRowsTyped ==
    ASSUME itemList \in Seq(Row), NEW data \in Seq(Row), NEW start \in Nat,
           NEW count \in Nat, start + count <= Len(itemList),
           count = 0 \/ Len(data) <= count
    PROVE  ChangedRows(data, start, count) \in Seq(Row)
<1> DEFINE overlap == IF Len(data) < count THEN Len(data) ELSE count
           rest == start + (IF overlap > 0 THEN overlap + 1 ELSE 0)
           At(i) == IF i > start /\ i <= start + overlap THEN data[i - start]
                                                         ELSE itemList[i]
           updated == [i \in DOMAIN itemList |-> At(i)]
           more == SubSeq(data, rest - start + 1, rest - start + Len(data) - overlap)
           tail == SubSeq(updated, rest + 1, Len(updated))
<1>0. ChangedRows(data, start, count) =
          CASE Len(data) < count -> Survivors(updated, rest, count - Len(data))
            [] Len(data) = count -> updated
            [] Len(data) > count -> SubSeq(updated, 1, rest) \o more \o tail
    BY DEF ChangedRows
<1>1. Len(itemList) \in Nat /\ Len(data) \in Nat /\ DOMAIN itemList = 1..Len(itemList)
    BY LenProperties
<1>2. \A i \in 1..Len(itemList) : At(i) \in Row
    BY <1>1, ElementOfSeq
<1>3. updated \in Seq(Row) /\ Len(updated) = Len(itemList)
  <2>1. [i \in 1..Len(itemList) |-> At(i)] \in Seq(Row)
    <3> HIDE DEF At
    <3> QED BY <1>1, <1>2, IsASeq
  <2> HIDE DEF At
  <2> QED BY <1>1, <2>1
<1>4. CASE Len(data) < count
  <2>1. rest \in Nat /\ rest <= Len(itemList) /\ count - Len(data) \in Nat
      BY <1>1, <1>4
  <2>2. Survivors(updated, rest, count - Len(data)) \in Seq(Row)
    <3> HIDE DEF updated, rest
    <3> QED BY <1>3, <2>1, SurvivorsTyped
  <2> HIDE DEF updated, rest, more, tail
  <2> QED BY <1>0, <1>4, <2>2
<1>5. CASE Len(data) = count
  <2> HIDE DEF updated, rest, more, tail
  <2> QED BY <1>0, <1>1, <1>3, <1>5
<1>6. CASE Len(data) > count
  <2>1. count = 0 /\ overlap = 0 /\ rest = start
      BY <1>1, <1>6
  <2>2. SubSeq(data, 1, Len(data)) = data
      BY SubSeqFull
  <2>3. more = data
    <3>1. rest - start + 1 = 1 /\ rest - start + Len(data) - overlap = Len(data)
        BY <1>1, <2>1
    <3> HIDE DEF rest, overlap
    <3> QED BY <2>2, <3>1
  <2>4. SubSeq(updated, 1, rest) \in Seq(Row) /\ tail \in Seq(Row)
    <3>1. rest \in Nat /\ rest <= Len(updated) /\ Len(updated) \in Nat
        BY <1>1, <1>3, <2>1
    <3> HIDE DEF updated, rest
    <3> QED BY <1>3, <3>1, Slice
  <2>5. SubSeq(updated, 1, rest) \o more \o tail \in Seq(Row)
    <3> HIDE DEF updated, rest, more, tail
    <3> QED BY <2>3, <2>4, ConcatProperties
  <2> HIDE DEF updated, rest, more, tail
  <2> QED BY <1>0, <1>1, <1>6, <2>5
<1> QED BY <1>1, <1>4, <1>5, <1>6

\* The list with an edit applied, and what is where in it.
Edited(list, data, start, count) ==
    SubSeq(list, 1, start) \o data \o SubSeq(list, start + count + 1, Len(list))

RightlyEdited(list, data, start, count, i) ==
    Edited(list, data, start, count)[i] =
        IF i <= start THEN list[i]
        ELSE IF i <= start + Len(data) THEN data[i - start]
        ELSE list[i - Len(data) + count]

LEMMA EditedAt ==
    ASSUME NEW S, NEW list \in Seq(S), NEW data \in Seq(S), NEW start \in Nat,
           NEW count \in Nat, start + count <= Len(list)
    PROVE  /\ Edited(list, data, start, count) \in Seq(S)
           /\ Len(Edited(list, data, start, count)) = Len(list) - count + Len(data)
           /\ \A i \in 1..Len(list) - count + Len(data) :
                 RightlyEdited(list, data, start, count, i)
<1> DEFINE low == SubSeq(list, 1, start)
           high == SubSeq(list, start + count + 1, Len(list))
<1>1. Len(list) \in Nat /\ Len(data) \in Nat
    BY LenProperties
<1>2. /\ low \in Seq(S) /\ Len(low) = start
      /\ \A i \in 1..start : low[i] = list[i]
  <2>1. \A i \in 1..start : list[i] \in S
      BY <1>1, ElementOfSeq
  <2>2. start \in Int
      OBVIOUS
  <2> QED BY <1>1, <2>1, <2>2, SubSeqProperties
<1>3. /\ high \in Seq(S) /\ Len(high) = Len(list) - start - count
      /\ \A i \in 1..Len(list) - start - count : high[i] = list[start + count + i]
  <2> DEFINE from == start + count + 1
  <2>1. from \in Nat /\ from > 0 /\ Len(list) \in Int
      BY <1>1
  <2>2. \A i \in from..Len(list) : list[i] \in S
      BY <1>1, <2>1, ElementOfSeq
  <2>3. /\ SubSeq(list, from, Len(list)) \in Seq(S)
        /\ Len(SubSeq(list, from, Len(list))) =
               IF from <= Len(list) THEN Len(list) - from + 1 ELSE 0
        /\ \A i \in 1..Len(list) - from + 1 :
              SubSeq(list, from, Len(list))[i] = list[from + i - 1]
    <3> HIDE DEF from
    <3> QED BY <2>1, <2>2, SubSeqProperties
  <2> QED BY <1>1, <2>3
<1> HIDE DEF low, high
<1>4. /\ low \o data \in Seq(S) /\ Len(low \o data) = start + Len(data)
      /\ \A i \in 1..start + Len(data) :
            (low \o data)[i] = IF i <= start THEN low[i] ELSE data[i - start]
    BY <1>1, <1>2, ConcatProperties
<1> DEFINE lower == low \o data
<1> HIDE DEF lower
<1>5. /\ lower \o high \in Seq(S)
      /\ Len(lower \o high) = Len(lower) + Len(high)
      /\ \A i \in 1..Len(lower) + Len(high) :
            (lower \o high)[i] = IF i <= Len(lower) THEN lower[i] ELSE high[i - Len(lower)]
  <2>1. lower \in Seq(S) /\ high \in Seq(S)
      BY <1>3, <1>4 DEF lower
  <2> QED BY <2>1, ConcatProperties
<1>6. Edited(list, data, start, count) = lower \o high
    BY DEF Edited, low, high, lower
<1>7. Len(lower) = start + Len(data) /\ Len(lower) + Len(high) = Len(list) - count + Len(data)
    BY <1>1, <1>3, <1>4 DEF lower
<1>8. ASSUME NEW i \in 1..Len(list) - count + Len(data)
      PROVE  (lower \o high)[i] = IF i <= start THEN list[i]
                                  ELSE IF i <= start + Len(data) THEN data[i - start]
                                  ELSE list[i - Len(data) + count]
  <2>1. (lower \o high)[i] = IF i <= start + Len(data) THEN lower[i]
                             ELSE high[i - (start + Len(data))]
      BY <1>5, <1>7
  <2>2. CASE i <= start + Len(data)
      BY <1>1, <1>2, <1>4, <2>1, <2>2 DEF lower
  <2>3. CASE ~(i <= start + Len(data))
    <3> DEFINE k == i - (start + Len(data))
    <3>1. k \in 1..Len(list) - start - count /\ start + count + k = i - Len(data) + count
          /\ ~(i <= start)
        BY <1>1, <2>3
    <3> HIDE DEF k
    <3>2. high[k] = list[start + count + k]
        BY <1>3, <3>1
    <3> QED BY <2>1, <2>3, <3>1, <3>2 DEF k
  <2> QED BY <2>2, <2>3
<1> QED BY <1>5, <1>6, <1>7, <1>8 DEF RightlyEdited

(* An edit that replaces rows one for one, inserts some or takes one out is  *)
(* applied by onDataChanged() as it is meant.                                *)
LEMMA EditApplied ==
    ASSUME itemList \in Seq(Row), NEW data \in Seq(Row), NEW start \in Nat,
           NEW count \in Nat, start + count <= Len(itemList),
           Len(data) = count \/ count = 0 \/ (data = <<>> /\ count = 1)
    PROVE  ChangedRows(data, start, count) = Edited(itemList, data, start, count)
<1> DEFINE n == Len(itemList)
           overlap == IF Len(data) < count THEN Len(data) ELSE count
           rest == start + (IF overlap > 0 THEN overlap + 1 ELSE 0)
           At(i) == IF i > start /\ i <= start + overlap THEN data[i - start]
                                                         ELSE itemList[i]
           updated == [i \in DOMAIN itemList |-> At(i)]
           more == SubSeq(data, rest - start + 1, rest - start + Len(data) - overlap)
           tail == SubSeq(updated, rest + 1, Len(updated))
           edited == Edited(itemList, data, start, count)
<1>0. ChangedRows(data, start, count) =
          CASE Len(data) < count -> Survivors(updated, rest, count - Len(data))
            [] Len(data) = count -> updated
            [] Len(data) > count -> SubSeq(updated, 1, rest) \o more \o tail
    BY DEF ChangedRows
<1>1. /\ n \in Nat /\ Len(data) \in Nat /\ DOMAIN itemList = 1..n
      /\ start + count <= n
      /\ edited \in Seq(Row) /\ Len(edited) = n - count + Len(data)
      /\ DOMAIN edited = 1..n - count + Len(data)
      /\ \A i \in 1..n - count + Len(data) :
            edited[i] = IF i <= start THEN itemList[i]
                        ELSE IF i <= start + Len(data) THEN data[i - start]
                        ELSE itemList[i - Len(data) + count]
  <2>1. n \in Nat /\ Len(data) \in Nat /\ DOMAIN itemList = 1..n
      BY LenProperties
  <2>2. /\ Edited(itemList, data, start, count) \in Seq(Row)
        /\ Len(Edited(itemList, data, start, count))
               = Len(itemList) - count + Len(data)
        /\ \A i \in 1..Len(itemList) - count + Len(data) :
              RightlyEdited(itemList, data, start, count, i)
    <3> HIDE DEF n, edited
    <3> QED BY EditedAt
  <2> HIDE DEF edited
  <2>3. DOMAIN edited = 1..Len(edited)
      BY <2>2, LenProperties
  <2> QED BY <2>1, <2>2, <2>3 DEF edited, RightlyEdited
<1> HIDE DEF edited
<1>2. CASE Len(data) = count
  <2>1. DOMAIN edited = DOMAIN itemList
      BY <1>1, <1>2
  <2>2. \A i \in DOMAIN itemList : edited[i] = At(i)
      BY <1>1, <1>2
  <2>3. edited = updated
    <3> HIDE DEF At
    <3>1. edited = [i \in 1..n - count + Len(data) |-> edited[i]]
        BY <1>1, LenProperties
    <3> QED BY <1>1, <1>2, <2>1, <2>2, <3>1
  <2> HIDE DEF updated, rest, more, tail
  <2> QED BY <1>0, <1>1, <1>2, <2>3 DEF edited
<1>3. ASSUME count = 0 \/ data = <<>>
      PROVE  updated = itemList
  <2>1. overlap = 0
      BY <1>1, <1>3
  <2>2. \A i \in 1..n : At(i) = itemList[i]
      BY <1>1, <2>1
  <2>3. itemList = [i \in 1..n |-> itemList[i]]
      BY LenProperties
  <2> HIDE DEF At
  <2> QED BY <1>1, <2>2, <2>3
<1>4. CASE count = 0 /\ Len(data) > 0
  <2>1. overlap = 0 /\ rest = start
      BY <1>1, <1>4
  <2>2. more = data
    <3>1. rest - start + 1 = 1 /\ rest - start + Len(data) - overlap = Len(data)
        BY <1>1, <2>1
    <3> HIDE DEF rest, overlap
    <3> QED BY <3>1, SubSeqFull
  <2>3. tail = SubSeq(itemList, start + count + 1, Len(itemList))
    <3>1. rest + 1 = start + count + 1 /\ updated = itemList
        BY <1>3, <1>4, <2>1
    <3> HIDE DEF rest, updated
    <3> QED BY <3>1
  <2>4. SubSeq(updated, 1, rest) = SubSeq(itemList, 1, start)
    <3>1. updated = itemList
        BY <1>3, <1>4
    <3> HIDE DEF rest, updated
    <3> QED BY <2>1, <3>1
  <2> HIDE DEF updated, rest, more, tail
  <2>5. ChangedRows(data, start, count) = SubSeq(updated, 1, rest) \o more \o tail
    <3>1. Len(data) > count /\ ~(Len(data) < count) /\ Len(data) # count
        BY <1>1, <1>4
    <3> QED BY <1>0, <3>1
  <2> QED BY <2>2, <2>3, <2>4, <2>5 DEF Edited, edited
<1>5. CASE data = <<>> /\ count = 1
  <2>1. Len(data) = 0 /\ overlap = 0 /\ rest = start /\ count - Len(data) = 1
      BY <1>5
  <2>2. updated = itemList
      BY <1>3, <1>5
  <2>3. ChangedRows(data, start, count) = Survivors(itemList, start, 1)
    <3> HIDE DEF updated, rest, more, tail
    <3> QED BY <1>0, <1>5, <2>1, <2>2
  <2> DEFINE others == (n - start + 1) \div 2
             gone == IF 1 < others THEN 1 ELSE others
             Old(i) == IF i <= start THEN i
                       ELSE IF i <= start + 1 THEN 2 * i - start ELSE i + 1
  <2>4. Survivors(itemList, start, 1) = [i \in 1..n - gone |-> itemList[Old(i)]]
      BY DEF Survivors
  <2>5. others >= 1 /\ others \in Nat
      BY <1>1, <1>5
  <2>6. gone = 1
    <3> HIDE DEF others
    <3> QED BY <2>5
  <2>7. \A i \in 1..n - 1 : edited[i] = itemList[Old(i)]
    <3>1. \A i \in 1..n - 1 : edited[i] = itemList[IF i <= start THEN i ELSE i + 1]
        BY <1>1, <1>5, <2>1
    <3>2. \A i \in 1..n - 1 : Old(i) = IF i <= start THEN i ELSE i + 1
        BY <1>1
    <3> HIDE DEF Old
    <3> QED BY <3>1, <3>2
  <2>8. edited = [i \in 1..n - 1 |-> edited[i]]
    <3>1. n - count + Len(data) = n - 1
        BY <1>1, <1>5, <2>1
    <3>2. edited = [i \in DOMAIN edited |-> edited[i]]
        BY <1>1, LenProperties
    <3> QED BY <1>1, <3>1, <3>2
  <2>9. [i \in 1..n - 1 |-> edited[i]] = [i \in 1..n - gone |-> itemList[Old(i)]]
    <3> HIDE DEF Old, gone
    <3> QED BY <2>6, <2>7
  <2> HIDE DEF gone, Old
  <2> QED BY <2>3, <2>4, <2>8, <2>9 DEF edited
<1> QED BY <1>1, <1>2, <1>4, <1>5

------------------------------------------------------------------------------
(* The types hold in every state.                                            *)

LEMMA AddRequests ==
    ASSUME requests \in Seq(Request), NEW more \in Seq(Request)
    PROVE  requests \o more \in Seq(Request)
    BY ConcatProperties

LEMMA FetchRequestTyped ==
    ASSUME Typed, NEW start \in Nat
    PROVE  FetchRequest(start) \in Request
    BY DEF Typed, FetchRequest, Request

LEMMA FirstFetchTyped ==
    ASSUME Typed
    PROVE  FirstFetch \in Seq(Request)
<1>1. FetchRequest(0) \in Request
    BY FetchRequestTyped
<1>2. <<FetchRequest(0)>> \in Seq(Request) /\ <<>> \in Seq(Request)
  <2> HIDE DEF Request
  <2> QED BY <1>1
<1> QED BY <1>2 DEF FirstFetch

LEMMA ResetTyped ==
    ASSUME Typed, NEW before \in Seq(Request), ResetModel(before)
    PROVE  /\ itemList' \in Seq(Row) /\ fetchedCount' \in Nat /\ chunkCount' \in Nat
           /\ requests' \in Seq(Request)
<1>1. requests \o before \in Seq(Request)
    BY AddRequests DEF Typed
<1>2. requests \o before \o FirstFetch \in Seq(Request)
    BY <1>1, FirstFetchTyped, ConcatProperties
<1> QED BY <1>2, EmptySeq DEF ResetModel

\* fetchData() for a row that is there or the next one
LEMMA FetchTyped ==
    ASSUME Typed, NEW start \in Nat, FetchData(start),
           UNCHANGED <<sessionVars, settingVars, signals, backendVars>>
    PROVE  Typed'
<1>1. requests' \in Seq(Request)
    BY FetchRequestTyped, AppendProperties DEF Typed, FetchData
<1> QED BY <1>1 DEF Typed, SignalsTyped, FetchData, sessionVars, settingVars, backendVars

LEMMA InitTyped == Init => Typed
<1>1. <<>> \in Seq(Row) /\ <<>> \in Seq(Request) /\ <<>> \in Seq(Signal) /\ Len(<<>>) = 0
    BY EmptySeq
<1>2. DefaultChunkSize \in Nat \ {0} /\ InitialContent \in Seq(Items)
    BY PagingAssumption
<1>3. Init => SignalsTyped
    BY <1>1 DEF Init, SignalsTyped
<1> QED BY <1>1, <1>2, <1>3 DEF Init, Typed

\* What the application does.
LEMMA ApplicationTyped ==
    ASSUME Typed,
           \/ Connect \/ Disconnect \/ Reload \/ FetchMore
           \/ \E type \in LoadingType : SetLoadingType(type)
           \/ \E size \in ChunkSizes : SetChunkSize(size)
           \/ \E row \in Rows : View(row)
    PROVE  Typed'
<1> USE DEF sessionVars, listVars, settingVars, backendVars
<1>1. CASE Connect
  <2>1. [kind |-> "initialize"] \in Request
      BY DEF Request
  <2>2. requests' \in Seq(Request)
      BY <1>1, <2>1, AppendProperties DEF Typed, Connect
  <2> QED BY <1>1, <2>2 DEF Typed, SignalsTyped, Connect
<1>2. CASE Disconnect
  <2>1. Unregister \in Request
      BY DEF Typed, Unregister, Request
  <2>2. requests' \in Seq(Request)
      BY <1>2, <2>1, AppendProperties DEF Typed, Disconnect
  <2>3. itemList' \in Seq(Row)
      BY <1>2, EmptySeq DEF Disconnect
  <2>4. DefaultChunkSize \in Nat \ {0}
      BY PagingAssumption
  <2> QED BY <1>2, <2>2, <2>3, <2>4 DEF Typed, SignalsTyped, Disconnect
<1>3. CASE Reload
  <2>1. ResetModel(<<>>) /\ <<>> \in Seq(Request)
      BY <1>3 DEF Reload
  <2> QED BY <1>3, <2>1, ResetTyped DEF Typed, SignalsTyped, Reload
<1>4. ASSUME NEW type \in LoadingType, SetLoadingType(type)
      PROVE  Typed'
  <2>1. ResetModel(<<>>) /\ <<>> \in Seq(Request)
      BY <1>4 DEF SetLoadingType
  <2> QED BY <1>4, <2>1, ResetTyped DEF Typed, SignalsTyped, SetLoadingType
<1>5. ASSUME NEW size \in ChunkSizes, SetChunkSize(size)
      PROVE  Typed'
    BY <1>5, PagingAssumption DEF Typed, SignalsTyped, SetChunkSize
<1>6. CASE FetchMore
    BY <1>6, FetchTyped DEF FetchMore, Typed
<1>7. ASSUME NEW row \in Rows, View(row)
      PROVE  Typed'
  <2> DEFINE chunk == row \div chunkSize
  <2>1. row \in Nat /\ chunkSize \in Nat \ {0}
      BY LenProperties DEF Rows, Typed
  <2>2. chunk \in Nat /\ chunk * chunkSize \in Nat
      BY <2>1
  <2>3. FetchData(chunk * chunkSize)
      BY <1>7 DEF View
  <2> HIDE DEF chunk
  <2> QED BY <1>7, <2>2, <2>3, FetchTyped DEF View
<1> QED BY <1>1, <1>2, <1>3, <1>4, <1>5, <1>6, <1>7

\* What the model hears.
LEMMA HearingTyped ==
    ASSUME Typed,
           \/ OnInitializationDone \/ OnCapabilitiesChanged \/ OnCountChanged
           \/ OnDataFetched \/ OnDataChanged \/ SignalLost
    PROVE  Typed'
<1> USE DEF sessionVars, listVars, settingVars, backendVars
<1> DEFINE s == Head(signals)
<1>0. /\ SignalsTyped' /\ s \in Signal /\ Sized(s)
    BY TakeSignal DEF Typed, OnInitializationDone, OnCapabilitiesChanged,
       OnCountChanged, OnDataFetched, OnDataChanged, SignalLost, Hear
<1>1. CASE OnInitializationDone
  <2> DEFINE before == <<[kind |-> "registerInstance", id |-> identifier]>>
  <2>1. before \in Seq(Request)
    <3>1. [kind |-> "registerInstance", id |-> identifier] \in Request
        BY DEF Typed, Request
    <3> HIDE DEF Request
    <3> QED BY <3>1
  <2>2. /\ itemList' \in Seq(Row) /\ fetchedCount' \in Nat /\ chunkCount' \in Nat
        /\ requests' \in Seq(Request)
    <3>1. CASE Starts
      <4>1. ResetModel(before)
          BY <1>1, <3>1 DEF OnInitializationDone
      <4> HIDE DEF before
      <4> QED BY <2>1, <4>1, ResetTyped
    <3>2. CASE ~Starts
        BY <1>1, <3>2 DEF OnInitializationDone, Typed
    <3> QED BY <3>1, <3>2
  <2> QED BY <1>0, <1>1, <2>2 DEF Typed, OnInitializationDone
<1>2. CASE OnCapabilitiesChanged
    BY <1>0, <1>2 DEF Typed, OnCapabilitiesChanged
<1>3. CASE OnCountChanged
  <2>1. CASE CountIsNew(s)
    <3> DEFINE n == s.length
    <3>1. n \in Nat
        BY <1>0, <1>3 DEF OnCountChanged, Hear, Signal
    <3>2. [i \in 1..n |-> Blank] \in Seq(Row)
        BY <3>1, IsASeq DEF Row
    <3>3. itemList \o [i \in 1..n |-> Blank] \in Seq(Row)
        BY <3>2, ConcatProperties DEF Typed
    <3>4. ChunksFor(n) \in Nat
      <4>1. chunkSize \in Nat \ {0}
          BY DEF Typed
      <4> HIDE DEF n
      <4> QED BY <3>1, <4>1 DEF ChunksFor
    <3>5. itemList' = itemList \o [i \in 1..n |-> Blank] /\ chunkCount' = ChunksFor(n)
        BY <1>3, <2>1 DEF OnCountChanged
    <3> HIDE DEF n
    <3> QED BY <1>0, <1>3, <3>3, <3>4, <3>5 DEF Typed, OnCountChanged
  <2>2. CASE ~CountIsNew(s)
      BY <1>0, <1>3, <2>2 DEF Typed, OnCountChanged
  <2> QED BY <2>1, <2>2
<1>4. CASE OnDataFetched
  <2>1. s.items \in Seq(Items) /\ s.start \in Nat
      BY <1>0, <1>4 DEF OnDataFetched, Hear, Signal
  <2>2. s.items \in Seq(Row)
      BY <2>1, SeqMonotonic DEF Row
  <2>3. itemList' \in Seq(Row) /\ fetchedCount' \in Nat /\ chunkCount' \in Nat
    <3>1. CASE UNCHANGED <<itemList, fetchedCount, chunkCount>>
        BY <3>1 DEF Typed
    <3>2. CASE itemList' = itemList \o s.items /\ fetchedCount' = Len(itemList')
                 /\ UNCHANGED chunkCount
      <4>1. itemList' \in Seq(Row)
          BY <2>2, <3>2, ConcatProperties DEF Typed
      <4> QED BY <3>2, <4>1, LenProperties DEF Typed
    <3>3. CASE /\ itemList' = Placed(s.items, s.start)
               /\ fetchedCount' = s.start + Len(s.items) /\ UNCHANGED chunkCount
               /\ Len(itemList) >= s.start + Len(s.items)
      <4> DEFINE items == s.items
                 start == s.start
      <4>1. /\ Len(itemList) \in Nat /\ DOMAIN itemList = 1..Len(itemList)
            /\ Len(items) \in Nat
          BY <2>1, LenProperties DEF Typed
      <4>2. items \in Seq(Row) /\ start \in Nat
          BY <2>1, <2>2
      <4>3. Placed(items, start) \in Seq(Row)
        <5> HIDE DEF items, start
        <5> DEFINE At(i) == IF i > start /\ i <= start + Len(items)
                            THEN items[i - start] ELSE itemList[i]
        <5>1. \A i \in 1..Len(itemList) : At(i) \in Row
            BY <4>1, <4>2, ElementOfSeq DEF Typed
        <5>2. [i \in 1..Len(itemList) |-> At(i)] \in Seq(Row)
          <6> HIDE DEF At
          <6> QED BY <4>1, <5>1, IsASeq
        <5> QED BY <4>1, <5>2 DEF Placed
      <4> HIDE DEF s
      <4> QED BY <3>3, <4>1, <4>2, <4>3 DEF Typed
    <3> QED BY <1>4, <3>1, <3>2, <3>3 DEF OnDataFetched
  <2> QED BY <1>0, <1>4, <2>3 DEF Typed, OnDataFetched
<1>5. CASE OnDataChanged
  <2>1. s.items \in Seq(Items) /\ s.start \in Nat /\ s.count \in Nat
      BY <1>0, <1>5 DEF OnDataChanged, Hear, Signal
  <2>2. s.count = 0 \/ Len(s.items) <= s.count
      BY <1>0, <1>5 DEF OnDataChanged, Hear, Sized
  <2>3. s.items \in Seq(Row)
      BY <2>1, SeqMonotonic DEF Row
  <2>4. itemList' \in Seq(Row)
    <3>1. CASE s.start + s.count <= Len(itemList)
      <4>1. itemList' = ChangedRows(s.items, s.start, s.count)
          BY <1>5, <3>1 DEF OnDataChanged
      <4> HIDE DEF s
      <4> QED BY <2>1, <2>2, <2>3, <3>1, <4>1, ChangedRowsTyped DEF Typed
    <3>2. CASE ~(s.start + s.count <= Len(itemList))
        BY <1>5, <3>2 DEF OnDataChanged, Typed
    <3> QED BY <3>1, <3>2
  <2> QED BY <1>0, <1>5, <2>4 DEF Typed, OnDataChanged
<1>6. CASE SignalLost
    BY <1>0, <1>6 DEF Typed, SignalLost
<1> QED BY <1>1, <1>2, <1>3, <1>4, <1>5, <1>6

\* What a backend sends of its content in answer to a call.
AnswersTo(r, s) ==
    /\ r.kind = "fetchData" /\ r.id \in registered
    /\ s.id = r.id /\ s.start = r.start /\ s.items = Page(content, r.start, r.count)
    /\ s.more => Len(s.items) = r.count

\* The signals the call at the head of the queue is answered with.
Tells(told) ==
    /\ signals' = signals \o told
    /\ \A i \in DOMAIN told : told[i].kind # "dataChanged"
    /\ \A i \in DOMAIN told :
          told[i].kind = "dataFetched" => i = 3 /\ AnswersTo(Head(requests), told[i])
    /\ \A i \in DOMAIN told :
          told[i].kind = "countChanged" => told[i].length = Len(content)
    /\ Head(requests).id \in registered =>
          \E i \in DOMAIN told : /\ told[i].kind = "dataFetched"
                                 /\ AnswersTo(Head(requests), told[i])

LEMMA ServeTells ==
    ASSUME Typed, ServeFetchData
    PROVE  \E told \in Seq(Signal) : Tells(told)
<1> DEFINE r == Head(requests)
           page == Page(content, r.start, r.count)
           able == [kind |-> "capabilitiesChanged", id |-> r.id]
           count == [kind |-> "countChanged", id |-> r.id, length |-> Len(content)]
           Fetched(more) == [kind |-> "dataFetched", id |-> r.id, items |-> page,
                             start |-> r.start, more |-> more]
<1>1. r \in Request /\ r.kind = "fetchData"
    BY HeadTailProperties DEF Typed, ServeFetchData, Take
<1>2. r.id \in Nat /\ r.start \in Nat /\ r.count \in Nat
    BY <1>1 DEF Request
<1>3. Len(content) \in Nat
    BY LenProperties DEF Typed
<1>4. /\ page \in Seq(Items) /\ Len(page) <= r.count
      /\ r.start + r.count < Len(content) => Len(page) = r.count
  <2> DEFINE end == IF r.start + r.count < Len(content) THEN r.start + r.count
                                                        ELSE Len(content)
  <2>1. r.start + 1 \in Nat \ {0} /\ end \in Int /\ end <= Len(content)
      BY <1>2, <1>3
  <2>2. page = SubSeq(content, r.start + 1, end)
      BY DEF Page
  <2> HIDE DEF r, page
  <2>3. /\ page \in Seq(Items)
        /\ Len(page) = IF r.start + 1 <= end THEN end - (r.start + 1) + 1 ELSE 0
    <3> HIDE DEF end
    <3> QED BY <2>1, <2>2, Slice DEF Typed
  <2> QED BY <1>2, <1>3, <2>3
<1>5. PICK more \in BOOLEAN :
        /\ more = (r.start + r.count < Len(content)) \/ more = (Len(page) >= r.count)
        /\ signals' = Append(signals, able)
                          \o (IF r.id \in registered THEN <<count, Fetched(more)>>
                                                     ELSE <<>>)
    BY DEF ServeFetchData
<1> HIDE DEF r, page
<1>6. able \in Signal /\ count \in Signal /\ Fetched(more) \in Signal
    BY <1>2, <1>3, <1>4 DEF Signal
<1>12. more => Len(page) = r.count
  <2> DEFINE rest == r.start + r.count < Len(content)
             full == Len(page) >= r.count
  <2>1. Len(page) \in Nat
      BY <1>4, LenProperties
  <2>2. rest \/ full => Len(page) = r.count
      BY <1>2, <1>4, <2>1
  <2>3. more = rest \/ more = full
      BY <1>5
  <2> HIDE DEF rest, full
  <2>4. more => rest \/ full
      BY <2>3, Zenon
  <2> QED BY <2>2, <2>4
<1>7. /\ able.kind = "capabilitiesChanged" /\ count.kind = "countChanged"
      /\ Fetched(more).kind = "dataFetched"
      /\ count.length = Len(content)
      /\ r.id \in registered => AnswersTo(r, Fetched(more))
    BY <1>1, <1>12 DEF AnswersTo, page
<1> HIDE DEF able, count, Fetched
<1> DEFINE told == <<able, count, Fetched(more)>>
           first == <<able>>
           rest == <<count, Fetched(more)>>
<1>8. first \in Seq(Signal) /\ rest \in Seq(Signal) /\ told \in Seq(Signal)
  <2> HIDE DEF Signal
  <2> QED BY <1>6
<1>9. /\ Append(signals, able) = signals \o first
      /\ signals \o first \in Seq(Signal)
    BY <1>6, <1>8, AppendIsConcat, ConcatProperties DEF Typed, SignalsTyped
<1>10. CASE r.id \in registered
  <2>1. Len(rest) = 2 /\ Len(first) = 1 /\ Len(told) = 3
      OBVIOUS
  <2>2. first[1] = told[1] /\ rest[1] = told[2] /\ rest[2] = told[3]
      OBVIOUS
  <2>3. signals' = signals \o told
    <3>1. signals' = (signals \o first) \o rest
        BY <1>5, <1>9, <1>10
    <3>2. first \in Seq(Signal) /\ rest \in Seq(Signal) /\ told \in Seq(Signal)
        BY <1>8
    <3> HIDE DEF first, rest, told
    <3>3. /\ first \o rest \in Seq(Signal) /\ Len(first \o rest) = 3
          /\ \A i \in 1..3 : (first \o rest)[i] =
                            IF i <= 1 THEN first[i] ELSE rest[i - 1]
      <4>1. /\ first \o rest \in Seq(Signal)
            /\ Len(first \o rest) = Len(first) + Len(rest)
            /\ \A i \in 1..Len(first) + Len(rest) : (first \o rest)[i] =
                  IF i <= Len(first) THEN first[i] ELSE rest[i - Len(first)]
          BY <3>2, ConcatProperties
      <4> QED BY <2>1, <4>1
    <3>4. \A i \in 1..3 : (first \o rest)[i] = told[i]
        BY <2>2, <3>3
    <3>5. first \o rest = told
        BY <2>1, <3>2, <3>3, <3>4, SeqEqual
    <3>6. (signals \o first) \o rest = signals \o (first \o rest)
        BY <3>2, ConcatAssociative DEF Typed, SignalsTyped
    <3> QED BY <3>1, <3>5, <3>6
  <2>4. \A i \in DOMAIN told : \/ i = 1 /\ told[i] = able
                               \/ i = 2 /\ told[i] = count
                               \/ i = 3 /\ told[i] = Fetched(more)
      OBVIOUS
  <2>6. 3 \in DOMAIN told /\ told[3] = Fetched(more)
      OBVIOUS
  <2> HIDE DEF told
  <2>5. Tells(told)
      BY <1>7, <1>10, <2>3, <2>4, <2>6 DEF Tells, r
  <2> QED BY <1>8, <2>5
<1>11. CASE r.id \notin registered
  <2>1. signals' = signals \o first
      BY <1>5, <1>9, <1>11, ConcatEmptySeq
  <2>2. \A i \in DOMAIN first : first[i] = able
      OBVIOUS
  <2> HIDE DEF first
  <2>3. Tells(first)
      BY <1>7, <1>11, <2>1, <2>2 DEF Tells, r
  <2> QED BY <1>8, <2>3
<1> QED BY <1>10, <1>11

\* What the backend serves.
LEMMA ServingTyped ==
    ASSUME Typed,
           \/ Initialize \/ RegisterInstance \/ UnregisterInstance \/ ServeFetchData
           \/ AnnounceAgain
    PROVE  Typed'
<1> USE DEF sessionVars, listVars, settingVars, backendVars
<1>1. [kind |-> "initializationDone"] \in Signal
      /\ Sized([kind |-> "initializationDone"])
    BY DEF Signal, Sized
<1>2. ~AnnounceAgain => requests # <<>> /\ requests' = Tail(requests)
    BY DEF Initialize, RegisterInstance, UnregisterInstance, ServeFetchData, Take
<1>3. requests' \in Seq(Request)
    BY <1>2, HeadTailProperties DEF Typed, AnnounceAgain
<1>4. CASE Initialize
    BY <1>1, <1>3, <1>4, AddSignal DEF Typed, Initialize
<1>5. CASE RegisterInstance
    BY <1>3, <1>5 DEF Typed, SignalsTyped, RegisterInstance
<1>6. CASE UnregisterInstance
    BY <1>3, <1>6 DEF Typed, SignalsTyped, UnregisterInstance
<1>7. CASE ServeFetchData
  <2>1. PICK told \in Seq(Signal) : Tells(told)
      BY <1>7, ServeTells
  <2>2. \A i \in DOMAIN told : Sized(told[i])
      BY <2>1 DEF Tells, Sized
  <2>3. SignalsTyped'
      BY <2>1, <2>2, AddSignals DEF Tells, Typed
  <2> QED BY <1>3, <1>7, <2>3 DEF Typed, ServeFetchData
<1>8. CASE AnnounceAgain
    BY <1>1, <1>3, <1>8, AddSignal DEF Typed, AnnounceAgain
<1> QED BY <1>4, <1>5, <1>6, <1>7, <1>8

\* Every edit of the backend is announced with its size and keeps the types.
LEMMA EditTyped ==
    ASSUME Typed, NEW start \in Nat, NEW count \in Nat, NEW data \in Seq(Items),
           start + count <= Len(content), count = 0 \/ Len(data) <= count,
           Edit(start, count, data)
    PROVE  Typed'
<1> DEFINE s == [kind |-> "dataChanged", id |-> Everyone, items |-> data,
                 start |-> start, count |-> count]
<1>1. s \in Signal /\ Sized(s)
    BY DEF Signal, Sized, Everyone
<1>2. SignalsTyped'
  <2>1. signals' = Append(signals, s)
      BY DEF Edit
  <2> HIDE DEF s
  <2> QED BY <1>1, <2>1, AddSignal DEF Typed
<1>3. content' \in Seq(Items)
  <2>1. Len(content) \in Nat
      BY LenProperties DEF Typed
  <2>2. SubSeq(content, 1, start) \in Seq(Items)
      BY <2>1, Slice DEF Typed
  <2>3. SubSeq(content, start + count + 1, Len(content)) \in Seq(Items)
    <3>1. start + count + 1 \in Nat \ {0}
        OBVIOUS
    <3> QED BY <2>1, <3>1, Slice DEF Typed
  <2>4. content' = SubSeq(content, 1, start) \o data
                       \o SubSeq(content, start + count + 1, Len(content))
      BY DEF Edit
  <2>5. SubSeq(content, 1, start) \o data \in Seq(Items)
      BY <2>2, ConcatProperties
  <2> QED BY <2>3, <2>4, <2>5, ConcatProperties
<1> QED BY <1>2, <1>3 DEF Typed, Edit, sessionVars, listVars, settingVars

BackendEdits ==
    \/ \E row \in Rows : Insert(row) \/ Update(row)
    \/ \E row \in Rows, count \in Removals \ {0} : Remove(row, count)
    \/ \E row, target \in Rows : Move(row, target)

\* An edit in the list, announced with the rows it puts in the place of others
Announced ==
    \E start \in Nat, count \in Nat, data \in Seq(Items) :
        /\ Edit(start, count, data) /\ start + count <= Len(content)
        /\ count = 0 \/ Len(data) = count \/ (data = <<>> /\ count \in Removals)

LEMMA FreshTyped ==
    ASSUME New # {}
    PROVE  Fresh \in Items /\ <<Fresh>> \in Seq(Items) /\ Len(<<Fresh>>) = 1
<1>1. Fresh \in Items
    BY DEF Fresh, New
<1> HIDE DEF Fresh
<1> QED BY <1>1

\* What a move sends: as many rows as it replaces.
LEMMA MoveSends ==
    ASSUME Typed, NEW index \in Nat, NEW target \in Nat, Move(index, target)
    PROVE  Announced
<1> DEFINE others == SubSeq(content, 1, index)
                         \o SubSeq(content, index + 2, Len(content))
           moved == SubSeq(others, 1, target) \o <<content[index + 1]>>
                        \o SubSeq(others, target + 1, Len(others))
           from == IF index < target THEN index ELSE target
           to == IF index < target THEN target ELSE index
           sent == SubSeq(moved, from + 1, to + 1)
<1>1. index < Len(content) /\ target < Len(content) /\ Len(content) \in Nat
    BY LenProperties DEF Typed, Move
<1>2. Edit(from, to - from + 1, sent)
    BY DEF Move
<1>3. /\ from \in Nat /\ to \in Nat /\ from <= to /\ to < Len(content)
    BY <1>1
<1>4. content[index + 1] \in Items /\ <<content[index + 1]>> \in Seq(Items)
      /\ Len(<<content[index + 1]>>) = 1
  <2>1. content[index + 1] \in Items
      BY <1>1, ElementOfSeq DEF Typed
  <2> QED BY <2>1
<1>5. others \in Seq(Items) /\ Len(others) = Len(content) - 1
  <2>1. /\ SubSeq(content, 1, index) \in Seq(Items)
        /\ Len(SubSeq(content, 1, index)) = index
      BY <1>1, Slice DEF Typed
  <2>2. /\ SubSeq(content, index + 2, Len(content)) \in Seq(Items)
        /\ Len(SubSeq(content, index + 2, Len(content))) = Len(content) - index - 1
    <3>1. index + 2 \in Nat \ {0}
        OBVIOUS
    <3> QED BY <1>1, <3>1, Slice DEF Typed
  <2> QED BY <1>1, <2>1, <2>2, ConcatProperties
<1> HIDE DEF others
<1>6. moved \in Seq(Items) /\ Len(moved) = Len(content)
  <2>1. /\ SubSeq(others, 1, target) \in Seq(Items)
        /\ Len(SubSeq(others, 1, target)) = target
      BY <1>1, <1>5, Slice
  <2>2. /\ SubSeq(others, target + 1, Len(others)) \in Seq(Items)
        /\ Len(SubSeq(others, target + 1, Len(others))) = Len(content) - 1 - target
      BY <1>1, <1>5, Slice
  <2>3. /\ SubSeq(others, 1, target) \o <<content[index + 1]>> \in Seq(Items)
        /\ Len(SubSeq(others, 1, target) \o <<content[index + 1]>>) = target + 1
      BY <1>4, <2>1, ConcatProperties
  <2> DEFINE low == SubSeq(others, 1, target) \o <<content[index + 1]>>
             high == SubSeq(others, target + 1, Len(others))
  <2>4. moved = low \o high
      OBVIOUS
  <2> HIDE DEF moved, low, high
  <2>5. low \in Seq(Items) /\ high \in Seq(Items)
        /\ Len(low) = target + 1 /\ Len(high) = Len(content) - 1 - target
      BY <2>2, <2>3 DEF low, high
  <2>6. low \o high \in Seq(Items) /\ Len(low \o high) = Len(low) + Len(high)
      BY <2>5, ConcatProperties
  <2> QED BY <1>1, <2>4, <2>5, <2>6
<1> HIDE DEF moved, from, to
<1>7. sent \in Seq(Items) /\ Len(sent) = to - from + 1
    BY <1>1, <1>3, <1>6, Slice
<1> HIDE DEF sent
<1>8. to - from + 1 \in Nat /\ from + (to - from + 1) <= Len(content)
    BY <1>1, <1>3
<1> QED BY <1>2, <1>3, <1>7, <1>8 DEF Announced

LEMMA EditsAnnounced == ASSUME Typed, BackendEdits PROVE Announced
<1>1. Rows \subseteq Nat /\ Len(content) \in Nat
    BY LenProperties DEF Typed, Rows
<1>2. ASSUME NEW row \in Rows, Insert(row) PROVE Announced
  <2>1. New # {} /\ row \in Nat /\ row + 0 <= Len(content)
      BY <1>1, <1>2 DEF Insert
  <2>2. Edit(row, 0, <<Fresh>>)
      BY <1>2 DEF Insert
  <2>3. <<Fresh>> \in Seq(Items) /\ 0 \in Nat
      BY <2>1, FreshTyped
  <2> HIDE DEF Fresh
  <2> QED BY <2>1, <2>2, <2>3 DEF Announced
<1>3. ASSUME NEW row \in Rows, Update(row) PROVE Announced
  <2>1. New # {} /\ row \in Nat /\ row + 1 <= Len(content)
      BY <1>1, <1>3 DEF Update
  <2>2. Edit(row, 1, <<Fresh>>)
      BY <1>3 DEF Update
  <2>3. <<Fresh>> \in Seq(Items) /\ Len(<<Fresh>>) = 1
      BY <2>1, FreshTyped
  <2> HIDE DEF Fresh
  <2> QED BY <2>1, <2>2, <2>3 DEF Announced
<1>4. ASSUME NEW row \in Rows, NEW count \in Removals \ {0}, Remove(row, count)
      PROVE  Announced
  <2>1. row \in Nat /\ count \in Nat /\ row + count <= Len(content)
      BY <1>1, <1>4, PagingAssumption DEF Remove
  <2>2. Edit(row, count, <<>>)
      BY <1>4 DEF Remove
  <2>3. <<>> \in Seq(Items) /\ count \in Removals
      BY <1>4, EmptySeq
  <2> QED BY <2>1, <2>2, <2>3 DEF Announced
<1>5. ASSUME NEW row \in Rows, NEW target \in Rows, Move(row, target) PROVE Announced
    BY <1>1, <1>5, MoveSends
<1> QED BY <1>2, <1>3, <1>4, <1>5 DEF BackendEdits

LEMMA EditsTyped == ASSUME Typed, BackendEdits PROVE Typed'
<1>1. PICK start \in Nat, count \in Nat, data \in Seq(Items) :
          /\ Edit(start, count, data) /\ start + count <= Len(content)
          /\ count = 0 \/ Len(data) = count \/ (data = <<>> /\ count \in Removals)
    BY EditsAnnounced DEF Announced
<1>2. count = 0 \/ Len(data) <= count
    BY <1>1, LenProperties
<1> QED BY <1>1, <1>2, EditTyped

LEMMA StepTyped == Typed /\ [Next]_vars => Typed'
<1>1. CASE UNCHANGED vars
    BY <1>1 DEF Typed, SignalsTyped, vars, listVars, sessionVars, settingVars, backendVars
<1>2. CASE Next
    BY <1>2, ApplicationTyped, HearingTyped, ServingTyped, EditsTyped DEF Next, BackendEdits
<1> QED BY <1>1, <1>2

(* In every state the model holds a list of rows, and every call and signal  *)
(* under way is of a kind its receiver handles, whatever the backend edits   *)
(* and however the application resets and tunes the model.                   *)
THEOREM AlwaysTyped == Spec => []Typed
<1> QED BY InitTyped, StepTyped, PTL DEF Spec

------------------------------------------------------------------------------
(* No instance is left behind.  What the backend knows, or is about to be    *)
(* told of, is the identifier of the present session, or the call that takes *)
(* it back is already behind it in the queue.                                *)
Current(id) == isConnected /\ id = identifier

LeavesAfter(id, i) ==
    \E j \in DOMAIN requests :
        j > i /\ requests[j].kind = "unregisterInstance" /\ requests[j].id = id

Registers(i, id) == requests[i].kind = "registerInstance" /\ requests[i].id = id

KeptOrLeft(i) ==
    Registers(i, requests[i].id) =>
        Current(requests[i].id) \/ LeavesAfter(requests[i].id, i)

LetGoInv ==
    /\ \A id \in registered : Current(id) \/ LeavesAfter(id, 0)
    /\ \A i \in DOMAIN requests : KeptOrLeft(i)

LEMMA KeptOrLeftNext ==
    ASSUME NEW i,
           \A id : Registers(i, id)' => Current(id)' \/ LeavesAfter(id, i)'
    PROVE  KeptOrLeft(i)'
    BY DEF KeptOrLeft, Registers, Current, LeavesAfter

\* Calls that follow take nothing away from what is queued.
LEMMA LeavesStill ==
    ASSUME requests \in Seq(Request), NEW more \in Seq(Request),
           requests' = requests \o more, NEW id, NEW i \in Nat, LeavesAfter(id, i)
    PROVE  LeavesAfter(id, i)'
<1>1. PICK j \in DOMAIN requests :
          j > i /\ requests[j].kind = "unregisterInstance" /\ requests[j].id = id
    BY DEF LeavesAfter
<1>2. /\ j \in DOMAIN requests' /\ requests'[j] = requests[j]
    BY LenProperties, ConcatProperties
<1> QED BY <1>1, <1>2 DEF LeavesAfter

\* Of the calls added, only those for the present session register it.
LEMMA AddedLetGo ==
    ASSUME requests \in Seq(Request), NEW more \in Seq(Request), LetGoInv,
           requests' = requests \o more, registered' = registered,
           \A id : Current(id) => Current(id)',
           \A i \in DOMAIN more : more[i].kind = "registerInstance" => Current(more[i].id)'
    PROVE  LetGoInv'
<1>1. \A id \in registered' : Current(id)' \/ LeavesAfter(id, 0)'
    BY LeavesStill DEF LetGoInv
<1>2. ASSUME NEW i \in DOMAIN requests', NEW id, Registers(i, id)'
      PROVE  Current(id)' \/ LeavesAfter(id, i)'
  <2>1. /\ Len(requests) \in Nat /\ DOMAIN requests = 1..Len(requests)
        /\ Len(more) \in Nat /\ DOMAIN more = 1..Len(more)
        /\ requests' \in Seq(Request) /\ Len(requests') = Len(requests) + Len(more)
        /\ \A k \in 1..Len(requests) + Len(more) : requests'[k] =
              IF k <= Len(requests) THEN requests[k] ELSE more[k - Len(requests)]
      BY LenProperties, ConcatProperties
  <2>2. i \in 1..Len(requests) + Len(more)
      BY <2>1, LenProperties
  <2>3. CASE i <= Len(requests)
    <3>1. i \in DOMAIN requests /\ requests'[i] = requests[i] /\ i \in Nat
        BY <2>1, <2>2, <2>3
    <3>2. Current(id) \/ LeavesAfter(id, i)
        BY <1>2, <3>1 DEF LetGoInv, KeptOrLeft, Registers
    <3> QED BY <3>1, <3>2, LeavesStill
  <2>4. CASE ~(i <= Len(requests))
    <3>1. i - Len(requests) \in DOMAIN more /\ requests'[i] = more[i - Len(requests)]
        BY <2>1, <2>2, <2>4
    <3> QED BY <1>2, <3>1 DEF Registers
  <2> QED BY <2>3, <2>4
<1> QED BY <1>1, <1>2, KeptOrLeftNext DEF LetGoInv

\* A call the backend takes: the calls behind it move up by one.
LEMMA LeavesNext ==
    ASSUME requests \in Seq(Request), requests # <<>>, requests' = Tail(requests),
           NEW id, NEW i \in Nat, LeavesAfter(id, i + 1)
    PROVE  LeavesAfter(id, i)'
<1>1. PICK j \in DOMAIN requests :
          j > i + 1 /\ requests[j].kind = "unregisterInstance" /\ requests[j].id = id
    BY DEF LeavesAfter
<1>2. /\ j \in Nat /\ j - 1 \in DOMAIN requests' /\ requests'[j - 1] = requests[j]
    BY <1>1, LenProperties, HeadTailProperties
<1> QED BY <1>1, <1>2 DEF LeavesAfter

LEMMA TakenLetGo ==
    ASSUME requests \in Seq(Request), requests # <<>>, requests' = Tail(requests),
           LetGoInv, UNCHANGED <<isConnected, identifier>>,
           \A id \in registered' :
              \/ id \in registered /\ ~(Head(requests).kind = "unregisterInstance"
                                            /\ Head(requests).id = id)
              \/ Head(requests).kind = "registerInstance" /\ id = Head(requests).id
    PROVE  LetGoInv'
<1>1. /\ Len(requests) \in Nat \ {0} /\ DOMAIN requests = 1..Len(requests)
      /\ Head(requests) = requests[1]
      /\ Tail(requests) \in Seq(Request) /\ Len(Tail(requests)) = Len(requests) - 1
      /\ DOMAIN Tail(requests) = 1..Len(Tail(requests))
      /\ \A i \in 1..Len(Tail(requests)) : Tail(requests)[i] = requests[i + 1]
    BY LenProperties, EmptySeq, HeadTailProperties
<1>2. \A id : Current(id)' <=> Current(id)
    BY DEF Current
<1>3. ASSUME NEW id \in registered'
      PROVE  Current(id)' \/ LeavesAfter(id, 0)'
  <2>1. CASE id \in registered /\ ~(Head(requests).kind = "unregisterInstance"
                                        /\ Head(requests).id = id)
    <3>1. Current(id) \/ LeavesAfter(id, 0)
        BY <2>1 DEF LetGoInv
    <3>2. LeavesAfter(id, 0) => LeavesAfter(id, 0 + 1)
        BY <1>1, <2>1 DEF LeavesAfter
    <3> QED BY <1>2, <3>1, <3>2, LeavesNext
  <2>2. CASE Head(requests).kind = "registerInstance" /\ id = Head(requests).id
    <3>1. Current(id) \/ LeavesAfter(id, 0 + 1)
        BY <1>1, <2>2 DEF LetGoInv, KeptOrLeft, Registers
    <3> QED BY <1>2, <3>1, LeavesNext
  <2> QED BY <1>3, <2>1, <2>2
<1>4. ASSUME NEW i \in DOMAIN requests', NEW id, Registers(i, id)'
      PROVE  Current(id)' \/ LeavesAfter(id, i)'
  <2>1. i \in Nat /\ i + 1 \in DOMAIN requests /\ requests'[i] = requests[i + 1]
      BY <1>1
  <2>2. Current(id) \/ LeavesAfter(id, i + 1)
      BY <1>4, <2>1 DEF LetGoInv, KeptOrLeft, Registers
  <2> QED BY <1>2, <2>1, <2>2, LeavesNext
<1> QED BY <1>3, <1>4, KeptOrLeftNext DEF LetGoInv

LEMMA InitLetGo == Init => LetGoInv
<1>1. DOMAIN <<>> = {}
    OBVIOUS
<1> QED BY <1>1 DEF Init, LetGoInv

LEMMA FetchLetGo ==
    ASSUME Typed, LetGoInv, NEW start \in Nat, FetchData(start),
           UNCHANGED <<sessionVars, registered>>
    PROVE  LetGoInv'
<1> DEFINE more == <<FetchRequest(start)>>
<1>1. FetchRequest(start) \in Request
    BY FetchRequestTyped
<1>2. more \in Seq(Request)
  <2> HIDE DEF Request
  <2> QED BY <1>1
<1>3. \A i \in DOMAIN more : more[i].kind = "fetchData"
    BY DEF FetchRequest
<1>4. requests' = requests \o more
    BY <1>1, AppendIsConcat DEF Typed, FetchData
<1> HIDE DEF more
<1> QED BY <1>2, <1>3, <1>4, AddedLetGo DEF Typed, Current, sessionVars

\* A reset registers at most the present session.
LEMMA ResetLetGo ==
    ASSUME Typed, LetGoInv, NEW before \in Seq(Request), ResetModel(before),
           \A i \in DOMAIN before :
              before[i].kind = "registerInstance" => Current(before[i].id),
           UNCHANGED <<isConnected, identifier, registered>>
    PROVE  LetGoInv'
<1>1. requests' = requests \o (before \o FirstFetch)
  <2>1. requests' = (requests \o before) \o FirstFetch
      BY DEF ResetModel
  <2>2. requests \in Seq(Request) /\ FirstFetch \in Seq(Request)
      BY FirstFetchTyped DEF Typed
  <2> QED BY <2>1, <2>2, ConcatAssociative
<1>2. before \o FirstFetch \in Seq(Request)
    BY FirstFetchTyped, ConcatProperties
<1>3. \A i \in DOMAIN FirstFetch : FirstFetch[i].kind = "fetchData"
    BY DEF FirstFetch, FetchRequest
<1>4. ASSUME NEW i \in DOMAIN (before \o FirstFetch),
             (before \o FirstFetch)[i].kind = "registerInstance"
      PROVE  Current((before \o FirstFetch)[i].id)
  <2>1. /\ Len(before) \in Nat /\ DOMAIN before = 1..Len(before)
        /\ Len(FirstFetch) \in Nat /\ DOMAIN FirstFetch = 1..Len(FirstFetch)
        /\ i \in 1..Len(before) + Len(FirstFetch)
        /\ (before \o FirstFetch)[i] = IF i <= Len(before) THEN before[i]
                                       ELSE FirstFetch[i - Len(before)]
      BY <1>2, FirstFetchTyped, LenProperties, ConcatProperties
  <2>2. i <= Len(before)
    <3>1. ~(i <= Len(before)) => i - Len(before) \in DOMAIN FirstFetch
        BY <2>1
    <3> QED BY <1>3, <1>4, <2>1, <3>1
  <2> QED BY <1>4, <2>1, <2>2
<1>5. \A id : Current(id) <=> (isConnected' /\ id = identifier')
    BY DEF Current
<1> DEFINE more == before \o FirstFetch
<1>6. \A i \in DOMAIN more : more[i].kind = "registerInstance" =>
          isConnected' /\ more[i].id = identifier'
    BY <1>4, <1>5
<1>7. more \in Seq(Request) /\ requests' = requests \o more
    BY <1>1, <1>2
<1> HIDE DEF more
<1> QED BY <1>5, <1>6, <1>7, AddedLetGo DEF Typed, Current

LEMMA StepLetGo == Typed /\ LetGoInv /\ [Next]_vars => LetGoInv'
<1> SUFFICES ASSUME Typed, LetGoInv, [Next]_vars PROVE LetGoInv'
    OBVIOUS
<1> USE DEF sessionVars, listVars, settingVars, backendVars
<1>1. CASE UNCHANGED <<isConnected, identifier, requests, registered>>
    BY <1>1 DEF LetGoInv, KeptOrLeft, Registers, Current, LeavesAfter
<1>2. CASE Connect
  <2> DEFINE more == <<[kind |-> "initialize"]>>
  <2>1. [kind |-> "initialize"] \in Request
      BY DEF Request
  <2>2. more \in Seq(Request)
    <3> HIDE DEF Request
    <3> QED BY <2>1
  <2>3. requests' = requests \o more
      BY <1>2, <2>1, AppendIsConcat DEF Typed, Connect
  <2>4. \A i \in DOMAIN more : more[i].kind # "registerInstance"
      OBVIOUS
  <2>5. registered' = registered /\ \A id : ~Current(id)
      BY <1>2 DEF Connect, Current
  <2> HIDE DEF more
  <2> QED BY <2>2, <2>3, <2>4, <2>5, AddedLetGo DEF Typed
<1>3. CASE Disconnect
  <2>1. Unregister \in Request
      BY DEF Typed, Unregister, Request
  <2>2. /\ requests' = Append(requests, Unregister)
        /\ requests' \in Seq(Request)
        /\ Len(requests') = Len(requests) + 1 /\ Len(requests) \in Nat
        /\ DOMAIN requests = 1..Len(requests) /\ DOMAIN requests' = 1..Len(requests')
        /\ \A i \in 1..Len(requests) : requests'[i] = requests[i]
        /\ requests'[Len(requests) + 1] = Unregister
      BY <1>3, <2>1, AppendProperties, LenProperties DEF Typed, Disconnect
  <2>3. ASSUME NEW id, NEW i \in 0..Len(requests), Current(id) \/ LeavesAfter(id, i)
        PROVE  LeavesAfter(id, i)'
    <3>1. CASE Current(id)
      <4>1. Unregister.kind = "unregisterInstance" /\ Unregister.id = id
          BY <3>1 DEF Current, Unregister
      <4> QED BY <2>2, <4>1 DEF LeavesAfter
    <3>2. CASE LeavesAfter(id, i)
        BY <2>2, <3>2 DEF LeavesAfter
    <3> QED BY <2>3, <3>1, <3>2
  <2>4. \A id \in registered' : Current(id)' \/ LeavesAfter(id, 0)'
      BY <1>3, <2>2, <2>3 DEF Disconnect, LetGoInv
  <2>5. ASSUME NEW i \in DOMAIN requests', NEW id, Registers(i, id)'
        PROVE  Current(id)' \/ LeavesAfter(id, i)'
    <3>1. i \in 1..Len(requests)
        BY <2>2, <2>5 DEF Registers, Unregister
    <3>2. Current(id) \/ LeavesAfter(id, i)
        BY <2>2, <2>5, <3>1 DEF LetGoInv, KeptOrLeft, Registers
    <3> QED BY <2>3, <3>1, <3>2
  <2> QED BY <2>4, <2>5, KeptOrLeftNext DEF LetGoInv
<1>4. ASSUME Reload \/ \E type \in LoadingType : SetLoadingType(type)
      PROVE  LetGoInv'
  <2>1. ResetModel(<<>>) /\ UNCHANGED <<isConnected, identifier, registered>>
      BY <1>4 DEF Reload, SetLoadingType
  <2>2. <<>> \in Seq(Request) /\ DOMAIN <<>> = {}
      OBVIOUS
  <2> QED BY <2>1, <2>2, ResetLetGo
<1>5. CASE FetchMore
    BY <1>5, FetchLetGo DEF FetchMore, Typed
<1>6. ASSUME NEW row \in Rows, View(row)
      PROVE  LetGoInv'
  <2> DEFINE chunk == row \div chunkSize
  <2>1. row \in Nat /\ chunkSize \in Nat \ {0}
      BY LenProperties DEF Rows, Typed
  <2>2. chunk \in Nat /\ chunk * chunkSize \in Nat
      BY <2>1
  <2>3. FetchData(chunk * chunkSize) /\ UNCHANGED <<sessionVars, registered>>
      BY <1>6 DEF View
  <2> HIDE DEF chunk
  <2> QED BY <2>2, <2>3, FetchLetGo
<1>7. CASE OnInitializationDone
  <2>1. CASE Starts
    <3> DEFINE before == <<[kind |-> "registerInstance", id |-> identifier]>>
    <3>1. [kind |-> "registerInstance", id |-> identifier] \in Request
        BY DEF Typed, Request
    <3>2. before \in Seq(Request)
      <4> HIDE DEF Request
      <4> QED BY <3>1
    <3>3. ResetModel(before) /\ UNCHANGED <<isConnected, identifier, registered>>
        BY <1>7, <2>1 DEF OnInitializationDone
    <3>4. isConnected
        BY <1>7 DEF OnInitializationDone, Hear
    <3>5. \A i \in DOMAIN before :
              before[i].kind = "registerInstance" => Current(before[i].id)
        BY <3>4 DEF Current
    <3> HIDE DEF before
    <3> QED BY <3>2, <3>3, <3>5, ResetLetGo
  <2>2. CASE ~Starts
      BY <1>1, <1>7, <2>2 DEF OnInitializationDone
  <2> QED BY <2>1, <2>2
<1>8. ASSUME Initialize \/ ServeFetchData \/ RegisterInstance \/ UnregisterInstance
      PROVE  LetGoInv'
  <2>1. requests # <<>> /\ requests' = Tail(requests)
        /\ UNCHANGED <<isConnected, identifier>>
      BY <1>8 DEF Initialize, ServeFetchData, RegisterInstance, UnregisterInstance, Take
  <2>2. \A id \in registered' :
            \/ id \in registered /\ ~(Head(requests).kind = "unregisterInstance"
                                          /\ Head(requests).id = id)
            \/ Head(requests).kind = "registerInstance" /\ id = Head(requests).id
      BY <1>8 DEF Initialize, ServeFetchData, RegisterInstance, UnregisterInstance, Take
  <2> QED BY <2>1, <2>2, TakenLetGo DEF Typed
<1>9. ASSUME \/ \E size \in ChunkSizes : SetChunkSize(size)
             \/ OnCapabilitiesChanged \/ OnCountChanged \/ OnDataFetched
             \/ OnDataChanged \/ SignalLost \/ AnnounceAgain
             \/ \E row \in Rows : Insert(row) \/ Update(row)
             \/ \E row \in Rows, count \in Removals \ {0} : Remove(row, count)
             \/ \E row, target \in Rows : Move(row, target)
      PROVE  LetGoInv'
  <2>1. UNCHANGED <<isConnected, identifier, requests, registered>>
      BY <1>9 DEF SetChunkSize, OnCapabilitiesChanged, OnCountChanged,
         OnDataFetched, OnDataChanged, SignalLost, AnnounceAgain, Insert, Update,
         Remove, Move, Edit
  <2> QED BY <1>1, <2>1
<1>10. CASE UNCHANGED vars
    BY <1>1, <1>10 DEF vars
<1> QED BY <1>2, <1>3, <1>4, <1>5, <1>6, <1>7, <1>8, <1>9, <1>10 DEF Next

(* Whenever the model and the backend have heard everything, the backend     *)
(* knows no instance but the one of the connected model, however often the   *)
(* service object was set and taken away and whatever was under way then:    *)
(* unregisterInstance() is called with the identifier that was registered.   *)
THEOREM NoInstanceIsLeft == Spec => []NoInstanceLeft
<1>1. Init => Typed /\ LetGoInv
    BY InitTyped, InitLetGo
<1>2. Typed /\ LetGoInv /\ [Next]_vars => (Typed /\ LetGoInv)'
    BY StepTyped, StepLetGo
<1>3. LetGoInv => NoInstanceLeft
  <2>1. ASSUME LetGoInv, Settled PROVE \A id \in registered : Current(id)
    <3>1. DOMAIN <<>> = {}
        OBVIOUS
    <3> QED BY <2>1, <3>1 DEF LetGoInv, LeavesAfter, Settled
  <2> QED BY <2>1 DEF NoInstanceLeft, Current
<1> QED BY <1>1, <1>2, <1>3, PTL DEF Spec

------------------------------------------------------------------------------
(* A FetchMore list is a prefix of the content: for any items, chunk sizes   *)
(* and sessions, when the application is patient and the backend takes rows  *)
(* out one at a time.                                                        *)

Careful == Patient = TRUE /\ Removals \subseteq {0, 1}

Registering(i) ==
    requests[i].kind = "registerInstance" /\ requests[i].id = identifier

Fetches(i) == requests[i].kind = "fetchData" /\ requests[i].id = identifier

\* A page this session asked for and will be sent: its instance is known then.
Asked(i) ==
    /\ i \in DOMAIN requests /\ Fetches(i)
    /\ identifier \in registered
           \/ \E j \in DOMAIN requests : j < i /\ Registering(j)

Arriving(i) ==
    /\ i \in DOMAIN signals
    /\ signals[i].kind = "dataFetched" /\ signals[i].id = identifier

EditArriving(i) == i \in DOMAIN signals /\ signals[i].kind = "dataChanged"

Known(id) == id \in 1..identifier

\* Identifiers are never those of a session to come.
IdsKnown ==
    /\ \A i \in DOMAIN requests :
          requests[i].kind # "initialize" => Known(requests[i].id)
    /\ \A i \in DOMAIN signals :
          signals[i].kind = "dataFetched" => Known(signals[i].id)
    /\ \A id \in registered : Known(id)

(* Before the first announcement the session has no row, is not registered   *)
(* and no page of its own can come; once connected it waits for it.          *)
NotStarted ==
    ~isInitialized =>
        /\ itemList = <<>> /\ fetchedCount = 0 /\ loadingType = "FetchMore"
        /\ identifier \notin registered
        /\ \A i \in DOMAIN requests : ~Registering(i)
        /\ \A i \in DOMAIN signals : ~Arriving(i)

Unset == ~isConnected => ~isInitialized /\ ~canGetSize

InitializeUnderWay ==
    \/ \E i \in DOMAIN requests : requests[i].kind = "initialize"
    \/ \E i \in DOMAIN signals : signals[i].kind = "initializationDone"

Starting ==
    isConnected /\ ~isInitialized =>
        InitializeUnderWay /\ \A i \in DOMAIN signals : ~EditArriving(i)

SessionInv == IdsKnown /\ NotStarted /\ Unset /\ Starting

------------------------------------------------------------------------------
(* What is in a queue after a step.                                          *)

LEMMA TailAt ==
    ASSUME NEW S, NEW s \in Seq(S), s # <<>>
    PROVE  /\ 1 \in DOMAIN s /\ Head(s) = s[1]
           /\ \A i \in DOMAIN Tail(s) :
                 i \in Nat /\ i > 0 /\ i + 1 \in DOMAIN s /\ Tail(s)[i] = s[i + 1]
           /\ \A i \in DOMAIN s :
                 i = 1 \/ (i - 1 \in DOMAIN Tail(s) /\ Tail(s)[i - 1] = s[i])
<1>1. /\ Len(s) \in Nat \ {0} /\ DOMAIN s = 1..Len(s) /\ Head(s) = s[1]
      /\ Tail(s) \in Seq(S) /\ Len(Tail(s)) = Len(s) - 1
      /\ \A i \in 1..Len(Tail(s)) : Tail(s)[i] = s[i + 1]
    BY EmptySeq, LenProperties, HeadTailProperties
<1>2. DOMAIN Tail(s) = 1..Len(s) - 1
    BY <1>1, LenProperties
<1> QED BY <1>1, <1>2

LEMMA ConcatAt ==
    ASSUME NEW S, NEW s \in Seq(S), NEW t \in Seq(S)
    PROVE  /\ \A i \in DOMAIN s : i \in DOMAIN (s \o t) /\ (s \o t)[i] = s[i]
           /\ \A i \in DOMAIN (s \o t) :
                 \/ i \in DOMAIN s /\ (s \o t)[i] = s[i]
                 \/ /\ i \in Nat /\ i > Len(s) /\ i - Len(s) \in DOMAIN t
                    /\ (s \o t)[i] = t[i - Len(s)]
<1>1. /\ Len(s) \in Nat /\ DOMAIN s = 1..Len(s)
      /\ Len(t) \in Nat /\ DOMAIN t = 1..Len(t)
    BY LenProperties
<1>2. /\ s \o t \in Seq(S) /\ Len(s \o t) = Len(s) + Len(t)
      /\ \A i \in 1..Len(s) + Len(t) :
            (s \o t)[i] = IF i <= Len(s) THEN s[i] ELSE t[i - Len(s)]
    BY ConcatProperties
<1>3. DOMAIN (s \o t) = 1..Len(s) + Len(t)
    BY <1>2, LenProperties
<1> QED BY <1>1, <1>2, <1>3

LEMMA ConcatAfter ==
    ASSUME NEW S, NEW s \in Seq(S), NEW t \in Seq(S), NEW k \in DOMAIN t
    PROVE  Len(s) + k \in DOMAIN (s \o t) /\ (s \o t)[Len(s) + k] = t[k]
<1>1. /\ Len(s) \in Nat /\ Len(t) \in Nat /\ DOMAIN t = 1..Len(t)
    BY LenProperties
<1>2. /\ s \o t \in Seq(S) /\ Len(s \o t) = Len(s) + Len(t)
      /\ \A i \in 1..Len(s) + Len(t) :
            (s \o t)[i] = IF i <= Len(s) THEN s[i] ELSE t[i - Len(s)]
    BY ConcatProperties
<1>3. DOMAIN (s \o t) = 1..Len(s) + Len(t)
    BY <1>2, LenProperties
<1>4. Len(s) + k \in 1..Len(s) + Len(t) /\ ~(Len(s) + k <= Len(s))
      /\ (Len(s) + k) - Len(s) = k
    BY <1>1
<1> QED BY <1>2, <1>3, <1>4

LEMMA AppendAt ==
    ASSUME NEW S, NEW s \in Seq(S), NEW e \in S
    PROVE  /\ \A i \in DOMAIN s : i \in DOMAIN Append(s, e) /\ Append(s, e)[i] = s[i]
           /\ \A i \in DOMAIN Append(s, e) :
                 \/ i \in DOMAIN s /\ Append(s, e)[i] = s[i]
                 \/ i = Len(s) + 1 /\ Append(s, e)[i] = e
           /\ Len(s) + 1 \in DOMAIN Append(s, e) /\ Append(s, e)[Len(s) + 1] = e
<1>1. /\ Len(s) \in Nat /\ DOMAIN s = 1..Len(s)
    BY LenProperties
<1>2. /\ Append(s, e) \in Seq(S) /\ Len(Append(s, e)) = Len(s) + 1
      /\ \A i \in 1..Len(s) : Append(s, e)[i] = s[i]
      /\ Append(s, e)[Len(s) + 1] = e
    BY AppendProperties
<1>3. DOMAIN Append(s, e) = 1..Len(s) + 1
    BY <1>2, LenProperties
<1> QED BY <1>1, <1>2, <1>3

\* Every call there is was there, or is the one of this step.
CallsGrow(e) ==
    /\ \A i \in DOMAIN requests : i \in DOMAIN requests' /\ requests'[i] = requests[i]
    /\ \A i \in DOMAIN requests' :
          \/ i \in DOMAIN requests /\ requests'[i] = requests[i]
          \/ i = Len(requests) + 1 /\ requests'[i] = e
    /\ Len(requests) + 1 \in DOMAIN requests' /\ requests'[Len(requests) + 1] = e

LEMMA CallAdded ==
    ASSUME Typed, NEW e \in Request, requests' = Append(requests, e)
    PROVE  CallsGrow(e)
    BY AppendAt DEF CallsGrow, Typed

\* The call at the head is gone.
CallsShrink ==
    /\ 1 \in DOMAIN requests /\ Head(requests) = requests[1]
    /\ \A i \in DOMAIN requests' : i \in Nat /\ i > 0
          /\ i + 1 \in DOMAIN requests /\ requests'[i] = requests[i + 1]
    /\ \A i \in DOMAIN requests :
          i = 1 \/ (i - 1 \in DOMAIN requests' /\ requests'[i - 1] = requests[i])

LEMMA CallTaken ==
    ASSUME Typed, NEW kind, Take(kind)
    PROVE  CallsShrink /\ requests[1].kind = kind
<1>1. requests \in Seq(Request) /\ requests # <<>> /\ requests' = Tail(requests)
    BY DEF Typed, Take
<1> QED BY <1>1, TailAt DEF CallsShrink, Take

SignalsGrow(e) ==
    /\ \A i \in DOMAIN signals : i \in DOMAIN signals' /\ signals'[i] = signals[i]
    /\ \A i \in DOMAIN signals' :
          \/ i \in DOMAIN signals /\ signals'[i] = signals[i]
          \/ i = Len(signals) + 1 /\ signals'[i] = e
    /\ Len(signals) + 1 \in DOMAIN signals' /\ signals'[Len(signals) + 1] = e

LEMMA SignalAdded ==
    ASSUME Typed, NEW e \in Signal, signals' = Append(signals, e)
    PROVE  SignalsGrow(e)
    BY AppendAt DEF SignalsGrow, Typed, SignalsTyped

SignalsShrink ==
    /\ 1 \in DOMAIN signals /\ Head(signals) = signals[1]
    /\ \A i \in DOMAIN signals' : i \in Nat /\ i > 0
          /\ i + 1 \in DOMAIN signals /\ signals'[i] = signals[i + 1]
    /\ \A i \in DOMAIN signals :
          i = 1 \/ (i - 1 \in DOMAIN signals' /\ signals'[i - 1] = signals[i])

LEMMA SignalTaken ==
    ASSUME Typed, signals # <<>>, signals' = Tail(signals)
    PROVE  SignalsShrink
    BY TailAt DEF SignalsShrink, Typed, SignalsTyped

LEMMA ResetAdds ==
    ASSUME Typed, ResetModel(<<>>)
    PROVE  /\ isConnected => CallsGrow(FetchRequest(0))
           /\ ~isConnected => requests' = requests
<1>1. requests \in Seq(Request) /\ FetchRequest(0) \in Request
    BY FetchRequestTyped DEF Typed
<1>2. requests \o <<>> = requests
    BY <1>1, ConcatEmptySeq
<1>3. isConnected => requests' = Append(requests, FetchRequest(0))
    BY <1>1, <1>2, AppendIsConcat DEF ResetModel, FirstFetch
<1>4. ~isConnected => requests' = requests
    BY <1>1, <1>2, ConcatEmptySeq DEF ResetModel, FirstFetch
<1> QED BY <1>1, <1>3, <1>4, CallAdded

LEMMA ViewFetches ==
    ASSUME Typed, NEW row \in Rows, View(row)
    PROVE  \E start \in Nat : FetchData(start)
<1> DEFINE chunk == row \div chunkSize
<1>1. row \in Nat /\ chunkSize \in Nat \ {0}
    BY LenProperties DEF Rows, Typed
<1>2. chunk \in Nat /\ chunk * chunkSize \in Nat
    BY <1>1
<1>3. FetchData(chunk * chunkSize)
    BY DEF View
<1> HIDE DEF chunk
<1> QED BY <1>2, <1>3

Change(start, count, data) ==
    [kind |-> "dataChanged", id |-> Everyone, items |-> data, start |-> start,
     count |-> count]

LEMMA EditAdds ==
    ASSUME Typed, NEW start \in Nat, NEW count \in Nat, NEW data \in Seq(Items),
           Edit(start, count, data)
    PROVE  SignalsGrow(Change(start, count, data))
<1>1. Change(start, count, data) \in Signal
    BY DEF Change, Signal, Everyone
<1>2. signals' = Append(signals, Change(start, count, data))
    BY DEF Edit, Change
<1> QED BY <1>1, <1>2, SignalAdded

RegisterRequest == [kind |-> "registerInstance", id |-> identifier]

LEMMA StartAdds ==
    ASSUME Typed, isConnected, ResetModel(<<RegisterRequest>>)
    PROVE  /\ \A i \in DOMAIN requests : i \in DOMAIN requests' /\ requests'[i] = requests[i]
           /\ \A i \in DOMAIN requests' :
                 \/ i \in DOMAIN requests /\ requests'[i] = requests[i]
                 \/ i = Len(requests) + 1 /\ requests'[i] = RegisterRequest
                 \/ i = Len(requests) + 2 /\ requests'[i] = FetchRequest(0)
           /\ \E i \in DOMAIN requests' : requests'[i] = RegisterRequest
<1> DEFINE mid == Append(requests, RegisterRequest)
<1>1. /\ requests \in Seq(Request) /\ FetchRequest(0) \in Request
      /\ RegisterRequest \in Request
    BY FetchRequestTyped DEF Typed, RegisterRequest, Request
<1>2. mid = requests \o <<RegisterRequest>> /\ mid \in Seq(Request)
      /\ Len(mid) = Len(requests) + 1 /\ Len(requests) \in Nat
    BY <1>1, AppendIsConcat, AppendProperties, LenProperties
<1>3. requests' = mid \o <<FetchRequest(0)>>
    BY <1>2 DEF ResetModel, FirstFetch
<1>4. requests' = Append(mid, FetchRequest(0))
  <2> HIDE DEF mid
  <2> QED BY <1>1, <1>2, <1>3, AppendIsConcat
<1>5. \A i \in DOMAIN requests : i \in DOMAIN mid /\ mid[i] = requests[i]
    BY <1>1, AppendAt
<1>6. /\ \A i \in DOMAIN mid : \/ i \in DOMAIN requests /\ mid[i] = requests[i]
                               \/ i = Len(requests) + 1 /\ mid[i] = RegisterRequest
      /\ Len(requests) + 1 \in DOMAIN mid /\ mid[Len(requests) + 1] = RegisterRequest
    BY <1>1, AppendAt
<1> HIDE DEF mid
<1>7. /\ \A i \in DOMAIN mid : i \in DOMAIN requests' /\ requests'[i] = mid[i]
      /\ \A i \in DOMAIN requests' :
            \/ i \in DOMAIN mid /\ requests'[i] = mid[i]
            \/ i = Len(mid) + 1 /\ requests'[i] = FetchRequest(0)
    BY <1>1, <1>2, <1>4, AppendAt
<1> QED BY <1>2, <1>5, <1>6, <1>7

------------------------------------------------------------------------------
(* Identifiers.                                                              *)

\* The calls a step adds are of the session it is taken in.
LEMMA RequestsAfter ==
    ASSUME Typed, Next, NEW i \in DOMAIN requests'
    PROVE  \/ \E j \in DOMAIN requests : requests'[i] = requests[j]
           \/ requests'[i].kind = "initialize"
           \/ /\ requests'[i].id = identifier
              /\ Disconnect \/ requests'[i].kind # "unregisterInstance"
<1> USE DEF listVars, sessionVars, settingVars, backendVars
<1>1. CASE requests' = requests
    BY <1>1
<1>2. CASE Connect
  <2>1. [kind |-> "initialize"] \in Request
      BY DEF Request
  <2>2. CallsGrow([kind |-> "initialize"])
      BY <1>2, <2>1, CallAdded DEF Connect
  <2> QED BY <2>2 DEF CallsGrow
<1>3. CASE Disconnect
  <2>1. Unregister \in Request
      BY DEF Typed, Unregister, Request
  <2>2. CallsGrow(Unregister)
      BY <1>3, <2>1, CallAdded DEF Disconnect
  <2> QED BY <1>3, <2>2 DEF CallsGrow, Unregister
<1>4. CASE ResetModel(<<>>)
    BY <1>1, <1>4, ResetAdds DEF CallsGrow, FetchRequest
<1>5. ASSUME NEW start \in Nat, FetchData(start)
      PROVE  \/ requests'[i].id = identifier /\ requests'[i].kind = "fetchData"
             \/ \E j \in DOMAIN requests : requests'[i] = requests[j]
  <2>1. CallsGrow(FetchRequest(start))
      BY <1>5, FetchRequestTyped, CallAdded DEF FetchData
  <2> QED BY <2>1 DEF CallsGrow, FetchRequest
<1>6. CASE FetchMore
    BY <1>5, <1>6 DEF FetchMore, Typed
<1>7. ASSUME NEW row \in Rows, View(row)
      PROVE  \/ requests'[i].id = identifier /\ requests'[i].kind = "fetchData"
             \/ \E j \in DOMAIN requests : requests'[i] = requests[j]
    BY <1>5, <1>7, ViewFetches
<1>8. CASE OnInitializationDone
  <2>1. CASE Starts
    <3>1. isConnected /\ ResetModel(<<RegisterRequest>>)
        BY <1>8, <2>1 DEF OnInitializationDone, Hear, RegisterRequest
    <3> QED BY <3>1, StartAdds DEF RegisterRequest, FetchRequest
  <2> QED BY <1>1, <1>8, <2>1 DEF OnInitializationDone
<1>9. ASSUME NEW kind, Take(kind)
      PROVE  \E j \in DOMAIN requests : requests'[i] = requests[j]
    BY <1>9, CallTaken DEF CallsShrink
<1> QED BY <1>1, <1>2, <1>3, <1>4, <1>6, <1>7, <1>8, <1>9
        DEF Next, Reload, SetLoadingType, SetChunkSize, OnCapabilitiesChanged,
            OnCountChanged, OnDataFetched, OnDataChanged, SignalLost, Initialize,
            RegisterInstance, UnregisterInstance, ServeFetchData, AnnounceAgain,
            Insert, Update, Remove, Move, Edit

\* Only the answer to a fetchData() brings a page.
LEMMA OldPagesOnly ==
    ASSUME Typed, Next, ~ServeFetchData,
           NEW i \in DOMAIN signals', signals'[i].kind = "dataFetched"
    PROVE  \E j \in DOMAIN signals : signals'[i] = signals[j]
<1> USE DEF listVars, sessionVars, settingVars, backendVars
<1>1. CASE signals' = signals
    BY <1>1
<1>2. ASSUME signals # <<>>, signals' = Tail(signals)
      PROVE  \E j \in DOMAIN signals : signals'[i] = signals[j]
    BY <1>2, SignalTaken DEF SignalsShrink
<1>3. CASE Initialize \/ AnnounceAgain
  <2>1. [kind |-> "initializationDone"] \in Signal
      BY DEF Signal
  <2>2. SignalsGrow([kind |-> "initializationDone"])
      BY <1>3, <2>1, SignalAdded DEF Initialize, AnnounceAgain
  <2> QED BY <2>2 DEF SignalsGrow
<1>4. CASE BackendEdits
  <2>1. PICK start \in Nat, count \in Nat, data \in Seq(Items) : Edit(start, count, data)
      BY <1>4, EditsAnnounced DEF Announced
  <2>2. SignalsGrow(Change(start, count, data))
      BY <2>1, EditAdds
  <2> QED BY <2>2 DEF SignalsGrow, Change
<1> QED BY <1>1, <1>2, <1>3, <1>4
        DEF Next, BackendEdits, Connect, Disconnect, Reload, FetchMore,
            SetLoadingType, SetChunkSize, View, Hear, OnInitializationDone,
            OnCapabilitiesChanged, OnCountChanged, OnDataFetched, OnDataChanged,
            SignalLost, RegisterInstance, UnregisterInstance

\* The pages a step sends answer a call of the same session.
LEMMA SignalsAfter ==
    ASSUME Typed, Next, NEW i \in DOMAIN signals', signals'[i].kind = "dataFetched"
    PROVE  \/ \E j \in DOMAIN signals : signals'[i] = signals[j]
           \/ \E j \in DOMAIN requests :
                 requests[j].kind = "fetchData" /\ requests[j].id = signals'[i].id
<1>1. CASE ServeFetchData
  <2>1. PICK told \in Seq(Signal) : Tells(told)
      BY <1>1, ServeTells
  <2>2. \/ i \in DOMAIN signals /\ signals'[i] = signals[i]
        \/ /\ i - Len(signals) \in DOMAIN told
           /\ signals'[i] = told[i - Len(signals)]
      BY <2>1, ConcatAt DEF Tells, Typed, SignalsTyped
  <2>3. 1 \in DOMAIN requests /\ Head(requests) = requests[1]
      BY <1>1, CallTaken DEF ServeFetchData, CallsShrink
  <2> QED BY <2>1, <2>2, <2>3 DEF Tells, AnswersTo
<1> QED BY <1>1, OldPagesOnly

LEMMA StepKnown == Typed /\ IdsKnown /\ [Next]_vars => IdsKnown'
<1> SUFFICES ASSUME Typed, IdsKnown, Next PROVE IdsKnown'
  <2>1. IdsKnown /\ UNCHANGED vars => IdsKnown'
      BY DEF IdsKnown, Known, vars, sessionVars, backendVars
  <2> QED BY <2>1
<1> USE DEF listVars, sessionVars, settingVars, backendVars
<1>1. /\ identifier \in Nat \ {0}
      /\ identifier' = identifier \/ identifier' = identifier + 1
    BY DEF Typed, Next, Connect, Disconnect, Reload, FetchMore, SetLoadingType,
       SetChunkSize, View, OnInitializationDone, OnCapabilitiesChanged,
       OnCountChanged, OnDataFetched, OnDataChanged, SignalLost, Initialize,
       RegisterInstance, UnregisterInstance, ServeFetchData, AnnounceAgain,
       Insert, Update, Remove, Move, Edit
<1>2. \A id : Known(id) \/ id = identifier => Known(id)'
    BY <1>1 DEF Known
<1>3. \A i \in DOMAIN requests' :
          requests'[i].kind # "initialize" => Known(requests'[i].id)
    BY RequestsAfter, <1>1 DEF IdsKnown, Known
<1>4. \A i \in DOMAIN signals' :
          signals'[i].kind = "dataFetched" => Known(signals'[i].id)
    BY SignalsAfter DEF IdsKnown
<1>5. \A id \in registered' : Known(id)
  <2>1. CASE RegisterInstance
      BY <2>1, CallTaken DEF RegisterInstance, CallsShrink, IdsKnown
  <2>2. CASE UnregisterInstance
      BY <2>2 DEF UnregisterInstance, IdsKnown
  <2>3. CASE registered' = registered
      BY <2>3 DEF IdsKnown
  <2> QED BY <2>1, <2>2, <2>3 DEF Next, Connect, Disconnect, Reload, FetchMore,
        SetLoadingType, SetChunkSize, View, OnInitializationDone,
        OnCapabilitiesChanged, OnCountChanged, OnDataFetched, OnDataChanged,
        SignalLost, Initialize, ServeFetchData, AnnounceAgain, Insert, Update,
        Remove, Move, Edit
<1> QED BY <1>1, <1>3, <1>4, <1>5 DEF IdsKnown, Known

------------------------------------------------------------------------------
(* Sessions.                                                                 *)

\* Which actions begin, end and turn a session.
LEMMA SessionKept ==
    ASSUME Next
    PROVE  /\ ~Disconnect => identifier' = identifier
           /\ ~Disconnect /\ isConnected => isConnected'
           /\ ~Disconnect /\ ~OnInitializationDone => (isInitialized' <=> isInitialized)
           /\ ~Connect /\ ~Disconnect => (isConnected' <=> isConnected)
           /\ ~Disconnect /\ ~OnCapabilitiesChanged => canGetSize' = canGetSize
           /\ OnInitializationDone => isInitialized'
<1> USE DEF listVars, sessionVars, settingVars, backendVars
<1>1. CASE Connect \/ Disconnect
    BY <1>1 DEF Connect, Disconnect, OnInitializationDone, Hear
<1>2. CASE OnInitializationDone
    BY <1>2 DEF OnInitializationDone
<1>3. CASE OnCapabilitiesChanged
    BY <1>3 DEF OnCapabilitiesChanged, OnInitializationDone
<1>4. CASE UNCHANGED <<isConnected, isInitialized, identifier, canGetSize>>
    BY <1>4 DEF Disconnect, OnInitializationDone
<1> QED BY <1>1, <1>2, <1>3, <1>4
        DEF Next, Reload, FetchMore, SetLoadingType, SetChunkSize, View,
            OnCountChanged, OnDataFetched, OnDataChanged, SignalLost, Initialize,
            RegisterInstance, UnregisterInstance, ServeFetchData, AnnounceAgain,
            Insert, Update, Remove, Move, Edit

LEMMA StepUnset == Typed /\ Unset /\ [Next]_vars => Unset'
<1> USE DEF listVars, sessionVars, settingVars, backendVars
<1>1. Unset /\ UNCHANGED vars => Unset'
    BY DEF Unset, vars
<1>2. ASSUME Unset, Next PROVE Unset'
  <2>1. CASE isConnected'
      BY <2>1 DEF Unset
  <2>2. CASE Disconnect
      BY <2>2 DEF Unset, Disconnect
  <2>3. CASE ~isConnected' /\ ~Disconnect
    <3>1. ~isConnected
        BY <1>2, <2>3, SessionKept
    <3>2. ~isInitialized /\ ~canGetSize
        BY <1>2, <3>1 DEF Unset
    <3>3. ~OnInitializationDone /\ ~OnCapabilitiesChanged
        BY <3>1 DEF OnInitializationDone, OnCapabilitiesChanged, Hear
    <3> QED BY <1>2, <2>3, <3>2, <3>3, SessionKept DEF Unset
  <2> QED BY <2>1, <2>2, <2>3
<1> QED BY <1>1, <1>2

\* While the session waits for the backend, nothing but a reset or a page asked
\* for too early happens to it.
LEMMA StartingNotSettled == Starting /\ isConnected /\ ~isInitialized => ~Settled
<1>1. DOMAIN <<>> = {}
    OBVIOUS
<1> QED BY <1>1 DEF Starting, InitializeUnderWay, Settled

\* No instance: the session has nothing to expect from the backend.
Unregistered ==
    /\ identifier \notin registered
    /\ \A i \in DOMAIN requests : ~Registering(i)
    /\ \A i \in DOMAIN signals : ~Arriving(i)

\* What a step sends a session that is not registered: no page.
LEMMA StaysUnregistered ==
    ASSUME Typed, Next, Unregistered, identifier' = identifier,
           ~OnInitializationDone
    PROVE  Unregistered'
<1> USE DEF listVars, sessionVars, settingVars, backendVars
<1>1. ASSUME NEW i \in DOMAIN requests', Registering(i)'
      PROVE  FALSE
  <2>1. CASE requests' = requests
      BY <1>1, <2>1 DEF Unregistered, Registering
  <2>2. CASE Connect
    <3>1. [kind |-> "initialize"] \in Request
        BY DEF Request
    <3>2. CallsGrow([kind |-> "initialize"])
        BY <2>2, <3>1, CallAdded DEF Connect
    <3> QED BY <1>1, <3>2 DEF CallsGrow, Unregistered, Registering
  <2>3. CASE ResetModel(<<>>)
      BY <1>1, <2>1, <2>3, ResetAdds DEF CallsGrow, FetchRequest, Unregistered,
         Registering
  <2>4. ASSUME NEW start \in Nat, FetchData(start) PROVE FALSE
    <3>1. CallsGrow(FetchRequest(start))
        BY <2>4, FetchRequestTyped, CallAdded DEF FetchData
    <3> QED BY <1>1, <3>1 DEF CallsGrow, FetchRequest, Unregistered, Registering
  <2>5. ~FetchMore
      BY <2>4 DEF FetchMore, Typed
  <2>6. ASSUME NEW row \in Rows, View(row) PROVE FALSE
      BY <2>4, <2>6, ViewFetches
  <2>7. ASSUME NEW kind, Take(kind) PROVE FALSE
      BY <1>1, <2>7, CallTaken DEF CallsShrink, Unregistered, Registering
  <2>8. ~Disconnect
      BY DEF Disconnect, Typed
  <2> QED BY <2>1, <2>2, <2>3, <2>5, <2>6, <2>7, <2>8
          DEF Next, Reload, SetLoadingType, SetChunkSize, OnCapabilitiesChanged,
              OnCountChanged, OnDataFetched, OnDataChanged, SignalLost, Initialize,
              RegisterInstance, UnregisterInstance, ServeFetchData, AnnounceAgain,
              Insert, Update, Remove, Move, Edit
<1>2. identifier \notin registered'
  <2>1. CASE RegisterInstance
      BY <2>1, CallTaken DEF RegisterInstance, CallsShrink, Unregistered, Registering
  <2>2. CASE UnregisterInstance
      BY <2>2 DEF UnregisterInstance, Unregistered
  <2>3. CASE registered' = registered
      BY <2>3 DEF Unregistered
  <2> QED BY <2>1, <2>2, <2>3 DEF Next, Connect, Disconnect, Reload, FetchMore,
        SetLoadingType, SetChunkSize, View, OnInitializationDone,
        OnCapabilitiesChanged, OnCountChanged, OnDataFetched, OnDataChanged,
        SignalLost, Initialize, ServeFetchData, AnnounceAgain, Insert, Update,
        Remove, Move, Edit
<1>3. ASSUME NEW i \in DOMAIN signals', Arriving(i)'
      PROVE  FALSE
  <2>1. signals'[i].kind = "dataFetched" /\ signals'[i].id = identifier
      BY <1>3 DEF Arriving
  <2>2. CASE \E j \in DOMAIN signals : signals'[i] = signals[j]
      BY <2>1, <2>2 DEF Unregistered, Arriving
  <2>3. CASE ServeFetchData
    <3>1. PICK told \in Seq(Signal) : Tells(told)
        BY <2>3, ServeTells
    <3>2. \/ i \in DOMAIN signals /\ signals'[i] = signals[i]
          \/ /\ i - Len(signals) \in DOMAIN told
             /\ signals'[i] = told[i - Len(signals)]
        BY <3>1, ConcatAt DEF Tells, Typed, SignalsTyped
    <3> QED BY <2>1, <2>2, <3>1, <3>2 DEF Tells, AnswersTo, Unregistered
  <2>4. ~ServeFetchData => \E j \in DOMAIN signals : signals'[i] = signals[j]
      BY <2>1, OldPagesOnly
  <2> QED BY <2>2, <2>3, <2>4
<1> QED BY <1>1, <1>2, <1>3 DEF Unregistered

LEMMA StepNotStarted ==
    ASSUME Careful, Typed, SessionInv, [Next]_vars
    PROVE  NotStarted'
<1> SUFFICES ASSUME Next, ~isInitialized' PROVE NotStarted'
  <2>1. NotStarted /\ UNCHANGED vars => NotStarted'
      BY DEF NotStarted, Registering, Arriving, vars, listVars, sessionVars,
             settingVars, backendVars
  <2> QED BY <2>1 DEF NotStarted, SessionInv
<1> USE DEF listVars, sessionVars, settingVars, backendVars
<1>1. CASE Disconnect
  <2>1. identifier' = identifier + 1 /\ identifier \in Nat \ {0} /\ Unregister \in Request
      BY <1>1 DEF Disconnect, Typed, Unregister, Request
  <2>2. CallsGrow(Unregister)
      BY <1>1, <2>1, CallAdded DEF Disconnect
  <2>3. identifier' \notin registered'
      BY <1>1, <2>1 DEF Disconnect, SessionInv, IdsKnown, Known
  <2>4. \A i \in DOMAIN requests' : ~Registering(i)'
      BY <2>1, <2>2 DEF CallsGrow, Unregister, Registering, SessionInv, IdsKnown, Known
  <2>5. \A i \in DOMAIN signals' : ~Arriving(i)'
      BY <1>1, <2>1 DEF Disconnect, Arriving, SessionInv, IdsKnown, Known
  <2> QED BY <1>1, <2>3, <2>4, <2>5 DEF Disconnect, NotStarted
<1>2. ASSUME ~Disconnect PROVE NotStarted'
  <2>1. ~isInitialized /\ ~OnInitializationDone /\ identifier' = identifier
      BY <1>2, SessionKept
  <2>2. /\ itemList = <<>> /\ fetchedCount = 0 /\ loadingType = "FetchMore"
        /\ Unregistered
      BY <2>1 DEF SessionInv, NotStarted, Unregistered
  <2>3. Unregistered'
      BY <2>1, <2>2, StaysUnregistered
  <2>4. \A type \in LoadingType : ~SetLoadingType(type)
      BY <2>1, <2>2, StartingNotSettled
      DEF SetLoadingType, LoadingType, Calm, Careful, SessionInv, Unset
  <2>5. OnDataFetched => UNCHANGED <<itemList, fetchedCount, loadingType>>
    <3>1. ASSUME OnDataFetched PROVE ~Accepts(Head(signals))
      <4>1. SignalsShrink /\ Head(signals).kind = "dataFetched"
          BY <3>1, SignalTaken DEF OnDataFetched, Hear
      <4>2. Head(signals).id # identifier /\ Known(Head(signals).id)
          BY <2>2, <4>1 DEF SignalsShrink, Unregistered, Arriving, SessionInv, IdsKnown
      <4> QED BY <4>2 DEF Accepts, Everyone, Known, Typed
    <3> QED BY <3>1 DEF OnDataFetched
  <2>6. ~OnDataChanged
    <3>1. ASSUME OnDataChanged PROVE FALSE
      <4>1. isConnected /\ SignalsShrink /\ Head(signals).kind = "dataChanged"
          BY <3>1, SignalTaken DEF OnDataChanged, Hear
      <4> QED BY <2>1, <4>1 DEF SignalsShrink, SessionInv, Starting, EditArriving
    <3> QED BY <3>1
  <2>7. OnCountChanged => UNCHANGED <<itemList, fetchedCount, loadingType>>
      BY <2>2 DEF OnCountChanged, CountIsNew
  <2>8. ResetModel(<<>>) => itemList' = <<>> /\ fetchedCount' = 0
      BY DEF ResetModel
  <2>9. \A row \in Rows : ~View(row)
      BY <2>2 DEF View
  <2>10. itemList' = <<>> /\ fetchedCount' = 0 /\ loadingType' = "FetchMore"
      BY <1>2, <2>1, <2>2, <2>4, <2>5, <2>6, <2>7, <2>8, <2>9
      DEF Next, Connect, Reload, FetchMore, FetchData, SetChunkSize,
          OnCapabilitiesChanged, SignalLost, Initialize, RegisterInstance,
          UnregisterInstance, ServeFetchData, AnnounceAgain, Insert, Update,
          Remove, Move, Edit
  <2> QED BY <2>3, <2>10 DEF NotStarted, Unregistered
<1> QED BY <1>1, <1>2

\* A call stays queued until the backend takes it.
Served(r) ==
    /\ r = Head(requests)
    /\ \/ Initialize /\ r.kind = "initialize"
       \/ RegisterInstance /\ r.kind = "registerInstance"
       \/ UnregisterInstance /\ r.kind = "unregisterInstance"
       \/ ServeFetchData /\ r.kind = "fetchData"

LEMMA CallStays ==
    ASSUME Typed, Next, NEW i \in DOMAIN requests
    PROVE  \/ \E j \in DOMAIN requests' : requests'[j] = requests[i]
           \/ Served(requests[i])
<1> USE DEF listVars, sessionVars, settingVars, backendVars
<1>1. CASE requests' = requests
    BY <1>1
<1>2. CASE Connect
  <2>1. [kind |-> "initialize"] \in Request
      BY DEF Request
  <2>2. CallsGrow([kind |-> "initialize"])
      BY <1>2, <2>1, CallAdded DEF Connect
  <2> QED BY <2>2 DEF CallsGrow
<1>3. CASE Disconnect
  <2>1. Unregister \in Request
      BY DEF Typed, Unregister, Request
  <2>2. CallsGrow(Unregister)
      BY <1>3, <2>1, CallAdded DEF Disconnect
  <2> QED BY <2>2 DEF CallsGrow
<1>4. CASE ResetModel(<<>>)
    BY <1>1, <1>4, ResetAdds DEF CallsGrow
<1>5. ASSUME NEW start \in Nat, FetchData(start)
      PROVE  \E j \in DOMAIN requests' : requests'[j] = requests[i]
    BY <1>5, FetchRequestTyped, CallAdded DEF FetchData, CallsGrow
<1>6. CASE FetchMore
    BY <1>5, <1>6 DEF FetchMore, Typed
<1>7. ASSUME NEW row \in Rows, View(row)
      PROVE  \E j \in DOMAIN requests' : requests'[j] = requests[i]
    BY <1>5, <1>7, ViewFetches
<1>8. CASE OnInitializationDone
  <2>1. CASE Starts
    <3>1. isConnected /\ ResetModel(<<RegisterRequest>>)
        BY <1>8, <2>1 DEF OnInitializationDone, Hear, RegisterRequest
    <3> QED BY <3>1, StartAdds
  <2> QED BY <1>1, <1>8, <2>1 DEF OnInitializationDone
<1>9. ASSUME NEW kind, Take(kind)
      PROVE  \/ \E j \in DOMAIN requests' : requests'[j] = requests[i]
             \/ requests[i] = Head(requests) /\ requests[i].kind = kind
    BY <1>9, CallTaken DEF CallsShrink
<1>10. CASE Initialize \/ RegisterInstance \/ UnregisterInstance \/ ServeFetchData
    BY <1>9, <1>10 DEF Initialize, RegisterInstance, UnregisterInstance, ServeFetchData,
                       Served
<1> QED BY <1>1, <1>2, <1>3, <1>4, <1>6, <1>7, <1>8, <1>10
        DEF Next, Reload, SetLoadingType, SetChunkSize, OnCapabilitiesChanged,
            OnCountChanged, OnDataFetched, OnDataChanged, SignalLost,
            AnnounceAgain, Insert, Update, Remove, Move, Edit

\* The first announcement stays under way until the model hears it.
LEMMA AnnouncementStays ==
    ASSUME Typed, Next, isConnected, ~OnInitializationDone,
           NEW i \in DOMAIN signals, signals[i].kind = "initializationDone"
    PROVE  \E j \in DOMAIN signals' : signals'[j] = signals[i]
<1> USE DEF listVars, sessionVars, settingVars, backendVars
<1>1. CASE signals' = signals
    BY <1>1
<1>2. CASE OnCapabilitiesChanged \/ OnCountChanged \/ OnDataFetched \/ OnDataChanged
  <2>1. SignalsShrink /\ Head(signals).kind # "initializationDone"
      BY <1>2, SignalTaken DEF OnCapabilitiesChanged, OnCountChanged, OnDataFetched,
         OnDataChanged, Hear
  <2> QED BY <2>1 DEF SignalsShrink
<1>3. CASE Initialize \/ AnnounceAgain
  <2>1. [kind |-> "initializationDone"] \in Signal
      BY DEF Signal
  <2>2. SignalsGrow([kind |-> "initializationDone"])
      BY <1>3, <2>1, SignalAdded DEF Initialize, AnnounceAgain
  <2> QED BY <2>2 DEF SignalsGrow
<1>4. CASE ServeFetchData
  <2>1. PICK told \in Seq(Signal) : Tells(told)
      BY <1>4, ServeTells
  <2>2. i \in DOMAIN signals' /\ signals'[i] = signals[i]
      BY <2>1, ConcatAt DEF Tells, Typed, SignalsTyped
  <2> QED BY <2>2
<1>5. CASE BackendEdits
  <2>1. PICK start \in Nat, count \in Nat, data \in Seq(Items) : Edit(start, count, data)
      BY <1>5, EditsAnnounced DEF Announced
  <2>2. SignalsGrow(Change(start, count, data))
      BY <2>1, EditAdds
  <2> QED BY <2>2 DEF SignalsGrow
<1> QED BY <1>1, <1>2, <1>3, <1>4, <1>5
        DEF Next, BackendEdits, Connect, Disconnect, Reload, FetchMore,
            SetLoadingType, SetChunkSize, View, SignalLost, RegisterInstance,
            UnregisterInstance

\* Only an edit announces one.
LEMMA OldEditsOnly ==
    ASSUME Typed, Next, ~BackendEdits,
           NEW i \in DOMAIN signals', signals'[i].kind = "dataChanged"
    PROVE  \E j \in DOMAIN signals : signals'[i] = signals[j]
<1> USE DEF listVars, sessionVars, settingVars, backendVars
<1>1. CASE signals' = signals
    BY <1>1
<1>2. ASSUME signals # <<>>, signals' = Tail(signals)
      PROVE  \E j \in DOMAIN signals : signals'[i] = signals[j]
    BY <1>2, SignalTaken DEF SignalsShrink
<1>3. CASE Initialize \/ AnnounceAgain
  <2>1. [kind |-> "initializationDone"] \in Signal
      BY DEF Signal
  <2>2. SignalsGrow([kind |-> "initializationDone"])
      BY <1>3, <2>1, SignalAdded DEF Initialize, AnnounceAgain
  <2> QED BY <2>2 DEF SignalsGrow
<1>4. CASE ServeFetchData
  <2>1. PICK told \in Seq(Signal) : Tells(told)
      BY <1>4, ServeTells
  <2>2. \/ i \in DOMAIN signals /\ signals'[i] = signals[i]
        \/ /\ i - Len(signals) \in DOMAIN told
           /\ signals'[i] = told[i - Len(signals)]
      BY <2>1, ConcatAt DEF Tells, Typed, SignalsTyped
  <2> QED BY <2>1, <2>2 DEF Tells
<1> QED BY <1>1, <1>2, <1>3, <1>4
        DEF Next, BackendEdits, Connect, Disconnect, Reload, FetchMore,
            SetLoadingType, SetChunkSize, View, Hear, OnInitializationDone,
            OnCapabilitiesChanged, OnCountChanged, OnDataFetched, OnDataChanged,
            SignalLost, RegisterInstance, UnregisterInstance

LEMMA StepStarting ==
    ASSUME Careful, Typed, SessionInv, [Next]_vars
    PROVE  Starting'
<1> SUFFICES ASSUME Next, isConnected', ~isInitialized' PROVE Starting'
  <2>1. Starting /\ UNCHANGED vars => Starting'
      BY DEF Starting, InitializeUnderWay, EditArriving, vars, sessionVars
  <2> QED BY <2>1 DEF Starting, SessionInv
<1>1. CASE Connect
  <2>1. [kind |-> "initialize"] \in Request
      BY DEF Request
  <2>2. CallsGrow([kind |-> "initialize"])
      BY <1>1, <2>1, CallAdded DEF Connect
  <2>3. InitializeUnderWay'
      BY <2>2 DEF CallsGrow, InitializeUnderWay
  <2> QED BY <1>1, <2>3 DEF Connect, Careful, Starting, EditArriving
<1>2. CASE ~Connect
  <2>1. ~Disconnect /\ ~OnInitializationDone
      BY SessionKept DEF Disconnect
  <2>2. isConnected /\ ~isInitialized
      BY <1>2, <2>1, SessionKept
  <2>3. ~Settled /\ InitializeUnderWay /\ \A i \in DOMAIN signals : ~EditArriving(i)
      BY <2>2, StartingNotSettled DEF SessionInv, Starting
  <2>4. ~BackendEdits
    <3>1. ASSUME BackendEdits PROVE FALSE
      <4>1. PICK start \in Nat, count \in Nat, data \in Seq(Items) :
                Edit(start, count, data)
          BY <3>1, EditsAnnounced DEF Announced
      <4> QED BY <2>3, <4>1 DEF Edit, Careful
    <3> QED BY <3>1
  <2>5. \A i \in DOMAIN signals' : ~EditArriving(i)'
      BY <2>3, <2>4, OldEditsOnly DEF EditArriving
  <2>6. InitializeUnderWay'
    <3>1. CASE \E i \in DOMAIN requests : requests[i].kind = "initialize"
      <4>1. CASE Initialize
        <5>1. [kind |-> "initializationDone"] \in Signal
            BY DEF Signal
        <5>2. SignalsGrow([kind |-> "initializationDone"])
            BY <4>1, <5>1, SignalAdded DEF Initialize
        <5> QED BY <5>2 DEF SignalsGrow, InitializeUnderWay
      <4> QED BY <3>1, <4>1, CallStays DEF Served, InitializeUnderWay
    <3>2. CASE \E i \in DOMAIN signals : signals[i].kind = "initializationDone"
        BY <2>1, <2>2, <3>2, AnnouncementStays DEF InitializeUnderWay
    <3> QED BY <2>3, <3>1, <3>2 DEF InitializeUnderWay
  <2> QED BY <2>5, <2>6 DEF Starting
<1> QED BY <1>1, <1>2

LEMMA StepSession ==
    ASSUME Careful, Typed, SessionInv, [Next]_vars
    PROVE  SessionInv'
    BY StepKnown, StepNotStarted, StepUnset, StepStarting DEF SessionInv

LEMMA InitSession == Init => SessionInv
<1>1. DOMAIN <<>> = {}
    OBVIOUS
<1>2. Init => IdsKnown /\ NotStarted
    BY <1>1 DEF Init, IdsKnown, NotStarted
<1>3. Init => Unset /\ Starting
    BY DEF Init, Unset, Starting
<1> QED BY <1>2, <1>3 DEF SessionInv

------------------------------------------------------------------------------
(* The list.                                                                 *)
Live == isConnected /\ loadingType = "FetchMore"

NoPage ==
    /\ \A i \in DOMAIN requests : ~Asked(i)
    /\ \A i \in DOMAIN signals : ~Arriving(i)

\* The items of a page are those that follow the rows.
NextPage(s) ==
    /\ s.start = Len(itemList)
    /\ s.items # <<>> =>
          /\ s.start + Len(s.items) <= Len(content)
          /\ s.items = SubSeq(content, s.start + 1, s.start + Len(s.items))

\* At most one page is under way, the next one, and none while one can be asked for.
OnePage ==
    Live =>
        /\ \A i, j \in DOMAIN requests : Asked(i) /\ Asked(j) => i = j
        /\ \A i, j \in DOMAIN signals : Arriving(i) /\ Arriving(j) => i = j
        /\ \A i \in DOMAIN requests, j \in DOMAIN signals : ~(Asked(i) /\ Arriving(j))
        /\ \A i \in DOMAIN requests : Asked(i) => requests[i].start = Len(itemList)
        /\ \A i \in DOMAIN signals : Arriving(i) => NextPage(signals[i])
        /\ moreAvailable => NoPage /\ fetchedCount = Len(itemList)

EditsUnique ==
    \A i, j \in DOMAIN signals : EditArriving(i) /\ EditArriving(j) => i = j

\* The edit makes the list the content, and onDataChanged() applies it rightly.
EditFits(s) ==
    /\ s.start + s.count <= Len(itemList)
    /\ content = Edited(itemList, s.items, s.start, s.count)
    /\ Len(s.items) = s.count \/ s.count = 0 \/ (s.items = <<>> /\ s.count = 1)

EditMeetsList ==
    Live => \A i \in DOMAIN signals :
                EditArriving(i) => ~moreAvailable /\ NoPage /\ EditFits(signals[i])

ListInv == OnePage /\ EditsUnique /\ EditMeetsList /\ ListIsPrefixOfContent

IsPrefixOf(list, whole) ==
    Len(list) <= Len(whole) /\ list = SubSeq(whole, 1, Len(list))

LEMMA NotLive ==
    ASSUME ~Live', EditsUnique'
    PROVE  ListInv'
    BY DEF ListInv, OnePage, EditMeetsList, ListIsPrefixOfContent, Live

\* At most a page from the end of the list is asked for and nothing else comes.
LEMMA Loading ==
    ASSUME \A i, j \in DOMAIN requests' : Asked(i)' /\ Asked(j)' => i = j,
           \A i \in DOMAIN requests' : Asked(i)' => requests'[i].start = Len(itemList'),
           \A i \in DOMAIN signals' : ~Arriving(i)',
           \A i \in DOMAIN signals' : ~EditArriving(i)',
           moreAvailable' => /\ \A i \in DOMAIN requests' : ~Asked(i)'
                             /\ fetchedCount' = Len(itemList'),
           IsPrefixOf(itemList', content')
    PROVE  ListInv'
<1>1. OnePage'
    BY DEF OnePage, NoPage
<1>2. EditsUnique' /\ EditMeetsList'
    BY DEF EditsUnique, EditMeetsList
<1>3. ListIsPrefixOfContent'
    BY DEF ListIsPrefixOfContent, IsPrefixOf
<1> QED BY <1>1, <1>2, <1>3 DEF ListInv

SameCalls ==
    \A i \in DOMAIN requests' :
        Asked(i)' => i \in DOMAIN requests /\ Asked(i) /\ requests'[i] = requests[i]

ShiftedCalls ==
    \A i \in DOMAIN requests' :
        Asked(i)' => /\ i \in Nat /\ i + 1 \in DOMAIN requests /\ Asked(i + 1)
                     /\ requests'[i] = requests[i + 1]

SameSignals ==
    \A i \in DOMAIN signals' :
        signals'[i].kind = "dataChanged" \/ Arriving(i)' =>
            i \in DOMAIN signals /\ signals'[i] = signals[i]

ShiftedSignals ==
    \A i \in DOMAIN signals' :
        i \in Nat /\ i + 1 \in DOMAIN signals /\ signals'[i] = signals[i + 1]

\* A step that changes nothing the list depends on.
LEMMA Quiet ==
    ASSUME ListInv, SameCalls \/ ShiftedCalls, SameSignals \/ ShiftedSignals,
           NoEditPending' => NoEditPending,
           UNCHANGED <<isConnected, identifier, loadingType, itemList, content,
                       moreAvailable, fetchedCount>>
    PROVE  ListInv'
<1>1. EditsUnique'
    BY DEF ListInv, EditsUnique, EditArriving, SameSignals, ShiftedSignals
<1>2. CASE ~Live
    BY <1>1, <1>2, NotLive DEF Live
<1>3. CASE Live
  <2>1. \A i \in DOMAIN requests' : Asked(i)' =>
            \E j \in DOMAIN requests : Asked(j) /\ requests'[i] = requests[j]
      BY DEF SameCalls, ShiftedCalls
  <2>2. \A i, j \in DOMAIN requests' : Asked(i)' /\ Asked(j)' => i = j
    <3>1. \A i, j \in DOMAIN requests : Asked(i) /\ Asked(j) => i = j
        BY <1>3 DEF ListInv, OnePage
    <3> QED BY <3>1 DEF SameCalls, ShiftedCalls
  <2>3. \A i \in DOMAIN signals' : Arriving(i)' =>
            \E j \in DOMAIN signals : Arriving(j) /\ signals'[i] = signals[j]
      BY DEF SameSignals, ShiftedSignals, Arriving
  <2>4. \A i, j \in DOMAIN signals' : Arriving(i)' /\ Arriving(j)' => i = j
    <3>1. \A i, j \in DOMAIN signals : Arriving(i) /\ Arriving(j) => i = j
        BY <1>3 DEF ListInv, OnePage
    <3> QED BY <3>1 DEF SameSignals, ShiftedSignals, Arriving
  <2>5. NoPage => NoPage'
      BY <2>1, <2>3 DEF NoPage
  <2>6. OnePage'
    <3>1. \A i \in DOMAIN requests', j \in DOMAIN signals' : ~(Asked(i)' /\ Arriving(j)')
        BY <1>3, <2>1, <2>3 DEF ListInv, OnePage
    <3>2. \A i \in DOMAIN requests' : Asked(i)' => requests'[i].start = Len(itemList')
        BY <1>3, <2>1 DEF ListInv, OnePage
    <3>3. \A i \in DOMAIN signals' : Arriving(i)' => NextPage(signals[i])'
        BY <1>3, <2>3 DEF ListInv, OnePage, NextPage
    <3>4. moreAvailable' => NoPage' /\ fetchedCount' = Len(itemList')
        BY <1>3, <2>5 DEF ListInv, OnePage
    <3> QED BY <2>2, <2>4, <3>1, <3>2, <3>3, <3>4 DEF OnePage
  <2>7. EditMeetsList'
    <3>1. \A i \in DOMAIN signals' : EditArriving(i)' =>
              \E j \in DOMAIN signals : EditArriving(j) /\ signals'[i] = signals[j]
        BY DEF SameSignals, ShiftedSignals, EditArriving
    <3>2. \A j \in DOMAIN signals :
              EditArriving(j) => ~moreAvailable /\ NoPage /\ EditFits(signals[j])
        BY <1>3 DEF ListInv, EditMeetsList
    <3> QED BY <2>5, <3>1, <3>2 DEF EditMeetsList, EditFits
  <2>8. ListIsPrefixOfContent'
      BY DEF ListInv, ListIsPrefixOfContent
  <2> QED BY <1>1, <2>6, <2>7, <2>8 DEF ListInv
<1> QED BY <1>2, <1>3

\* A step's signals are those there were, but for a page or an edit.
LEMMA SignalsKept ==
    ASSUME Typed, Next, ~ServeFetchData, ~BackendEdits
    PROVE  SameSignals \/ ShiftedSignals
<1> USE DEF listVars, sessionVars, settingVars, backendVars
<1>1. CASE signals' = signals
    BY <1>1 DEF SameSignals
<1>2. ASSUME signals # <<>>, signals' = Tail(signals)
      PROVE  ShiftedSignals
    BY <1>2, SignalTaken DEF SignalsShrink, ShiftedSignals
<1>3. CASE Initialize \/ AnnounceAgain
  <2>1. [kind |-> "initializationDone"] \in Signal
      BY DEF Signal
  <2>2. SignalsGrow([kind |-> "initializationDone"])
      BY <1>3, <2>1, SignalAdded DEF Initialize, AnnounceAgain
  <2> QED BY <2>2 DEF SignalsGrow, SameSignals, Arriving
<1> QED BY <1>1, <1>2, <1>3
        DEF Next, BackendEdits, Connect, Disconnect, Reload, FetchMore,
            SetLoadingType, SetChunkSize, View, Hear, OnInitializationDone,
            OnCapabilitiesChanged, OnCountChanged, OnDataFetched, OnDataChanged,
            SignalLost, RegisterInstance, UnregisterInstance

LEMMA StepUnique ==
    ASSUME Careful, Typed, EditsUnique, Next
    PROVE  EditsUnique'
<1>1. CASE BackendEdits
  <2>1. PICK start \in Nat, count \in Nat, data \in Seq(Items) : Edit(start, count, data)
      BY <1>1, EditsAnnounced DEF Announced
  <2>2. signals = <<>> /\ SignalsGrow(Change(start, count, data))
      BY <2>1, EditAdds DEF Edit, Careful, Settled
  <2> QED BY <2>2 DEF SignalsGrow, EditsUnique
<1>2. CASE ServeFetchData
  <2>1. PICK told \in Seq(Signal) : Tells(told)
      BY <1>2, ServeTells
  <2>2. \A i \in DOMAIN signals' :
            \/ i \in DOMAIN signals /\ signals'[i] = signals[i]
            \/ /\ i - Len(signals) \in DOMAIN told
               /\ signals'[i] = told[i - Len(signals)]
      BY <2>1, ConcatAt DEF Tells, Typed, SignalsTyped
  <2>3. \A i \in DOMAIN signals' : EditArriving(i)' => EditArriving(i)
      BY <2>1, <2>2 DEF Tells, EditArriving
  <2> QED BY <2>3 DEF EditsUnique, EditArriving
<1>3. CASE ~BackendEdits /\ ~ServeFetchData
    BY <1>3, SignalsKept DEF EditsUnique, EditArriving, SameSignals, ShiftedSignals
<1> QED BY <1>1, <1>2, <1>3

\* Which pages are asked for when the backend has taken a call.
LEMMA AskedShrinks ==
    ASSUME Typed, CallsShrink, identifier' = identifier,
           registered' \subseteq registered \cup
               {id \in {requests[1].id} : requests[1].kind = "registerInstance"}
    PROVE  ShiftedCalls
<1> SUFFICES ASSUME NEW i \in DOMAIN requests', Asked(i)'
             PROVE  /\ i \in Nat /\ i + 1 \in DOMAIN requests /\ Asked(i + 1)
                    /\ requests'[i] = requests[i + 1]
    BY DEF ShiftedCalls
<1>1. i \in Nat /\ i > 0 /\ i + 1 \in DOMAIN requests /\ requests'[i] = requests[i + 1]
    BY DEF CallsShrink
<1>2. Fetches(i + 1)
    BY <1>1 DEF Asked, Fetches
<1>3. CASE identifier \in registered'
  <2>1. CASE identifier \in registered
      BY <1>1, <1>2, <2>1 DEF Asked
  <2>2. CASE identifier \notin registered
    <3>1. 1 \in DOMAIN requests /\ Registering(1) /\ 1 < i + 1
        BY <1>1, <1>3, <2>2 DEF CallsShrink, Registering
    <3> QED BY <1>1, <1>2, <3>1 DEF Asked
  <2> QED BY <1>1, <2>1, <2>2
<1>4. CASE \E j \in DOMAIN requests' : j < i /\ Registering(j)'
  <2>1. PICK j \in DOMAIN requests' : j < i /\ Registering(j)'
      BY <1>4
  <2>2. j \in Nat /\ j + 1 \in DOMAIN requests /\ Registering(j + 1) /\ j + 1 < i + 1
      BY <1>1, <2>1 DEF CallsShrink, Registering
  <2> QED BY <1>1, <1>2, <2>2 DEF Asked
<1> QED BY <1>3, <1>4 DEF Asked

\* Which pages are asked for when the model has made a call.
LEMMA AskedGrows ==
    ASSUME Typed, NEW e, CallsGrow(e), e.kind # "registerInstance",
           identifier' = identifier, registered' = registered
    PROVE  \A i \in DOMAIN requests' :
              Asked(i)' => \/ i \in DOMAIN requests /\ Asked(i) /\ requests'[i] = requests[i]
                           \/ i = Len(requests) + 1 /\ requests'[i] = e
<1> SUFFICES ASSUME NEW i \in DOMAIN requests', Asked(i)', i \in DOMAIN requests,
                    requests'[i] = requests[i]
             PROVE  Asked(i)
    BY DEF CallsGrow
<1>1. Fetches(i)
    BY DEF Asked, Fetches
<1>2. \A j \in DOMAIN requests' : Registering(j)' => j \in DOMAIN requests /\ Registering(j)
    BY DEF CallsGrow, Registering
<1> QED BY <1>1, <1>2 DEF Asked

LEMMA EmptyIsPrefix ==
    ASSUME Typed
    PROVE  IsPrefixOf(<<>>, content)
<1>1. Len(content) \in Nat
    BY LenProperties DEF Typed
<1>2. SubSeq(content, 1, 0) = <<>>
    BY SubSeqEmpty
<1>3. Len(<<>>) = 0
    OBVIOUS
<1> QED BY <1>1, <1>2, <1>3 DEF IsPrefixOf

\* A reset of a model with nothing under way asks for the first page.
LEMMA SettledReset ==
    ASSUME Typed, EditsUnique, Settled, ResetModel(<<>>), Live' => isConnected,
           UNCHANGED <<identifier, registered, signals, content>>
    PROVE  ListInv'
<1>1. CASE ~Live'
    BY <1>1, NotLive DEF EditsUnique, EditArriving
<1>2. CASE Live'
  <2>1. CallsGrow(FetchRequest(0)) /\ FetchRequest(0).kind # "registerInstance"
      BY <1>2, ResetAdds DEF FetchRequest
  <2>2. \A i \in DOMAIN requests' : Asked(i)' => /\ i = Len(requests) + 1
                                                /\ requests'[i] = FetchRequest(0)
    <3>1. DOMAIN requests = {}
        BY DEF Settled
    <3> QED BY <2>1, <3>1, AskedGrows
  <2>3. itemList' = <<>> /\ Len(itemList') = 0 /\ DOMAIN signals' = {}
      BY DEF ResetModel, Settled
  <2>4. ~moreAvailable'
      BY <1>2 DEF ResetModel
  <2>5. IsPrefixOf(itemList', content')
      BY <2>3, EmptyIsPrefix
  <2> QED BY <2>2, <2>3, <2>4, <2>5, Loading DEF FetchRequest
<1> QED BY <1>1, <1>2

LEMMA ConnectKeepsList ==
    ASSUME Careful, Typed, SessionInv, ListInv, Connect
    PROVE  ListInv'
<1>1. /\ ~isInitialized /\ itemList = <<>> /\ fetchedCount = 0
      /\ identifier \notin registered
      /\ \A i \in DOMAIN requests : ~Registering(i)
      /\ \A i \in DOMAIN signals : ~Arriving(i)
    BY DEF Connect, SessionInv, Unset, NotStarted
<1>2. [kind |-> "initialize"] \in Request
    BY DEF Request
<1>3. CallsGrow([kind |-> "initialize"])
    BY <1>2, CallAdded DEF Connect
<1>4. \A i \in DOMAIN requests' : ~Asked(i)'
    BY <1>1, <1>3, AskedGrows DEF Connect, backendVars, Asked, Fetches
<1>5. \A i \in DOMAIN signals' : ~Arriving(i)' /\ ~EditArriving(i)'
    BY <1>1 DEF Connect, Careful, Arriving, EditArriving
<1>6. itemList' = <<>> /\ fetchedCount' = Len(itemList') /\ content' = content
    BY <1>1 DEF Connect, listVars, backendVars
<1>7. IsPrefixOf(itemList', content')
    BY <1>6, EmptyIsPrefix
<1> QED BY <1>4, <1>5, <1>6, <1>7, Loading

LEMMA FetchMoreKeepsList ==
    ASSUME Careful, Typed, ListInv, FetchMore
    PROVE  ListInv'
<1> USE DEF sessionVars, settingVars, backendVars
<1>1. CASE ~Live
    BY <1>1, NotLive DEF FetchMore, Live, ListInv, EditsUnique, EditArriving
<1>2. CASE Live
  <2>1. /\ moreAvailable /\ NoPage /\ fetchedCount = Len(itemList)
        /\ \A i \in DOMAIN signals : ~EditArriving(i)
      BY <1>2 DEF FetchMore, CanFetchMore, ListInv, OnePage, EditMeetsList
  <2>2. CallsGrow(FetchRequest(fetchedCount))
        /\ FetchRequest(fetchedCount).kind # "registerInstance"
    <3>1. FetchRequest(fetchedCount) \in Request
        BY FetchRequestTyped DEF Typed
    <3> QED BY <3>1, CallAdded DEF FetchMore, FetchData, FetchRequest
  <2>3. \A i \in DOMAIN requests' :
            Asked(i)' => /\ i = Len(requests) + 1
                         /\ requests'[i] = FetchRequest(fetchedCount)
      BY <2>1, <2>2, AskedGrows DEF NoPage, FetchMore
  <2>4. \A i \in DOMAIN signals' : ~Arriving(i)' /\ ~EditArriving(i)'
      BY <2>1 DEF FetchMore, NoPage, Arriving, EditArriving
  <2>5. itemList' = itemList /\ ~moreAvailable' /\ content' = content
      BY DEF FetchMore, FetchData
  <2>6. IsPrefixOf(itemList, content)
      BY <1>2, <2>1
      DEF ListInv, ListIsPrefixOfContent, Live, NoEditPending, EditArriving, IsPrefixOf
  <2> QED BY <2>1, <2>3, <2>4, <2>5, <2>6, Loading DEF FetchRequest
<1> QED BY <1>1, <1>2

LEMMA StartKeepsList ==
    ASSUME Careful, Typed, SessionInv, ListInv, OnInitializationDone, Starts
    PROVE  ListInv'
<1>1. /\ isConnected /\ ~isInitialized
      /\ ResetModel(<<RegisterRequest>>)
      /\ UNCHANGED <<identifier, registered, content, loadingType, isConnected>>
      /\ signals # <<>> /\ signals' = Tail(signals)
    BY DEF OnInitializationDone, Hear, Starts, RegisterRequest, settingVars, backendVars
<1>2. /\ identifier \notin registered
      /\ \A i \in DOMAIN requests : ~Registering(i)
      /\ \A i \in DOMAIN signals : ~Arriving(i) /\ ~EditArriving(i)
    BY <1>1 DEF SessionInv, NotStarted, Starting
<1>3. /\ \A i \in DOMAIN requests : i \in DOMAIN requests' /\ requests'[i] = requests[i]
      /\ \A i \in DOMAIN requests' :
            \/ i \in DOMAIN requests /\ requests'[i] = requests[i]
            \/ i = Len(requests) + 1 /\ requests'[i] = RegisterRequest
            \/ i = Len(requests) + 2 /\ requests'[i] = FetchRequest(0)
    BY <1>1, StartAdds
<1>4. Len(requests) \in Nat /\ DOMAIN requests = 1..Len(requests)
    BY LenProperties DEF Typed
<1>5. \A j \in DOMAIN requests' : Registering(j)' => j = Len(requests) + 1
    BY <1>1, <1>2, <1>3 DEF Registering, FetchRequest
<1>6. \A i \in DOMAIN requests' :
          Asked(i)' => i = Len(requests) + 2 /\ requests'[i] = FetchRequest(0)
  <2> SUFFICES ASSUME NEW i \in DOMAIN requests', Asked(i)'
               PROVE  i = Len(requests) + 2 /\ requests'[i] = FetchRequest(0)
      OBVIOUS
  <2>1. \E j \in DOMAIN requests' : j < i /\ j = Len(requests) + 1
      BY <1>1, <1>2, <1>5 DEF Asked
  <2>2. requests'[i].kind = "fetchData"
      BY DEF Asked, Fetches
  <2> QED BY <1>3, <1>4, <2>1, <2>2 DEF RegisterRequest
<1>7. \A i \in DOMAIN signals' : ~Arriving(i)' /\ ~EditArriving(i)'
    BY <1>1, <1>2, SignalTaken DEF SignalsShrink, Arriving, EditArriving
<1>8. itemList' = <<>> /\ Len(itemList') = 0 /\ ~moreAvailable'
    BY <1>1 DEF ResetModel
<1>9. IsPrefixOf(itemList', content')
    BY <1>1, <1>8, EmptyIsPrefix
<1> QED BY <1>6, <1>7, <1>8, <1>9, Loading DEF FetchRequest

\* The rows and the page that follows them are a prefix again.
LEMMA NextPageExtends ==
    ASSUME Typed, IsPrefixOf(itemList, content), NEW s, NextPage(s), s.items # <<>>,
           s.items \in Seq(Items)
    PROVE  IsPrefixOf(itemList \o s.items, content)
<1> DEFINE k == Len(itemList)
           n == k + Len(s.items)
<1>1. k \in Nat /\ Len(s.items) \in Nat /\ Len(content) \in Nat
    BY LenProperties DEF Typed
<1>2. /\ itemList = SubSeq(content, 1, k) /\ s.items = SubSeq(content, k + 1, n)
      /\ n <= Len(content)
    BY DEF IsPrefixOf, NextPage
<1>3. SubSeq(content, 1, k) \o SubSeq(content, k + 1, n) = SubSeq(content, 1, n)
  <2>1. 1 \in 1..Len(content) + 1 /\ k \in 1 - 1..Len(content) /\ n \in k..Len(content)
      BY <1>1, <1>2
  <2> HIDE DEF k, n
  <2> QED BY <2>1, ConcatAdjacentSubSeq DEF Typed
<1>4. Len(SubSeq(content, 1, n)) = n
  <2>1. n \in Nat
      BY <1>1
  <2> HIDE DEF n
  <2> QED BY <1>2, <2>1, Slice DEF Typed
<1> HIDE DEF k, n
<1> QED BY <1>2, <1>3, <1>4 DEF IsPrefixOf

LEMMA FetchedKeepsList ==
    ASSUME Careful, Typed, SessionInv, ListInv, OnDataFetched
    PROVE  ListInv'
<1> USE DEF sessionVars, settingVars, backendVars
<1> DEFINE s == Head(signals)
<1>1. /\ isConnected /\ SignalsShrink /\ s = signals[1] /\ 1 \in DOMAIN signals
      /\ s.kind = "dataFetched" /\ signals' = Tail(signals)
    BY SignalTaken DEF OnDataFetched, Hear, SignalsShrink
<1>2. UNCHANGED <<isConnected, identifier, loadingType, content, registered, requests>>
    BY DEF OnDataFetched
<1>3. EditsUnique'
    BY <1>1 DEF ListInv, EditsUnique, EditArriving, SignalsShrink
<1>4. CASE ~Live
    BY <1>2, <1>3, <1>4, NotLive DEF Live
<1>5. CASE Live /\ (~Accepts(s) \/ s.items = <<>>)
  <2>1. UNCHANGED listVars
      BY <1>5 DEF OnDataFetched
  <2>2. SameCalls
      BY <1>2 DEF SameCalls, Asked, Fetches, Registering
  <2>3. ShiftedSignals
      BY <1>1 DEF SignalsShrink, ShiftedSignals
  <2>4. NoEditPending' => NoEditPending
      BY <1>1 DEF SignalsShrink, NoEditPending
  <2> QED BY <1>2, <2>1, <2>2, <2>3, <2>4, Quiet DEF listVars
<1>6. CASE Live /\ Accepts(s) /\ s.items # <<>>
  <2>1. Arriving(1)
    <3>1. Known(s.id) /\ identifier \in Nat
        BY <1>1 DEF SessionInv, IdsKnown, Typed
    <3>2. s.id # Everyone
        BY <3>1 DEF Known, Everyone
    <3> QED BY <1>1, <1>6, <3>2 DEF Accepts, Arriving
  <2>2. /\ NextPage(s) /\ ~moreAvailable
        /\ \A i \in DOMAIN requests : ~Asked(i)
        /\ \A i \in DOMAIN signals : Arriving(i) => i = 1
        /\ \A i \in DOMAIN signals : ~EditArriving(i)
      BY <1>1, <1>6, <2>1 DEF ListInv, OnePage, EditMeetsList, NoPage
  <2>3. /\ itemList' = itemList \o s.items /\ fetchedCount' = Len(itemList')
      BY <1>6 DEF OnDataFetched, Live
  <2>4. \A i \in DOMAIN requests' : ~Asked(i)'
      BY <1>2, <2>2 DEF Asked, Fetches, Registering
  <2>5. \A i \in DOMAIN signals' : ~Arriving(i)' /\ ~EditArriving(i)'
      BY <1>1, <1>2, <2>2 DEF SignalsShrink, Arriving, EditArriving
  <2>6. IsPrefixOf(itemList', content')
    <3>1. IsPrefixOf(itemList, content)
        BY <1>6, <2>2
        DEF ListInv, ListIsPrefixOfContent, Live, NoEditPending, EditArriving, IsPrefixOf
    <3>2. s.items \in Seq(Items)
      <4>1. s \in Signal
          BY <1>1, TakeSignal DEF Typed, OnDataFetched, Hear
      <4> QED BY <1>1, <4>1 DEF Signal
    <3> HIDE DEF s
    <3> QED BY <1>2, <1>6, <2>2, <2>3, <3>1, <3>2, NextPageExtends
  <2> QED BY <2>3, <2>4, <2>5, <2>6, Loading
<1> QED BY <1>4, <1>5, <1>6

LEMMA ChangedKeepsList ==
    ASSUME Careful, Typed, SessionInv, ListInv, OnDataChanged
    PROVE  ListInv'
<1> USE DEF sessionVars, settingVars, backendVars
<1> DEFINE s == Head(signals)
<1>1. /\ isConnected /\ SignalsShrink /\ s = signals[1] /\ 1 \in DOMAIN signals
      /\ s.kind = "dataChanged" /\ signals' = Tail(signals)
    BY SignalTaken DEF OnDataChanged, Hear, SignalsShrink
<1>2. UNCHANGED <<isConnected, identifier, loadingType, content, registered, requests,
                  moreAvailable>>
    BY DEF OnDataChanged
<1>3. EditsUnique'
    BY <1>1 DEF ListInv, EditsUnique, EditArriving, SignalsShrink
<1>4. CASE ~Live
    BY <1>2, <1>3, <1>4, NotLive DEF Live
<1>5. CASE Live
  <2>1. EditArriving(1) /\ s \in Signal
      BY <1>1, TakeSignal DEF EditArriving, Typed, OnDataChanged, Hear
  <2>2. /\ ~moreAvailable /\ NoPage /\ EditFits(s)
        /\ \A i \in DOMAIN signals : EditArriving(i) => i = 1
      BY <1>1, <1>5, <2>1 DEF ListInv, EditMeetsList, EditsUnique
  <2>3. s.items \in Seq(Row) /\ s.start \in Nat /\ s.count \in Nat
    <3>1. s.items \in Seq(Items) /\ s.start \in Nat /\ s.count \in Nat
        BY <1>1, <2>1 DEF Signal
    <3> QED BY <3>1, SeqMonotonic DEF Row
  <2>4. itemList' = content
    <3>1. itemList' = ChangedRows(s.items, s.start, s.count)
        BY <2>2 DEF OnDataChanged, EditFits
    <3> HIDE DEF s
    <3> QED BY <2>2, <2>3, <3>1, EditApplied DEF EditFits, Typed
  <2>5. IsPrefixOf(itemList', content')
    <3>1. SubSeq(content, 1, Len(content)) = content /\ Len(content) \in Nat
        BY SubSeqFull, LenProperties DEF Typed
    <3> QED BY <1>2, <2>4, <3>1 DEF IsPrefixOf
  <2>6. \A i \in DOMAIN requests' : ~Asked(i)'
      BY <1>2, <2>2 DEF NoPage, Asked, Fetches, Registering
  <2>7. \A i \in DOMAIN signals' : ~Arriving(i)' /\ ~EditArriving(i)'
      BY <1>1, <1>2, <2>2 DEF NoPage, SignalsShrink, Arriving, EditArriving
  <2> QED BY <1>2, <2>2, <2>5, <2>6, <2>7, Loading
<1> QED BY <1>4, <1>5

\* The page a backend answers the model's call with.
LEMMA ServedPage ==
    ASSUME Typed, NEW r \in Request, r.kind = "fetchData", NEW s,
           r.start = Len(itemList), AnswersTo(r, s)
    PROVE  NextPage(s)
<1> DEFINE n == Len(content)
           end == IF r.start + r.count < n THEN r.start + r.count ELSE n
<1>1. r.start \in Nat /\ r.count \in Nat /\ n \in Nat
    BY LenProperties DEF Typed, Request
<1>2. s.start = r.start /\ s.items = SubSeq(content, r.start + 1, end)
    BY DEF AnswersTo, Page
<1>3. r.start + 1 \in Nat \ {0} /\ end \in Int /\ end <= n
    BY <1>1
<1>4. /\ s.items \in Seq(Items)
      /\ Len(s.items) = IF r.start + 1 <= end THEN end - (r.start + 1) + 1 ELSE 0
  <2> HIDE DEF end
  <2> QED BY <1>2, <1>3, Slice DEF Typed
<1>5. s.items # <<>> => r.start + Len(s.items) = end
  <2>1. s.items # <<>> => Len(s.items) # 0
      BY <1>4, EmptySeq
  <2> HIDE DEF end
  <2> QED BY <1>1, <1>3, <1>4, <2>1
<1> HIDE DEF end
<1> QED BY <1>2, <1>3, <1>5 DEF NextPage

LEMMA ServeKeepsList ==
    ASSUME Careful, Typed, SessionInv, ListInv, ServeFetchData
    PROVE  ListInv'
<1> USE DEF sessionVars, listVars, settingVars, backendVars
<1> DEFINE r == Head(requests)
<1>1. PICK told \in Seq(Signal) : Tells(told)
    BY ServeTells
<1>2. /\ \A i \in DOMAIN signals : i \in DOMAIN signals' /\ signals'[i] = signals[i]
      /\ \A i \in DOMAIN signals' :
            \/ i \in DOMAIN signals /\ signals'[i] = signals[i]
            \/ /\ i \in Nat /\ i > Len(signals) /\ i - Len(signals) \in DOMAIN told
               /\ signals'[i] = told[i - Len(signals)]
    BY <1>1, ConcatAt DEF Tells, Typed, SignalsTyped
<1>3. /\ CallsShrink /\ r = requests[1] /\ 1 \in DOMAIN requests
      /\ r.kind = "fetchData" /\ r \in Request
    BY CallTaken, ElementOfSeq, LenProperties DEF ServeFetchData, Typed, CallsShrink
<1>4. UNCHANGED <<isConnected, identifier, loadingType, itemList, content, registered,
                  moreAvailable, fetchedCount>>
    BY DEF ServeFetchData
<1>5. ShiftedCalls
    BY <1>3, <1>4, AskedShrinks
<1>6. ASSUME \A i \in DOMAIN told :
                told[i].kind = "dataFetched" => told[i].id # identifier
      PROVE  ListInv'
  <2>1. SameSignals
      BY <1>1, <1>2, <1>4, <1>6 DEF Tells, SameSignals, Arriving
  <2>2. NoEditPending' => NoEditPending
      BY <1>2 DEF NoEditPending
  <2> QED BY <1>4, <1>5, <2>1, <2>2, Quiet
<1>7. CASE r.id = identifier /\ identifier \in registered /\ Live
  <2>1. Asked(1)
      BY <1>3, <1>7 DEF Asked, Fetches
  <2>2. /\ \A i \in DOMAIN requests : Asked(i) => i = 1
        /\ r.start = Len(itemList) /\ ~moreAvailable
        /\ \A i \in DOMAIN signals : ~Arriving(i) /\ ~EditArriving(i)
      BY <1>3, <1>7, <2>1 DEF ListInv, OnePage, EditMeetsList, NoPage
  <2>3. \A i \in DOMAIN requests' : ~Asked(i)'
      BY <1>3, <1>5, <2>2 DEF ShiftedCalls, CallsShrink
  <2>4. \A i \in DOMAIN signals' : ~EditArriving(i)'
      BY <1>1, <1>2, <2>2 DEF Tells, EditArriving
  <2>5. \A i \in DOMAIN signals' :
            Arriving(i)' => i - Len(signals) = 3 /\ i \in Nat /\ AnswersTo(r, signals'[i])
      BY <1>1, <1>2, <1>4, <2>2 DEF Tells, Arriving
  <2>6. \A i, j \in DOMAIN signals' : Arriving(i)' /\ Arriving(j)' => i = j
    <3>1. Len(signals) \in Nat
        BY LenProperties DEF Typed, SignalsTyped
    <3> QED BY <2>5, <3>1
  <2>7. \A i \in DOMAIN signals' : Arriving(i)' => NextPage(signals[i])'
    <3>1. \A i \in DOMAIN signals' : Arriving(i)' => NextPage(signals'[i])
      <4> HIDE DEF r
      <4> QED BY <1>3, <2>2, <2>5, ServedPage
    <3> QED BY <1>4, <3>1 DEF NextPage
  <2>8. OnePage'
      BY <1>4, <2>2, <2>3, <2>6, <2>7 DEF OnePage
  <2>9. EditsUnique' /\ EditMeetsList'
      BY <2>4 DEF EditsUnique, EditMeetsList
  <2>10. ListIsPrefixOfContent'
    <3>1. NoEditPending
        BY <2>2 DEF NoEditPending, EditArriving
    <3> QED BY <1>4, <3>1 DEF ListInv, ListIsPrefixOfContent
  <2> QED BY <2>8, <2>9, <2>10 DEF ListInv
<1>8. CASE ~Live
  <2>1. EditsUnique'
      BY StepUnique DEF Next, ListInv
  <2> QED BY <1>4, <1>8, <2>1, NotLive DEF Live
<1>9. CASE ~(r.id = identifier /\ identifier \in registered)
    BY <1>1, <1>6, <1>9 DEF Tells, AnswersTo
<1> QED BY <1>7, <1>8, <1>9

\* An edit meets a model that holds the whole list, and nothing is under way.
LEMMA EditKeepsList ==
    ASSUME Careful, Typed, ListInv, BackendEdits
    PROVE  ListInv'
<1> USE DEF sessionVars, listVars, settingVars
<1>1. PICK start \in Nat, count \in Nat, data \in Seq(Items) :
          /\ Edit(start, count, data) /\ start + count <= Len(content)
          /\ count = 0 \/ Len(data) = count \/ (data = <<>> /\ count \in Removals)
    BY EditsAnnounced DEF Announced
<1> DEFINE s == Change(start, count, data)
<1>2. /\ requests = <<>> /\ signals = <<>>
      /\ isConnected => HoldsAll
      /\ UNCHANGED <<isConnected, identifier, loadingType, itemList, requests,
                     moreAvailable, fetchedCount>>
      /\ content' = Edited(content, data, start, count)
    BY <1>1 DEF Edit, Careful, Settled, Edited
<1>3. /\ 1 \in DOMAIN signals' /\ signals'[1] = s
      /\ \A i \in DOMAIN signals' : signals'[i] = s
    BY <1>1, <1>2, EditAdds DEF SignalsGrow
<1>4. s.kind = "dataChanged" /\ s.start = start /\ s.count = count /\ s.items = data
    BY DEF Change
<1>5. EditsUnique'
    BY StepUnique DEF Next, BackendEdits, ListInv
<1>6. CASE ~Live
    BY <1>2, <1>5, <1>6, NotLive DEF Live
<1>7. CASE Live
  <2>1. itemList = content /\ ~moreAvailable
      BY <1>2, <1>7 DEF Live, HoldsAll
  <2>2. DOMAIN requests' = {}
      BY <1>2
  <2> HIDE DEF s
  <2>3. NoPage'
      BY <1>3, <1>4, <2>2 DEF NoPage, Arriving
  <2>4. EditFits(s)'
      BY <1>1, <1>2, <1>4, <2>1 DEF EditFits, Careful
  <2>5. OnePage'
      BY <1>2, <1>3, <1>4, <2>1, <2>2 DEF OnePage, Arriving
  <2>6. EditMeetsList'
      BY <1>2, <1>3, <2>1, <2>3, <2>4 DEF EditMeetsList, EditFits
  <2>7. ListIsPrefixOfContent'
      BY <1>3, <1>4 DEF ListIsPrefixOfContent, NoEditPending
  <2> QED BY <1>5, <2>5, <2>6, <2>7 DEF ListInv
<1> QED BY <1>6, <1>7

\* A call the backend takes that moves neither the rows nor a page.
LEMMA TakenKeepsList ==
    ASSUME Typed, SessionInv, ListInv, Next,
           Initialize \/ RegisterInstance \/ UnregisterInstance
    PROVE  ListInv'
<1> USE DEF sessionVars, listVars, settingVars, backendVars
<1>1. CallsShrink /\ Head(requests) = requests[1]
    BY CallTaken DEF Initialize, RegisterInstance, UnregisterInstance, CallsShrink
<1>2. registered' \subseteq registered \cup
          {id \in {requests[1].id} : requests[1].kind = "registerInstance"}
  <2>1. CASE RegisterInstance
    <3>1. registered' = registered \cup {requests[1].id}
          /\ requests[1].kind = "registerInstance"
        BY <1>1, <2>1 DEF RegisterInstance, Take
    <3> QED BY <3>1
  <2> QED BY <2>1 DEF Initialize, UnregisterInstance
<1>3. UNCHANGED <<isConnected, identifier, loadingType, itemList, content,
                  moreAvailable, fetchedCount>>
    BY DEF Initialize, RegisterInstance, UnregisterInstance
<1>4. ShiftedCalls
    BY <1>1, <1>2, <1>3, AskedShrinks
<1>5. SameSignals /\ (NoEditPending' => NoEditPending)
  <2>1. CASE signals' = signals
      BY <2>1 DEF SameSignals, NoEditPending
  <2>2. CASE Initialize
    <3>1. [kind |-> "initializationDone"] \in Signal
        BY DEF Signal
    <3>2. SignalsGrow([kind |-> "initializationDone"])
        BY <2>2, <3>1, SignalAdded DEF Initialize
    <3> QED BY <3>2 DEF SignalsGrow, SameSignals, NoEditPending, Arriving
  <2> QED BY <2>1, <2>2 DEF RegisterInstance, UnregisterInstance
<1> QED BY <1>3, <1>4, <1>5, Quiet

\* A signal that says nothing of the rows of a FetchMore list.
LEMMA HeardKeepsList ==
    ASSUME Careful, Typed, ListInv, Next,
           \/ OnInitializationDone /\ ~Starts
           \/ OnCapabilitiesChanged \/ OnCountChanged
    PROVE  ListInv'
<1> USE DEF sessionVars, listVars, settingVars, backendVars
<1>1. /\ signals # <<>> /\ signals' = Tail(signals)
      /\ Head(signals).kind # "dataChanged"
      /\ UNCHANGED <<isConnected, identifier, loadingType, requests, registered,
                     content, moreAvailable, fetchedCount>>
    BY DEF OnInitializationDone, OnCapabilitiesChanged, OnCountChanged, Hear
<1>2. SignalsShrink
    BY <1>1, SignalTaken
<1>3. CASE ~Live
  <2>1. EditsUnique'
      BY StepUnique DEF ListInv
  <2> QED BY <1>1, <1>3, <2>1, NotLive DEF Live
<1>4. CASE Live
  <2>1. itemList' = itemList
      BY <1>4 DEF OnInitializationDone, OnCapabilitiesChanged, OnCountChanged,
                  CountIsNew, Live
  <2>2. SameCalls
      BY <1>1 DEF SameCalls, Asked, Fetches, Registering
  <2>3. ShiftedSignals
      BY <1>2 DEF SignalsShrink, ShiftedSignals
  <2>4. NoEditPending' => NoEditPending
      BY <1>1, <1>2 DEF SignalsShrink, NoEditPending
  <2> QED BY <1>1, <2>1, <2>2, <2>3, <2>4, Quiet
<1> QED BY <1>3, <1>4

LEMMA QuietKeepsList ==
    ASSUME Typed, ListInv,
           AnnounceAgain \/ \E size \in ChunkSizes : SetChunkSize(size)
    PROVE  ListInv'
<1> USE DEF sessionVars, listVars, settingVars, backendVars
<1>1. UNCHANGED <<isConnected, identifier, loadingType, itemList, content,
                  moreAvailable, fetchedCount, requests, registered>>
    BY DEF AnnounceAgain, SetChunkSize
<1>2. SameCalls
    BY <1>1 DEF SameCalls, Asked, Fetches, Registering
<1>3. SameSignals /\ (NoEditPending' => NoEditPending)
  <2>1. CASE signals' = signals
      BY <2>1 DEF SameSignals, NoEditPending
  <2>2. CASE AnnounceAgain
    <3>1. [kind |-> "initializationDone"] \in Signal
        BY DEF Signal
    <3>2. SignalsGrow([kind |-> "initializationDone"])
        BY <2>2, <3>1, SignalAdded DEF AnnounceAgain
    <3> QED BY <3>2 DEF SignalsGrow, SameSignals, NoEditPending, Arriving
  <2> QED BY <2>1, <2>2 DEF SetChunkSize
<1> QED BY <1>1, <1>2, <1>3, Quiet

LEMMA ResetKeepsList ==
    ASSUME Careful, Typed, SessionInv, ListInv,
           Reload \/ \E type \in LoadingType : SetLoadingType(type)
    PROVE  ListInv'
<1>1. /\ Settled /\ ResetModel(<<>>)
      /\ UNCHANGED <<isConnected, identifier, registered, signals, content>>
    BY DEF Reload, SetLoadingType, Calm, Careful, sessionVars, backendVars
<1>2. EditsUnique /\ (Live' => isConnected)
    BY <1>1 DEF ListInv, Live
<1> QED BY <1>1, <1>2, SettledReset

LEMMA StepList == Careful /\ Typed /\ SessionInv /\ ListInv /\ [Next]_vars => ListInv'
<1> SUFFICES ASSUME Careful, Typed, SessionInv, ListInv, [Next]_vars PROVE ListInv'
    OBVIOUS
<1>1. CASE UNCHANGED vars
  <2>1. SameCalls
      BY <1>1 DEF vars, sessionVars, backendVars, SameCalls, Asked, Fetches, Registering
  <2>2. SameSignals /\ (NoEditPending' => NoEditPending)
      BY <1>1 DEF vars, SameSignals, NoEditPending
  <2>3. UNCHANGED <<isConnected, identifier, loadingType, itemList, content,
                    moreAvailable, fetchedCount>>
      BY <1>1 DEF vars, sessionVars, listVars, settingVars, backendVars
  <2> QED BY <2>1, <2>2, <2>3, Quiet
<1>2. CASE Next
  <2>1. EditsUnique'
      BY <1>2, StepUnique DEF ListInv
  <2>2. CASE Disconnect \/ SignalLost
      BY <2>1, <2>2, NotLive DEF Disconnect, SignalLost, Live, sessionVars
  <2>3. ASSUME NEW row \in Rows, View(row) PROVE ListInv'
      BY <2>1, <2>3, NotLive DEF View, Live, settingVars
  <2>4. CASE Connect
      BY <2>4, ConnectKeepsList
  <2>5. CASE FetchMore
      BY <2>5, FetchMoreKeepsList
  <2>6. CASE Reload \/ \E type \in LoadingType : SetLoadingType(type)
      BY <2>6, ResetKeepsList
  <2>7. CASE AnnounceAgain \/ \E size \in ChunkSizes : SetChunkSize(size)
      BY <2>7, QuietKeepsList
  <2>8. CASE OnInitializationDone
      BY <1>2, <2>8, StartKeepsList, HeardKeepsList
  <2>9. CASE OnCapabilitiesChanged \/ OnCountChanged
      BY <1>2, <2>9, HeardKeepsList
  <2>10. CASE OnDataFetched
      BY <2>10, FetchedKeepsList
  <2>11. CASE OnDataChanged
      BY <2>11, ChangedKeepsList
  <2>12. CASE Initialize \/ RegisterInstance \/ UnregisterInstance
      BY <1>2, <2>12, TakenKeepsList
  <2>13. CASE ServeFetchData
      BY <2>13, ServeKeepsList
  <2>14. CASE BackendEdits
      BY <2>14, EditKeepsList
  <2> QED BY <1>2, <2>2, <2>3, <2>4, <2>5, <2>6, <2>7, <2>8, <2>9, <2>10, <2>11,
             <2>12, <2>13, <2>14 DEF Next, BackendEdits
<1> QED BY <1>1, <1>2

LEMMA InitList == Init => ListInv
<1>1. DOMAIN <<>> = {}
    OBVIOUS
<1>2. Init => EditsUnique /\ ~isConnected
    BY <1>1 DEF Init, EditsUnique
<1> QED BY <1>2 DEF ListInv, OnePage, EditMeetsList, ListIsPrefixOfContent, Live

(* The rows of a FetchMore list are the first items of the backend's list,   *)
(* in order and each once, for any items, chunk sizes and sessions: no page  *)
(* of an earlier session, second announcement, repeated fetchMore() or edit  *)
(* spoils them.  It takes a patient application, and a backend that removes  *)
(* one row at a time: onDataChanged() removes the wrong rows otherwise.      *)
THEOREM RowsArePrefix ==
    ASSUME Careful
    PROVE  Spec => []ListIsPrefixOfContent
<1>1. Init => Typed /\ SessionInv /\ ListInv
    BY InitTyped, InitSession, InitList
<1>2. Typed /\ SessionInv /\ ListInv /\ [Next]_vars
          => (Typed /\ SessionInv /\ ListInv)'
    BY StepTyped, StepSession, StepList
<1>3. ListInv => ListIsPrefixOfContent
    BY DEF ListInv
<1> QED BY <1>1, <1>2, <1>3, PTL DEF Spec

------------------------------------------------------------------------------
(* The rows of a DataChanged list: each blank or in its place, and those of  *)
(* a chunk marked available there or on their way.                           *)

Filling == loadingType = "DataChanged"

\* The session's instance is known, or will be by the time its pages are served.
Enrolled ==
    /\ isInitialized => identifier \in registered
                            \/ \E i \in DOMAIN requests : Registering(i)
    /\ \A i \in DOMAIN requests :
          requests[i].kind = "unregisterInstance" => requests[i].id # identifier

\* Counts tell the present length, and an edit comes before all that follows it.
SignalsFresh ==
    /\ \A i \in DOMAIN signals :
          signals[i].kind = "countChanged" => signals[i].length = Len(content)
    /\ \A i \in DOMAIN signals : EditArriving(i) => i = 1

ChunkStart(start) == start = (start \div chunkSize) * chunkSize

(* The list has shown the whole content since it was reset.  No chunk has to *)
(* be fetched for it, which is why an edit may leave its chunks behind.      *)
Complete ==
    /\ itemList \in Seq(Items)
    /\ NoEditPending => Len(itemList) = Len(content)

\* Otherwise the list is not cut into chunks yet, or just as its length demands.
Cut == \/ itemList = <<>> /\ chunkCount = 0 /\ availableChunks = {} /\ fetchedCount = 0
       \/ itemList # <<>> /\ chunkCount = ChunksFor(Len(content))

PagesTrue ==
    /\ \A i \in DOMAIN requests : Fetches(i) => requests[i].count = chunkSize
    /\ \A i \in DOMAIN signals :
          Arriving(i) => signals[i].items = Page(content, signals[i].start, chunkSize)

EditsFit == \A i \in DOMAIN signals :
                EditArriving(i) => EditFits(signals[i]) /\ itemList \in Seq(Items)

\* Pages begin where chunks do.
PagesAligned ==
    /\ moreAvailable => ChunkStart(fetchedCount)
    /\ \A i \in DOMAIN requests : Fetches(i) => ChunkStart(requests[i].start)
    /\ \A i \in DOMAIN signals : Arriving(i) =>
          /\ ChunkStart(signals[i].start)
          /\ signals[i].more => Len(signals[i].items) = chunkSize

FillInv ==
    Filling =>
        /\ identifier \in registered
        /\ PagesTrue /\ EditsFit /\ RowsInPlace
        /\ ~Complete => Cut /\ PagesAligned /\ AvailableChunksArrive

LEMMA StepEnrolled ==
    ASSUME Typed, SessionInv, Enrolled, [Next]_vars
    PROVE  Enrolled'
<1> USE DEF listVars, sessionVars, settingVars, backendVars
<1>1. CASE UNCHANGED vars
    BY <1>1 DEF vars, Enrolled, Registering
<1> SUFFICES ASSUME Next PROVE Enrolled'
    BY <1>1
<1>2. identifier \in Nat /\ \A i \in DOMAIN requests :
          requests[i].kind # "initialize" => requests[i].id \in 1..identifier
    BY DEF Typed, SessionInv, IdsKnown, Known
<1>3. \A i \in DOMAIN requests :
          requests[i].kind = "unregisterInstance" => requests[i].id # identifier
    BY DEF Enrolled
<1>4. CASE Disconnect
  <2>1. identifier' = identifier + 1 /\ ~isInitialized'
      BY <1>4 DEF Disconnect
  <2>2. \A i \in DOMAIN requests' :
            requests'[i].kind = "unregisterInstance" => requests'[i].id # identifier'
      BY <1>2, <2>1, RequestsAfter
  <2> QED BY <2>1, <2>2 DEF Enrolled
<1>5. CASE ~Disconnect
  <2>1. identifier' = identifier
      BY <1>5, SessionKept
  <2>2. \A i \in DOMAIN requests' :
            requests'[i].kind = "unregisterInstance" => requests'[i].id # identifier'
      BY <1>3, <1>5, <2>1, RequestsAfter
  <2>3. CASE OnInitializationDone /\ Starts
    <3>1. isConnected /\ ResetModel(<<RegisterRequest>>)
        BY <2>3 DEF OnInitializationDone, Hear, RegisterRequest
    <3>2. \E i \in DOMAIN requests' : requests'[i] = RegisterRequest
        BY <3>1, StartAdds
    <3>3. \E i \in DOMAIN requests' : Registering(i)'
        BY <2>1, <3>2 DEF Registering, RegisterRequest
    <3> QED BY <2>2, <3>3 DEF Enrolled
  <2>4. ASSUME isInitialized', ~(OnInitializationDone /\ Starts)
        PROVE  identifier \in registered' \/ \E i \in DOMAIN requests' : Registering(i)'
    <3>1. isInitialized
        BY <1>5, <2>4, SessionKept DEF Starts
    <3>2. CASE identifier \in registered
      <4>1. CASE UnregisterInstance
        <5>1. 1 \in DOMAIN requests /\ Head(requests) = requests[1]
              /\ requests[1].kind = "unregisterInstance"
            BY <4>1, CallTaken DEF UnregisterInstance, CallsShrink
        <5>2. requests[1].id # identifier
            BY <1>3, <5>1
        <5> QED BY <3>2, <4>1, <5>1, <5>2 DEF UnregisterInstance
      <4>2. CASE registered \subseteq registered'
          BY <3>2, <4>2
      <4> QED BY <4>1, <4>2 DEF Next, Connect, Disconnect, Reload, FetchMore,
            SetLoadingType, SetChunkSize, View, OnInitializationDone,
            OnCapabilitiesChanged, OnCountChanged, OnDataFetched, OnDataChanged,
            SignalLost, Initialize, RegisterInstance, ServeFetchData, AnnounceAgain,
            Insert, Update, Remove, Move, Edit
    <3>3. CASE \E i \in DOMAIN requests : Registering(i)
      <4>1. PICK i \in DOMAIN requests : Registering(i)
          BY <3>3
      <4>2. CASE Served(requests[i])
        <5>1. identifier \in registered'
            BY <4>1, <4>2 DEF Served, Registering, RegisterInstance
        <5> QED BY <5>1
      <4>3. CASE \E j \in DOMAIN requests' : requests'[j] = requests[i]
          BY <2>1, <4>1, <4>3 DEF Registering
      <4> QED BY <4>2, <4>3, CallStays
    <3> QED BY <3>1, <3>2, <3>3 DEF Enrolled
  <2> QED BY <2>1, <2>2, <2>3, <2>4 DEF Enrolled
<1> QED BY <1>4, <1>5

LEMMA StepFresh ==
    ASSUME Careful, Typed, SignalsFresh, [Next]_vars
    PROVE  SignalsFresh'
<1> USE DEF listVars, sessionVars, settingVars, backendVars
<1>1. CASE UNCHANGED vars
    BY <1>1 DEF vars, SignalsFresh, EditArriving
<1>2. CASE signals' = signals /\ content' = content
    BY <1>2 DEF SignalsFresh, EditArriving
<1>3. CASE signals # <<>> /\ signals' = Tail(signals) /\ content' = content
  <2>1. SignalsShrink
      BY <1>3, SignalTaken
  <2> QED BY <1>3, <2>1 DEF SignalsFresh, EditArriving, SignalsShrink
<1>4. CASE Initialize \/ AnnounceAgain
  <2>1. [kind |-> "initializationDone"] \in Signal
      BY DEF Signal
  <2>2. SignalsGrow([kind |-> "initializationDone"]) /\ content' = content
      BY <1>4, <2>1, SignalAdded DEF Initialize, AnnounceAgain
  <2> QED BY <2>2 DEF SignalsGrow, SignalsFresh, EditArriving
<1>5. CASE ServeFetchData
  <2>1. PICK told \in Seq(Signal) : Tells(told)
      BY <1>5, ServeTells
  <2>2. \A i \in DOMAIN signals' :
            \/ i \in DOMAIN signals /\ signals'[i] = signals[i]
            \/ /\ i - Len(signals) \in DOMAIN told
               /\ signals'[i] = told[i - Len(signals)]
      BY <2>1, ConcatAt DEF Tells, Typed, SignalsTyped
  <2>3. content' = content
      BY <1>5 DEF ServeFetchData
  <2> QED BY <2>1, <2>2, <2>3 DEF Tells, SignalsFresh, EditArriving
<1>6. CASE BackendEdits
  <2>1. PICK start \in Nat, count \in Nat, data \in Seq(Items) : Edit(start, count, data)
      BY <1>6, EditsAnnounced DEF Announced
  <2>2. signals = <<>> /\ SignalsGrow(Change(start, count, data))
      BY <2>1, EditAdds DEF Edit, Careful, Settled
  <2>3. DOMAIN signals = {} /\ Len(signals) = 0
      BY <2>2
  <2> QED BY <2>2, <2>3 DEF SignalsGrow, SignalsFresh, EditArriving, Change
<1> QED BY <1>1, <1>2, <1>3, <1>4, <1>5, <1>6
        DEF Next, BackendEdits, Connect, Disconnect, Reload, FetchMore,
            SetLoadingType, SetChunkSize, View, Hear, OnInitializationDone,
            OnCapabilitiesChanged, OnCountChanged, OnDataFetched, OnDataChanged,
            SignalLost, RegisterInstance, UnregisterInstance

\* Division by a chunk size.
LEMMA Divided ==
    ASSUME NEW a \in Nat, NEW c \in Nat \ {0}
    PROVE  a \div c \in Nat /\ (a \div c) * c <= a /\ a < (a \div c) * c + c
    OBVIOUS

LEMMA MultiplesApart ==
    ASSUME NEW m \in Nat, NEW n \in Nat, NEW c \in Nat \ {0}, m < n
    PROVE  m * c + c <= n * c
<1>1. n - m \in Nat /\ n - m >= 1
    OBVIOUS
<1>2. (n - m) * c >= c
    BY <1>1
<1>3. (n - m) * c = n * c - m * c
    OBVIOUS
<1> QED BY <1>2, <1>3

LEMMA QuotientUnique ==
    ASSUME NEW a \in Nat, NEW c \in Nat \ {0}, NEW q \in Nat,
           q * c <= a, a < q * c + c
    PROVE  a \div c = q
<1> DEFINE p == a \div c
<1>1. p \in Nat /\ p * c <= a /\ a < p * c + c
    BY Divided
<1> HIDE DEF p
<1>2. ~(p < q)
  <2>1. p < q => p * c + c <= q * c
      BY <1>1, MultiplesApart
  <2> QED BY <1>1, <2>1
<1>3. ~(q < p)
  <2>1. q < p => q * c + c <= p * c
      BY <1>1, MultiplesApart
  <2> QED BY <1>1, <2>1
<1> QED BY <1>1, <1>2, <1>3 DEF p

LEMMA DivisionMonotone ==
    ASSUME NEW a \in Nat, NEW b \in Nat, NEW c \in Nat \ {0}, a <= b
    PROVE  a \div c <= b \div c
<1> DEFINE p == a \div c
           q == b \div c
<1>1. /\ p \in Nat /\ p * c <= a
      /\ q \in Nat /\ b < q * c + c
    BY Divided
<1> HIDE DEF p, q
<1>2. q < p => q * c + c <= p * c
    BY <1>1, MultiplesApart
<1>3. ~(q < p)
    BY <1>1, <1>2
<1> QED BY <1>1, <1>3 DEF p, q

LEMMA ChunkStartOf ==
    ASSUME Typed, NEW k \in Nat
    PROVE  /\ k * chunkSize \in Nat /\ ChunkStart(k * chunkSize)
           /\ (k * chunkSize) \div chunkSize = k
<1>1. chunkSize \in Nat \ {0} /\ k * chunkSize \in Nat
    BY DEF Typed
<1>2. (k * chunkSize) \div chunkSize = k
    BY <1>1, QuotientUnique
<1> QED BY <1>1, <1>2 DEF ChunkStart

LEMMA NextChunkStart ==
    ASSUME Typed, NEW start \in Nat, ChunkStart(start)
    PROVE  ChunkStart(start + chunkSize)
<1> DEFINE q == start \div chunkSize
<1>1. chunkSize \in Nat \ {0} /\ q \in Nat /\ start = q * chunkSize
    BY Divided DEF Typed, ChunkStart
<1> HIDE DEF q
<1>2. start + chunkSize = (q + 1) * chunkSize /\ q + 1 \in Nat
    BY <1>1
<1> QED BY <1>2, ChunkStartOf

\* The rows of a chunk are those from its start on.
LEMMA ChunkRows ==
    ASSUME Typed, NEW start \in Nat, ChunkStart(start), NEW row \in Nat
    PROVE  (row \div chunkSize = start \div chunkSize)
               <=> (start <= row /\ row < start + chunkSize)
<1> DEFINE q == start \div chunkSize
           p == row \div chunkSize
<1>1. chunkSize \in Nat \ {0} /\ q \in Nat /\ start = q * chunkSize
    BY Divided DEF Typed, ChunkStart
<1>2. p \in Nat /\ p * chunkSize <= row /\ row < p * chunkSize + chunkSize
    BY <1>1, Divided
<1>3. start <= row /\ row < start + chunkSize => p = q
  <2> HIDE DEF q
  <2> QED BY <1>1, QuotientUnique
<1> HIDE DEF p, q
<1>4. p = q => start <= row /\ row < start + chunkSize
    BY <1>1, <1>2
<1> QED BY <1>3, <1>4 DEF p, q

\* What is in a page.
LEMMA PageAt ==
    ASSUME NEW S, NEW list \in Seq(S), NEW start \in Nat, NEW count \in Nat
    PROVE  /\ Page(list, start, count) \in Seq(S)
           /\ Len(Page(list, start, count)) =
                  IF start + count < Len(list) THEN count
                  ELSE IF start < Len(list) THEN Len(list) - start ELSE 0
           /\ \A i \in 1..Len(Page(list, start, count)) :
                 /\ start + i <= Len(list)
                 /\ Page(list, start, count)[i] = list[start + i]
<1> DEFINE n == Len(list)
           from == start + 1
           end == IF start + count < n THEN start + count ELSE n
           page == SubSeq(list, from, end)
<1>1. n \in Nat /\ from \in Nat /\ from > 0 /\ end \in Int /\ end <= n
    BY LenProperties
<1>2. \A i \in from..end : list[i] \in S
    BY <1>1, ElementOfSeq
<1>3. /\ page \in Seq(S)
      /\ Len(page) = IF from <= end THEN end - from + 1 ELSE 0
      /\ \A i \in 1..end - from + 1 : page[i] = list[from + i - 1]
  <2> HIDE DEF from, end
  <2> QED BY <1>1, <1>2, SubSeqProperties
<1>4. Page(list, start, count) = page
    BY DEF Page
<1> HIDE DEF page
<1>5. \A i \in 1..Len(page) : i \in 1..end - from + 1 /\ start + i <= n
                              /\ from + i - 1 = start + i
    BY <1>1, <1>3
<1>6. Len(page) = IF start + count < n THEN count ELSE IF start < n THEN n - start ELSE 0
    BY <1>1, <1>3
<1> QED BY <1>3, <1>4, <1>5, <1>6

\* Pages asked for and arriving after the step were so before.
PagesOld ==
    /\ \A i \in DOMAIN requests' : Fetches(i)' =>
          \E j \in DOMAIN requests : Fetches(j) /\ requests'[i] = requests[j]
    /\ \A i \in DOMAIN signals' : Arriving(i)' =>
          \E j \in DOMAIN signals : Arriving(j) /\ signals'[i] = signals[j]

\* And those that were so before still are.
PagesStay ==
    /\ \A i \in DOMAIN requests : Fetches(i) =>
          \E j \in DOMAIN requests' : requests'[j] = requests[i]
    /\ \A i \in DOMAIN signals : Arriving(i) =>
          \E j \in DOMAIN signals' : signals'[j] = signals[i]

EditsOld ==
    /\ \A i \in DOMAIN signals' : EditArriving(i)' =>
          \E j \in DOMAIN signals : EditArriving(j) /\ signals'[i] = signals[j]
    /\ NoEditPending' => NoEditPending

LEMMA PagesKept ==
    ASSUME PagesOld, UNCHANGED <<identifier, chunkSize, content>>
    PROVE  /\ PagesTrue => PagesTrue'
           /\ PagesAligned /\ (moreAvailable' => ChunkStart(fetchedCount)') => PagesAligned'
<1>1. \A start : ChunkStart(start) => ChunkStart(start)'
    BY DEF ChunkStart
<1>2. PagesTrue => PagesTrue'
    BY DEF PagesTrue, PagesOld
<1>3. ASSUME PagesAligned, moreAvailable' => ChunkStart(fetchedCount)'
      PROVE  PagesAligned'
  <2>1. \A i \in DOMAIN requests' : Fetches(i)' => ChunkStart(requests[i].start)'
      BY <1>3 DEF PagesAligned, PagesOld, ChunkStart
  <2>2. \A i \in DOMAIN signals' : Arriving(i)' =>
            /\ ChunkStart(signals[i].start)'
            /\ signals'[i].more => Len(signals'[i].items) = chunkSize'
      BY <1>3 DEF PagesAligned, PagesOld, ChunkStart
  <2> QED BY <1>3, <2>1, <2>2 DEF PagesAligned
<1> QED BY <1>2, <1>3

LEMMA ArrivalKept ==
    ASSUME PagesStay, AvailableChunksArrive,
           UNCHANGED <<identifier, loadingType, itemList, chunkSize, availableChunks>>
    PROVE  AvailableChunksArrive'
<1>1. ASSUME NEW chunk, Awaited(chunk) PROVE Awaited(chunk)'
  <2>1. CASE \E i \in DOMAIN requests : /\ requests[i].kind = "fetchData"
                                        /\ requests[i].id = identifier
                                        /\ requests[i].start \div chunkSize = chunk
      BY <2>1 DEF PagesStay, Fetches, Awaited
  <2>2. CASE \E i \in DOMAIN signals : /\ signals[i].kind = "dataFetched"
                                       /\ signals[i].id = identifier
                                       /\ signals[i].start \div chunkSize = chunk
      BY <2>2 DEF PagesStay, Arriving, Awaited
  <2> QED BY <1>1, <2>1, <2>2 DEF Awaited
<1> QED BY <1>1 DEF AvailableChunksArrive

\* A step that leaves the rows alone.
LEMMA RowsKept ==
    ASSUME FillInv, EditsOld, PagesTrue => PagesTrue',
           Filling /\ identifier \in registered => identifier \in registered',
           UNCHANGED <<isConnected, identifier, loadingType, chunkSize, content, itemList>>,
           Filling /\ ~Complete => Cut' /\ PagesAligned' /\ AvailableChunksArrive'
    PROVE  FillInv'
<1> SUFFICES ASSUME Filling, Filling' PROVE FillInv'
    BY DEF FillInv, Filling
<1>1. PagesTrue' /\ identifier' \in registered'
    BY DEF FillInv
<1>2. EditsFit'
    BY DEF FillInv, EditsFit, EditsOld, EditFits
<1>3. RowsInPlace'
    BY DEF FillInv, RowsInPlace, EditsOld
<1>4. ~Complete' => ~Complete
    BY DEF Complete, EditsOld
<1> QED BY <1>1, <1>2, <1>3, <1>4 DEF FillInv

\* A step that changes nothing the rows depend on.
LEMMA FillQuiet ==
    ASSUME FillInv, EditsOld, PagesOld, PagesStay,
           Filling /\ identifier \in registered => identifier \in registered',
           UNCHANGED <<isConnected, identifier, loadingType, chunkSize, content, listVars>>
    PROVE  FillInv'
<1> USE DEF listVars
<1>1. PagesTrue => PagesTrue'
    BY PagesKept
<1>2. ASSUME Filling, ~Complete PROVE Cut' /\ PagesAligned' /\ AvailableChunksArrive'
  <2>1. Cut /\ PagesAligned /\ AvailableChunksArrive
      BY <1>2 DEF FillInv
  <2>2. Cut'
      BY <2>1 DEF Cut, ChunksFor
  <2>3. moreAvailable' => ChunkStart(fetchedCount)'
      BY <2>1 DEF PagesAligned, ChunkStart
  <2> QED BY <2>1, <2>2, <2>3, PagesKept, ArrivalKept
<1> QED BY <1>1, <1>2, RowsKept

\* What is in the queues when only signals have come or gone.
LEMMA SignalGone ==
    ASSUME Typed, SignalsShrink, UNCHANGED <<requests, identifier>>,
           signals[1].kind # "dataChanged"
    PROVE  /\ EditsOld /\ PagesOld
           /\ ~Arriving(1) => PagesStay
<1>1. EditsOld
    BY DEF EditsOld, SignalsShrink, EditArriving, NoEditPending
<1>2. PagesOld
    BY DEF PagesOld, SignalsShrink, Arriving, Fetches
<1>3. ~Arriving(1) => PagesStay
    BY DEF PagesStay, SignalsShrink, Arriving, Fetches
<1> QED BY <1>1, <1>2, <1>3

LEMMA AnnouncementAdded ==
    ASSUME Typed, signals' = Append(signals, [kind |-> "initializationDone"]),
           identifier' = identifier
    PROVE  /\ EditsOld
           /\ \A i \in DOMAIN signals' : Arriving(i)' =>
                 \E j \in DOMAIN signals : Arriving(j) /\ signals'[i] = signals[j]
           /\ \A i \in DOMAIN signals : Arriving(i) =>
                 \E j \in DOMAIN signals' : signals'[j] = signals[i]
<1>1. [kind |-> "initializationDone"] \in Signal
    BY DEF Signal
<1>2. SignalsGrow([kind |-> "initializationDone"])
    BY <1>1, SignalAdded
<1> QED BY <1>2 DEF SignalsGrow, EditsOld, EditArriving, NoEditPending, Arriving

\* In a DataChanged list the session has begun.
LEMMA FillingIsLive ==
    ASSUME SessionInv, Filling
    PROVE  isConnected /\ isInitialized
    BY DEF SessionInv, NotStarted, Unset, Filling

\* Signals that leave the rows alone.
LEMMA HeardFill ==
    ASSUME Careful, Typed, SessionInv, SignalsFresh, FillInv, Filling,
           \/ OnInitializationDone \/ OnCapabilitiesChanged
           \/ OnCountChanged /\ ~CountIsNew(Head(signals))
           \/ OnDataFetched /\ ~Accepts(Head(signals))
    PROVE  FillInv'
<1> USE DEF listVars, sessionVars, settingVars, backendVars
<1>1. ~Starts
    BY FillingIsLive DEF Starts
<1>2. /\ signals # <<>> /\ signals' = Tail(signals) /\ Head(signals).kind # "dataChanged"
      /\ UNCHANGED <<isConnected, identifier, loadingType, chunkSize, content, listVars,
                     requests, registered>>
    BY <1>1 DEF OnInitializationDone, OnCapabilitiesChanged, OnCountChanged,
                OnDataFetched, Hear
<1>3. SignalsShrink /\ signals[1].kind # "dataChanged"
    BY <1>2, SignalTaken DEF SignalsShrink
<1>4. ~Arriving(1)
  <2>1. CASE OnDataFetched /\ ~Accepts(Head(signals))
      BY <1>3, <2>1 DEF SignalsShrink, Accepts, Arriving
  <2>2. CASE OnInitializationDone \/ OnCapabilitiesChanged \/ OnCountChanged
      BY <1>3, <2>2 DEF SignalsShrink, Arriving, OnInitializationDone,
                        OnCapabilitiesChanged, OnCountChanged, Hear
  <2> QED BY <2>1, <2>2
<1>5. EditsOld /\ PagesOld /\ PagesStay
    BY <1>2, <1>3, <1>4, SignalGone
<1> QED BY <1>2, <1>5, FillQuiet

\* The new count of blank rows makes room for the pages.
LEMMA CountFill ==
    ASSUME Careful, Typed, SessionInv, SignalsFresh, FillInv, Filling, Typed',
           OnCountChanged, CountIsNew(Head(signals))
    PROVE  FillInv'
<1> USE DEF listVars, sessionVars, settingVars, backendVars
<1> DEFINE s == Head(signals)
           n == Len(content)
<1>1. /\ signals # <<>> /\ signals' = Tail(signals) /\ s.kind = "countChanged"
      /\ UNCHANGED <<isConnected, identifier, loadingType, chunkSize, content,
                     requests, registered, fetchedCount, moreAvailable>>
      /\ itemList' = itemList \o [i \in 1..s.length |-> Blank]
      /\ chunkCount' = ChunksFor(s.length)
      /\ availableChunks' \subseteq availableChunks
    BY DEF OnCountChanged, Hear
<1>2. SignalsShrink /\ s = signals[1] /\ 1 \in DOMAIN signals
    BY <1>1, SignalTaken DEF SignalsShrink
<1>3. s.length = n /\ n \in Nat /\ Len(itemList) # n
    BY <1>1, <1>2, LenProperties DEF SignalsFresh, CountIsNew, Typed
<1>4. \A i \in DOMAIN signals : ~EditArriving(i)
    BY <1>1, <1>2 DEF SignalsFresh, EditArriving
<1>5. NoEditPending /\ NoEditPending'
    BY <1>2, <1>4 DEF SignalsShrink, EditArriving, NoEditPending
<1>6. itemList = <<>> /\ Len(itemList) = 0
  <2>1. Len(itemList) = 0
      BY <1>3, <1>5, FillingIsLive DEF FillInv, RowsInPlace, Filling
  <2> QED BY <2>1, EmptySeq DEF Typed
<1>7. itemList' = [i \in 1..n |-> Blank]
  <2> DEFINE blanks == [i \in 1..n |-> Blank]
  <2>1. blanks \in Seq(Row)
      BY <1>3, IsASeq DEF Row
  <2>2. <<>> \o blanks = blanks
    <3> HIDE DEF blanks
    <3> QED BY <2>1, ConcatEmptySeq
  <2> QED BY <1>1, <1>3, <1>6, <2>2
<1>8. Len(itemList') = n /\ DOMAIN itemList' = 1..n /\ itemList' # <<>>
    BY <1>3, <1>6, <1>7
<1>9. Cut /\ availableChunks = {} /\ PagesAligned
    BY <1>3, <1>5, <1>6 DEF FillInv, Complete, Cut
<1>10. ~Arriving(1) /\ signals[1].kind # "dataChanged"
    BY <1>1, <1>2 DEF Arriving
<1>11. PagesOld /\ EditsOld
    BY <1>1, <1>2, <1>10, SignalGone
<1>12. PagesTrue' /\ PagesAligned'
  <2>1. PagesTrue /\ (moreAvailable' => ChunkStart(fetchedCount)')
      BY <1>1, <1>9 DEF FillInv, PagesAligned, ChunkStart
  <2> QED BY <1>1, <1>9, <1>11, <2>1, PagesKept
<1>13. EditsFit'
    BY <1>2, <1>4 DEF SignalsShrink, EditArriving, EditsFit
<1>14. RowsInPlace'
    BY <1>7, <1>8, <1>1 DEF RowsInPlace
<1>15. Cut'
    BY <1>1, <1>3, <1>8 DEF Cut, ChunksFor
<1>16. AvailableChunksArrive'
    BY <1>1, <1>9 DEF AvailableChunksArrive
<1>17. identifier' \in registered'
    BY <1>1 DEF FillInv
<1> QED BY <1>12, <1>13, <1>14, <1>15, <1>16, <1>17 DEF FillInv

\* The signal at the head answers for its own chunk only.
LEMMA AwaitedStill ==
    ASSUME SignalsShrink, UNCHANGED <<requests, identifier, chunkSize>>,
           NEW chunk, Awaited(chunk), chunk # signals[1].start \div chunkSize
    PROVE  Awaited(chunk)'
<1>1. CASE \E i \in DOMAIN requests : /\ requests[i].kind = "fetchData"
                                      /\ requests[i].id = identifier
                                      /\ requests[i].start \div chunkSize = chunk
    BY <1>1 DEF Awaited
<1>2. CASE \E i \in DOMAIN signals : /\ signals[i].kind = "dataFetched"
                                     /\ signals[i].id = identifier
                                     /\ signals[i].start \div chunkSize = chunk
  <2>1. PICK i \in DOMAIN signals : /\ signals[i].kind = "dataFetched"
                                    /\ signals[i].id = identifier
                                    /\ signals[i].start \div chunkSize = chunk
      BY <1>2
  <2>2. i # 1
      BY <2>1
  <2>3. i - 1 \in DOMAIN signals' /\ signals'[i - 1] = signals[i]
      BY <2>2 DEF SignalsShrink
  <2> QED BY <2>1, <2>3 DEF Awaited
<1> QED BY <1>1, <1>2 DEF Awaited

\* A page of no items: the rows of its chunk are none.
LEMMA NoItemsFill ==
    ASSUME Careful, Typed, SessionInv, SignalsFresh, FillInv, Filling,
           OnDataFetched, Accepts(Head(signals)), Head(signals).items = <<>>
    PROVE  FillInv'
<1> USE DEF listVars, sessionVars, settingVars, backendVars
<1> DEFINE s == Head(signals)
           n == Len(content)
<1>1. /\ signals # <<>> /\ signals' = Tail(signals) /\ s.kind = "dataFetched"
      /\ UNCHANGED <<isConnected, identifier, loadingType, chunkSize, content, listVars,
                     requests, registered>>
    BY DEF OnDataFetched, Hear
<1>2. SignalsShrink /\ s = signals[1] /\ 1 \in DOMAIN signals
    BY <1>1, SignalTaken DEF SignalsShrink
<1>3. Arriving(1) /\ s \in Signal
  <2>1. Known(s.id) /\ identifier \in Nat
      BY <1>1, <1>2 DEF SessionInv, IdsKnown, Typed
  <2>2. s.id # Everyone
      BY <2>1 DEF Known, Everyone
  <2>3. s \in Signal
      BY <1>1, TakeSignal DEF Typed
  <2> QED BY <1>1, <1>2, <2>2, <2>3 DEF Accepts, Arriving
<1>4. s.start \in Nat /\ s.items = Page(content, s.start, chunkSize)
    BY <1>1, <1>2, <1>3 DEF FillInv, PagesTrue, Signal
<1>5. PagesOld /\ EditsOld
    BY <1>1, <1>2, SignalGone
<1>6. PagesTrue => PagesTrue'
    BY <1>1, <1>5, PagesKept
<1>7. ASSUME ~Complete PROVE Cut' /\ PagesAligned' /\ AvailableChunksArrive'
  <2>1. Cut /\ PagesAligned /\ AvailableChunksArrive
      BY <1>7 DEF FillInv
  <2>2. Cut'
      BY <1>1, <2>1 DEF Cut, ChunksFor
  <2>3. PagesAligned'
    <3>1. moreAvailable' => ChunkStart(fetchedCount)'
        BY <1>1, <2>1 DEF PagesAligned, ChunkStart
    <3> QED BY <1>1, <1>5, <2>1, <3>1, PagesKept
  <2>4. ChunkStart(s.start)
      BY <1>2, <1>3, <2>1 DEF PagesAligned
  <2>5. n \in Nat /\ n <= s.start
    <3>1. n \in Nat /\ chunkSize \in Nat \ {0}
        BY LenProperties DEF Typed
    <3>2. Len(s.items) = IF s.start + chunkSize < n THEN chunkSize
                         ELSE IF s.start < n THEN n - s.start ELSE 0
      <4>1. content \in Seq(Items) /\ s.start \in Nat /\ chunkSize \in Nat
          BY <1>4, <3>1 DEF Typed
      <4> HIDE DEF s
      <4>2. Len(Page(content, s.start, chunkSize)) =
                IF s.start + chunkSize < Len(content) THEN chunkSize
                ELSE IF s.start < Len(content) THEN Len(content) - s.start ELSE 0
          BY <4>1, PageAt
      <4> QED BY <1>4, <4>2
    <3>3. Len(s.items) = 0
        OBVIOUS
    <3> QED BY <1>4, <3>1, <3>2, <3>3
  <2>6. Len(itemList) \in Nat /\ Len(itemList) <= n
    <3>1. \A i \in DOMAIN signals : ~EditArriving(i)
        BY <1>1, <1>2 DEF SignalsFresh, EditArriving
    <3>2. Len(itemList) \in {0, n}
        BY <3>1, FillingIsLive
        DEF FillInv, RowsInPlace, Filling, NoEditPending, EditArriving
    <3> QED BY <2>5, <3>2
  <2>7. ASSUME NEW row \in 0..Len(itemList) - 1, Awaited(row \div chunkSize)
        PROVE  Awaited(row \div chunkSize)'
    <3> SUFFICES ASSUME NEW chunk, chunk = row \div chunkSize
                 PROVE  Awaited(chunk)'
        BY <1>1
    <3>1. row \in Nat /\ ~(s.start <= row)
      <4> HIDE DEF s
      <4> QED BY <1>4, <2>5, <2>6
    <3>2. (row \div chunkSize = s.start \div chunkSize)
              <=> (s.start <= row /\ row < s.start + chunkSize)
      <4> HIDE DEF s
      <4> QED BY <1>4, <2>4, <3>1, ChunkRows
    <3>3. chunk # s.start \div chunkSize
      <4> HIDE DEF s
      <4> QED BY <3>1, <3>2
    <3>4. Awaited(chunk) /\ chunk # signals[1].start \div chunkSize
        BY <1>2, <2>7, <3>3
    <3> QED BY <1>1, <1>2, <3>4, AwaitedStill
  <2>8. AvailableChunksArrive'
      BY <1>1, <2>1, <2>7 DEF AvailableChunksArrive
  <2> QED BY <2>2, <2>3, <2>8
<1> QED BY <1>1, <1>5, <1>6, <1>7, RowsKept

\* Which pages are asked for when the backend has taken another call.
LEMMA CallGone ==
    ASSUME CallsShrink, requests[1].kind # "fetchData", identifier' = identifier
    PROVE  /\ \A i \in DOMAIN requests' : Fetches(i)' =>
                 \E j \in DOMAIN requests : Fetches(j) /\ requests'[i] = requests[j]
           /\ \A i \in DOMAIN requests : Fetches(i) =>
                 \E j \in DOMAIN requests' : requests'[j] = requests[i]
    BY DEF CallsShrink, Fetches

LEMMA TakenFill ==
    ASSUME Careful, Typed, SessionInv, Enrolled, FillInv,
           AnnounceAgain \/ Initialize \/ RegisterInstance \/ UnregisterInstance
    PROVE  FillInv'
<1> USE DEF listVars, sessionVars, settingVars, backendVars
<1>1. UNCHANGED <<isConnected, identifier, loadingType, chunkSize, content, listVars>>
    BY DEF AnnounceAgain, Initialize, RegisterInstance, UnregisterInstance
<1>2. CASE AnnounceAgain
  <2>1. requests' = requests /\ registered' = registered
        /\ signals' = Append(signals, [kind |-> "initializationDone"])
      BY <1>2 DEF AnnounceAgain
  <2>2. EditsOld /\ PagesOld /\ PagesStay
      BY <1>1, <2>1, AnnouncementAdded DEF PagesOld, PagesStay, Fetches
  <2> QED BY <1>1, <2>1, <2>2, FillQuiet
<1>3. CASE Initialize
  <2>1. CallsShrink /\ requests[1].kind = "initialize" /\ registered' = registered
        /\ signals' = Append(signals, [kind |-> "initializationDone"])
      BY <1>3, CallTaken DEF Initialize
  <2>2. EditsOld /\ PagesOld /\ PagesStay
      BY <1>1, <2>1, AnnouncementAdded, CallGone DEF PagesOld, PagesStay
  <2> QED BY <1>1, <2>1, <2>2, FillQuiet
<1>4. CASE RegisterInstance \/ UnregisterInstance
  <2>1. /\ CallsShrink /\ signals' = signals
        /\ requests[1].kind \in {"registerInstance", "unregisterInstance"}
      BY <1>4, CallTaken DEF RegisterInstance, UnregisterInstance
  <2>2. identifier \in registered => identifier \in registered'
    <3>1. CASE RegisterInstance
        BY <3>1 DEF RegisterInstance
    <3>2. CASE UnregisterInstance
      <4>1. requests[1].kind = "unregisterInstance"
          BY <3>2, CallTaken DEF UnregisterInstance
      <4>2. Head(requests).id # identifier
          BY <2>1, <4>1 DEF Enrolled, CallsShrink
      <4>3. registered' = registered \ {Head(requests).id}
          BY <3>2 DEF UnregisterInstance
      <4> QED BY <4>2, <4>3
    <3> QED BY <1>4, <3>1, <3>2
  <2>3. EditsOld
      BY <2>1 DEF EditsOld, EditArriving, NoEditPending
  <2>4. PagesOld /\ PagesStay
      BY <1>1, <2>1, CallGone DEF PagesOld, PagesStay, Arriving
  <2> QED BY <1>1, <2>2, <2>3, <2>4, FillQuiet
<1> QED BY <1>2, <1>3, <1>4

\* The backend answers with the page of a chunk.
LEMMA ServeFill ==
    ASSUME Careful, Typed, SessionInv, FillInv, Filling, ServeFetchData
    PROVE  FillInv'
<1> USE DEF listVars, sessionVars, settingVars, backendVars
<1> DEFINE r == Head(requests)
<1>1. /\ UNCHANGED <<isConnected, identifier, loadingType, chunkSize, content, listVars,
                     registered>>
      /\ CallsShrink /\ r = requests[1] /\ r.kind = "fetchData" /\ 1 \in DOMAIN requests
    BY CallTaken DEF ServeFetchData, CallsShrink
<1>2. PICK told \in Seq(Signal) : Tells(told)
    BY ServeTells
<1>3. /\ \A i \in DOMAIN signals : i \in DOMAIN signals' /\ signals'[i] = signals[i]
      /\ \A i \in DOMAIN signals' :
            \/ i \in DOMAIN signals /\ signals'[i] = signals[i]
            \/ /\ i - Len(signals) \in DOMAIN told
               /\ signals'[i] = told[i - Len(signals)]
    BY <1>2, ConcatAt DEF Tells, Typed, SignalsTyped
<1>4. EditsOld
  <2>1. \A i \in DOMAIN signals' : EditArriving(i)' =>
            EditArriving(i) /\ signals'[i] = signals[i]
      BY <1>2, <1>3 DEF Tells, EditArriving
  <2>2. NoEditPending' => NoEditPending
      BY <1>3 DEF NoEditPending
  <2> QED BY <2>1, <2>2 DEF EditsOld, EditArriving
<1>5. \A i \in DOMAIN requests' : Fetches(i)' =>
          \E j \in DOMAIN requests : Fetches(j) /\ requests'[i] = requests[j]
    BY <1>1 DEF CallsShrink, Fetches
<1>6. \A i \in DOMAIN signals' : Arriving(i)' =>
          \/ Arriving(i) /\ signals'[i] = signals[i]
          \/ Fetches(1) /\ AnswersTo(r, signals'[i])
  <2> SUFFICES ASSUME NEW i \in DOMAIN signals', Arriving(i)'
               PROVE  \/ Arriving(i) /\ signals'[i] = signals[i]
                      \/ Fetches(1) /\ AnswersTo(r, signals'[i])
      OBVIOUS
  <2>1. CASE i \in DOMAIN signals /\ signals'[i] = signals[i]
      BY <1>1, <2>1 DEF Arriving
  <2>2. CASE /\ i - Len(signals) \in DOMAIN told
             /\ signals'[i] = told[i - Len(signals)]
    <3>1. AnswersTo(r, signals'[i])
        BY <1>2, <2>2 DEF Tells, Arriving
    <3>2. r.id = identifier
        BY <1>1, <3>1 DEF AnswersTo, Arriving
    <3> QED BY <1>1, <3>1, <3>2 DEF Fetches
  <2> QED BY <1>3, <2>1, <2>2
<1>7. PagesTrue'
  <2>1. PagesTrue
      BY DEF FillInv
  <2>2. \A i \in DOMAIN requests' : Fetches(i)' => requests'[i].count = chunkSize'
      BY <1>1, <1>5, <2>1 DEF PagesTrue
  <2>3. \A i \in DOMAIN signals' : Arriving(i)' =>
            signals'[i].items = Page(content, signals'[i].start, chunkSize)
    <3> SUFFICES ASSUME NEW i \in DOMAIN signals', Arriving(i)'
                 PROVE  signals'[i].items = Page(content, signals'[i].start, chunkSize)
        OBVIOUS
    <3>1. CASE Arriving(i) /\ signals'[i] = signals[i]
        BY <2>1, <3>1 DEF PagesTrue, Arriving
    <3>2. CASE Fetches(1) /\ AnswersTo(r, signals'[i])
        BY <1>1, <2>1, <3>2 DEF PagesTrue, AnswersTo
    <3> QED BY <1>6, <3>1, <3>2
  <2> QED BY <1>1, <2>2, <2>3 DEF PagesTrue
<1>8. ASSUME ~Complete PROVE Cut' /\ PagesAligned' /\ AvailableChunksArrive'
  <2>1. Cut /\ PagesAligned /\ AvailableChunksArrive /\ PagesTrue
        /\ identifier \in registered
      BY <1>8 DEF FillInv
  <2>2. Cut'
      BY <1>1, <2>1 DEF Cut, ChunksFor
  <2>3. PagesAligned'
    <3>1. moreAvailable' => ChunkStart(fetchedCount)'
        BY <1>1, <2>1 DEF PagesAligned, ChunkStart
    <3>2. \A i \in DOMAIN requests' : Fetches(i)' => ChunkStart(requests[i].start)'
        BY <1>1, <1>5, <2>1 DEF PagesAligned, ChunkStart
    <3>3. \A i \in DOMAIN signals' : Arriving(i)' =>
              /\ ChunkStart(signals[i].start)'
              /\ signals'[i].more => Len(signals'[i].items) = chunkSize'
      <4> SUFFICES ASSUME NEW i \in DOMAIN signals', Arriving(i)'
                   PROVE  /\ ChunkStart(signals'[i].start)
                          /\ signals'[i].more => Len(signals'[i].items) = chunkSize
          BY <1>1 DEF ChunkStart
      <4>1. CASE Arriving(i) /\ signals'[i] = signals[i]
          BY <2>1, <4>1 DEF PagesAligned, Arriving
      <4>2. CASE Fetches(1) /\ AnswersTo(r, signals'[i])
          BY <1>1, <2>1, <4>2 DEF PagesAligned, PagesTrue, AnswersTo
      <4> QED BY <1>6, <4>1, <4>2
    <3> QED BY <3>1, <3>2, <3>3 DEF PagesAligned
  <2>4. ASSUME NEW chunk, Awaited(chunk) PROVE Awaited(chunk)'
    <3>1. CASE \E i \in DOMAIN requests : /\ requests[i].kind = "fetchData"
                                          /\ requests[i].id = identifier
                                          /\ requests[i].start \div chunkSize = chunk
      <4>1. PICK i \in DOMAIN requests : /\ requests[i].kind = "fetchData"
                                         /\ requests[i].id = identifier
                                         /\ requests[i].start \div chunkSize = chunk
          BY <3>1
      <4>2. CASE i = 1
        <5>1. PICK k \in DOMAIN told : told[k].kind = "dataFetched" /\ AnswersTo(r, told[k])
            BY <1>1, <1>2, <2>1, <4>1, <4>2 DEF Tells
        <5>2. Len(signals) + k \in DOMAIN signals'
              /\ signals'[Len(signals) + k] = told[k]
            BY <1>2, ConcatAfter DEF Tells, Typed, SignalsTyped
        <5>3. told[k].id = identifier /\ told[k].start \div chunkSize = chunk
            BY <1>1, <4>1, <4>2, <5>1 DEF AnswersTo
        <5> QED BY <1>1, <5>1, <5>2, <5>3 DEF Awaited
      <4>3. CASE i # 1
        <5>1. i - 1 \in DOMAIN requests' /\ requests'[i - 1] = requests[i]
            BY <1>1, <4>3 DEF CallsShrink
        <5> QED BY <1>1, <4>1, <5>1 DEF Awaited
      <4> QED BY <4>2, <4>3
    <3>2. CASE \E i \in DOMAIN signals : /\ signals[i].kind = "dataFetched"
                                         /\ signals[i].id = identifier
                                         /\ signals[i].start \div chunkSize = chunk
        BY <1>1, <1>3, <3>2 DEF Awaited
    <3> QED BY <2>4, <3>1, <3>2 DEF Awaited
  <2>5. AvailableChunksArrive'
      BY <1>1, <2>1, <2>4 DEF AvailableChunksArrive
  <2> QED BY <2>2, <2>3, <2>5
<1> QED BY <1>1, <1>4, <1>7, <1>8, RowsKept

\* A fetch for a chunk: its bit is set and its page is on the way.
LEMMA FetchFill ==
    ASSUME Careful, Typed, FillInv, Filling, NEW start \in Nat, FetchData(start),
           ~Complete => ChunkStart(start),
           UNCHANGED <<sessionVars, settingVars, signals, backendVars>>
    PROVE  FillInv'
<1> USE DEF sessionVars, settingVars, backendVars
<1> DEFINE r == FetchRequest(start)
<1>1. /\ UNCHANGED <<isConnected, identifier, loadingType, chunkSize, content, registered,
                     signals, itemList, fetchedCount, chunkCount>>
      /\ ~moreAvailable'
      /\ availableChunks' = availableChunks \cup
                                ({start \div chunkSize} \cap 0..chunkCount - 1)
    BY DEF FetchData
<1>2. r.kind = "fetchData" /\ r.id = identifier /\ r.start = start /\ r.count = chunkSize
    BY DEF FetchRequest
<1>3. CallsGrow(r)
    BY FetchRequestTyped, CallAdded DEF FetchData
<1> HIDE DEF r
<1>4. EditsOld
    BY <1>1 DEF EditsOld, EditArriving, NoEditPending
<1>5. PagesStay
    BY <1>1, <1>3 DEF PagesStay, CallsGrow
<1>6. \A i \in DOMAIN requests' : Fetches(i)' =>
          \/ i \in DOMAIN requests /\ Fetches(i) /\ requests'[i] = requests[i]
          \/ requests'[i] = r
    BY <1>1, <1>3 DEF CallsGrow, Fetches
<1>7. PagesTrue => PagesTrue'
    BY <1>1, <1>2, <1>6 DEF PagesTrue, Arriving
<1>8. ASSUME ~Complete PROVE Cut' /\ PagesAligned' /\ AvailableChunksArrive'
  <2>1. Cut /\ PagesAligned /\ AvailableChunksArrive /\ ChunkStart(start)
      BY <1>8 DEF FillInv
  <2>2. Cut'
    <3>1. CASE itemList = <<>>
      <4>1. chunkCount = 0 /\ availableChunks = {} /\ fetchedCount = 0
          BY <2>1, <3>1 DEF Cut
      <4>2. 0..chunkCount - 1 = {}
          BY <4>1
      <4>3. availableChunks' = {}
          BY <1>1, <4>1, <4>2
      <4> QED BY <1>1, <3>1, <4>1, <4>3 DEF Cut
    <3>2. CASE itemList # <<>>
        BY <1>1, <2>1, <3>2 DEF Cut, ChunksFor
    <3> QED BY <3>1, <3>2
  <2>3. PagesAligned'
    <3>1. \A i \in DOMAIN requests' : Fetches(i)' => ChunkStart(requests[i].start)'
        BY <1>1, <1>2, <1>6, <2>1 DEF PagesAligned, ChunkStart
    <3>2. \A i \in DOMAIN signals' : Arriving(i)' =>
              /\ ChunkStart(signals[i].start)'
              /\ signals'[i].more => Len(signals'[i].items) = chunkSize'
        BY <1>1, <2>1 DEF PagesAligned, ChunkStart, Arriving
    <3> QED BY <1>1, <3>1, <3>2 DEF PagesAligned
  <2>4. Awaited(start \div chunkSize)'
      BY <1>1, <1>2, <1>3 DEF CallsGrow, Awaited
  <2>5. \A chunk : Awaited(chunk) => Awaited(chunk)'
      BY <1>1, <1>3 DEF CallsGrow, Awaited
  <2>6. AvailableChunksArrive'
      BY <1>1, <2>1, <2>4, <2>5 DEF AvailableChunksArrive
  <2> QED BY <2>2, <2>3, <2>6
<1> QED BY <1>1, <1>4, <1>7, <1>8, RowsKept

LEMMA AskingFill ==
    ASSUME Careful, Typed, FillInv, Filling, FetchMore \/ \E row \in Rows : View(row)
    PROVE  FillInv'
<1>1. CASE FetchMore
  <2>1. /\ moreAvailable /\ FetchData(fetchedCount) /\ fetchedCount \in Nat
        /\ UNCHANGED <<sessionVars, settingVars, signals, backendVars>>
      BY <1>1 DEF FetchMore, CanFetchMore, Typed
  <2>2. ~Complete => ChunkStart(fetchedCount)
      BY <2>1 DEF FillInv, PagesAligned
  <2> QED BY <2>1, <2>2, FetchFill
<1>2. ASSUME NEW row \in Rows, View(row) PROVE FillInv'
  <2> DEFINE chunk == row \div chunkSize
             start == chunk * chunkSize
  <2>1. chunk \in Nat
      BY LenProperties, Divided DEF Rows, Typed
  <2>2. FetchData(start)
        /\ UNCHANGED <<sessionVars, settingVars, signals, backendVars>>
      BY <1>2 DEF View
  <2>3. start \in Nat /\ ChunkStart(start)
    <3> HIDE DEF chunk
    <3> QED BY <2>1, ChunkStartOf
  <2> HIDE DEF start
  <2> QED BY <2>2, <2>3, FetchFill
<1> QED BY <1>1, <1>2

\* What holds of the page that OnDataFetched() places.
PageHeard ==
    LET s == Head(signals) IN
    /\ SignalsShrink /\ Arriving(1) /\ s = signals[1]
    /\ signals' = Tail(signals)
    /\ UNCHANGED <<isConnected, identifier, loadingType, chunkSize, content, requests,
                   registered>>
    /\ s.start \in Nat /\ s.more \in BOOLEAN
    /\ s.items = Page(content, s.start, chunkSize) /\ s.items \in Seq(Items)
    /\ Len(s.items) \in Nat /\ Len(s.items) > 0
    /\ s.start + Len(s.items) <= Len(content)
    /\ Len(s.items) < chunkSize => s.start + Len(s.items) = Len(content)
    /\ Len(s.items) <= chunkSize
    /\ \A i \in 1..Len(s.items) : s.items[i] = content[s.start + i]

LEMMA HearsPage ==
    ASSUME Careful, Typed, SessionInv, SignalsFresh, FillInv, Filling,
           OnDataFetched, Accepts(Head(signals)), Head(signals).items # <<>>
    PROVE  /\ PageHeard /\ EditsOld /\ PagesOld
           /\ NoEditPending /\ NoEditPending'
<1> USE DEF listVars, sessionVars, settingVars, backendVars
<1> DEFINE s == Head(signals)
           k == Len(s.items)
<1>1. /\ signals # <<>> /\ signals' = Tail(signals) /\ s.kind = "dataFetched"
      /\ UNCHANGED <<isConnected, identifier, loadingType, chunkSize, content,
                     requests, registered>>
    BY DEF OnDataFetched, Hear
<1>2. SignalsShrink /\ s = signals[1] /\ 1 \in DOMAIN signals
    BY <1>1, SignalTaken DEF SignalsShrink
<1>3. Arriving(1) /\ s \in Signal
  <2>1. Known(s.id) /\ identifier \in Nat
      BY <1>1, <1>2 DEF SessionInv, IdsKnown, Typed
  <2>2. s.id # Everyone
      BY <2>1 DEF Known, Everyone
  <2>3. s \in Signal
      BY <1>1, TakeSignal DEF Typed
  <2> QED BY <1>1, <1>2, <2>2, <2>3 DEF Accepts, Arriving
<1>4. /\ s.start \in Nat /\ s.items \in Seq(Items) /\ s.more \in BOOLEAN
      /\ s.items = Page(content, s.start, chunkSize)
  <2>1. s.start \in Nat /\ s.items \in Seq(Items) /\ s.more \in BOOLEAN
      BY <1>1, <1>3 DEF Signal
  <2>2. s.items = Page(content, s.start, chunkSize)
      BY <1>2, <1>3 DEF FillInv, PagesTrue
  <2> QED BY <2>1, <2>2
<1>5. EditsOld /\ PagesOld
    BY <1>1, <1>2, SignalGone
<1>6. NoEditPending /\ NoEditPending'
  <2>1. \A i \in DOMAIN signals : ~EditArriving(i)
      BY <1>1, <1>2 DEF SignalsFresh, EditArriving
  <2> QED BY <1>2, <2>1 DEF SignalsShrink, EditArriving, NoEditPending
<1>7. content \in Seq(Items) /\ chunkSize \in Nat \ {0} /\ Len(content) \in Nat
    BY LenProperties DEF Typed
<1>8. /\ k = IF s.start + chunkSize < Len(content) THEN chunkSize
             ELSE IF s.start < Len(content) THEN Len(content) - s.start ELSE 0
      /\ \A i \in 1..k : s.items[i] = content[s.start + i]
  <2>0. content \in Seq(Items) /\ s.start \in Nat /\ chunkSize \in Nat
      BY <1>4, <1>7
  <2> HIDE DEF s
  <2>1. /\ Len(Page(content, s.start, chunkSize)) =
               IF s.start + chunkSize < Len(content) THEN chunkSize
               ELSE IF s.start < Len(content) THEN Len(content) - s.start ELSE 0
        /\ \A i \in 1..Len(Page(content, s.start, chunkSize)) :
              Page(content, s.start, chunkSize)[i] = content[s.start + i]
      BY <2>0, PageAt
  <2> QED BY <1>4, <2>1
<1>9. k \in Nat /\ k > 0
  <2> HIDE DEF s
  <2>1. k \in Nat /\ (k = 0 => s.items = <<>>)
      BY <1>4, LenProperties, EmptySeq
  <2> QED BY <2>1 DEF s
<1>10. /\ s.start + k <= Len(content) /\ k <= chunkSize
       /\ k < chunkSize => s.start + k = Len(content)
  <2> HIDE DEF s, k
  <2> QED BY <1>4, <1>7, <1>8, <1>9
<1> QED BY <1>1, <1>2, <1>3, <1>4, <1>5, <1>6, <1>8, <1>9, <1>10 DEF PageHeard

\* A page whose rows or chunks the list does not have leaves the rows alone.
LEMMA IgnoredFill ==
    ASSUME Careful, Typed, SessionInv, FillInv, Filling,
           PageHeard, EditsOld, PagesOld, NoEditPending,
           LET end == Head(signals).start + Len(Head(signals).items)
           IN  Len(itemList) < end \/ chunkCount < end \div chunkSize,
           UNCHANGED <<itemList, fetchedCount, chunkCount, availableChunks>>
    PROVE  FillInv'
<1> DEFINE s == Head(signals)
           end == s.start + Len(s.items)
           n == Len(content)
<1>1. /\ UNCHANGED <<isConnected, identifier, loadingType, chunkSize, content, registered>>
      /\ end \in Nat /\ end <= n /\ end > 0 /\ n \in Nat
    BY LenProperties DEF PageHeard, Typed
<1>2. PagesTrue => PagesTrue'
    BY <1>1, PagesKept
<1>3. ASSUME ~Complete PROVE Cut' /\ PagesAligned' /\ AvailableChunksArrive'
  <2>1. Cut /\ PagesAligned
      BY <1>3 DEF FillInv
  <2>2. Len(itemList) \in {0, n}
      BY FillingIsLive DEF FillInv, RowsInPlace, Filling
  <2>3. chunkSize \in Nat \ {0} /\ itemList \in Seq(Row)
      BY DEF Typed
  <2>4. itemList = <<>>
    <3>1. SUFFICES ASSUME itemList # <<>> PROVE FALSE
        OBVIOUS
    <3>2. Len(itemList) = n
        BY <2>2, <2>3, <3>1, EmptySeq
    <3>3. chunkCount = n \div chunkSize + 1
        BY <2>1, <3>1, <3>2 DEF Cut, ChunksFor
    <3>4. end \div chunkSize <= n \div chunkSize
        BY <1>1, <2>3, DivisionMonotone
    <3>5. end \div chunkSize \in Nat /\ n \div chunkSize \in Nat
        BY <1>1, <2>3, Divided
    <3>6. chunkCount < end \div chunkSize
        BY <1>1, <3>2
    <3> HIDE DEF end, n
    <3> QED BY <3>3, <3>4, <3>5, <3>6
  <2>5. fetchedCount = 0 /\ availableChunks = {} /\ chunkCount = 0
      BY <2>1, <2>4 DEF Cut
  <2>6. Cut'
      BY <2>4, <2>5 DEF Cut
  <2>7. ChunkStart(fetchedCount)'
    <3>1. 0 * chunkSize = 0 /\ ChunkStart(0 * chunkSize)
        BY <2>3, ChunkStartOf
    <3> QED BY <1>1, <2>5, <3>1 DEF ChunkStart
  <2>8. PagesAligned'
      BY <1>1, <2>1, <2>7, PagesKept
  <2>9. AvailableChunksArrive'
      BY <2>5 DEF AvailableChunksArrive
  <2> QED BY <2>6, <2>8, <2>9
<1> QED BY <1>1, <1>2, <1>3, RowsKept

\* What the rows are once the page is placed.
LEMMA PlacedRows ==
    ASSUME Typed, Typed', PageHeard,
           Len(itemList) = Len(content),
           \A i \in DOMAIN itemList : itemList[i] \in {Blank, content[i]},
           itemList' = Placed(Head(signals).items, Head(signals).start)
    PROVE  LET start == Head(signals).start
               end == start + Len(Head(signals).items)
           IN  /\ itemList' \in Seq(Row) /\ Len(itemList') = Len(content)
               /\ DOMAIN itemList' = 1..Len(content)
               /\ \A i \in 1..Len(content) :
                     IF i > start /\ i <= end
                     THEN itemList'[i] = content[i] /\ itemList'[i] \in Items
                     ELSE itemList'[i] = itemList[i]
<1> DEFINE s == Head(signals)
           start == s.start
           k == Len(s.items)
           n == Len(content)
<1>1. /\ start \in Nat /\ k \in Nat /\ start + k <= n /\ n \in Nat
      /\ \A i \in 1..k : s.items[i] = content[start + i]
    BY LenProperties DEF PageHeard, Typed
<1>2. DOMAIN itemList = 1..n /\ \A i \in 1..n : itemList[i] \in Row /\ content[i] \in Items
    BY LenProperties, ElementOfSeq DEF Typed
<1>3. itemList' = [i \in 1..n |-> IF i > start /\ i <= start + k THEN s.items[i - start]
                                                               ELSE itemList[i]]
    BY <1>2 DEF Placed
<1> HIDE DEF s, start, k, n
<1>4. \A i \in 1..n : i > start /\ i <= start + k =>
          i - start \in 1..k /\ start + (i - start) = i
    BY <1>1
<1>5. \A i \in 1..n : IF i > start /\ i <= start + k
                      THEN itemList'[i] = content[i] /\ itemList'[i] \in Items
                      ELSE itemList'[i] = itemList[i]
    BY <1>1, <1>2, <1>3, <1>4
<1>6. DOMAIN itemList' = 1..n
    BY <1>3
<1>7. itemList' \in Seq(Row)
    BY DEF Typed
<1>8. Len(itemList') = n
    BY <1>1, <1>6, <1>7, LenProperties
<1> QED BY <1>5, <1>6, <1>7, <1>8 DEF s, start, k, n

LEMMA SeqOfItems ==
    ASSUME NEW S, NEW T, NEW s \in Seq(S), \A i \in 1..Len(s) : s[i] \in T
    PROVE  s \in Seq(T)
<1> DEFINE e(i) == s[i]
<1>1. Len(s) \in Nat /\ s = [i \in 1..Len(s) |-> e(i)]
    BY LenProperties
<1>2. \A i \in 1..Len(s) : e(i) \in T
    OBVIOUS
<1> HIDE DEF e
<1>3. [i \in 1..Len(s) |-> e(i)] \in Seq(T)
    BY <1>1, <1>2, IsASeq
<1> QED BY <1>1, <1>3

\* A page goes where its items are in the content, and its chunk is there then.
LEMMA PlacedFill ==
    ASSUME Careful, Typed, Typed', SessionInv, FillInv, Filling,
           PageHeard, EditsOld, PagesOld, NoEditPending, NoEditPending',
           moreAvailable' = Head(signals).more,
           LET end == Head(signals).start + Len(Head(signals).items)
           IN  Len(itemList) >= end /\ fetchedCount' = end,
           itemList' = Placed(Head(signals).items, Head(signals).start),
           availableChunks' = availableChunks
                                  \cup {Head(signals).start \div chunkSize},
           chunkCount' = chunkCount
    PROVE  FillInv'
<1> DEFINE s == Head(signals)
           start == s.start
           end == start + Len(s.items)
           n == Len(content)
<1>1. /\ UNCHANGED <<isConnected, identifier, loadingType, chunkSize, content, registered,
                     requests>>
      /\ SignalsShrink /\ s = signals[1] /\ Arriving(1)
      /\ start \in Nat /\ end \in Nat /\ end <= n /\ end > 0 /\ n \in Nat
      /\ end < start + chunkSize => end = n
      /\ Len(s.items) = chunkSize => end = start + chunkSize
    BY LenProperties DEF PageHeard, Typed
<1>2. /\ Len(itemList) = n
      /\ \A i \in DOMAIN itemList : itemList[i] \in {Blank, content[i]}
  <2>1. Len(itemList) \in {0, n}
        /\ \A i \in DOMAIN itemList : itemList[i] \in {Blank, content[i]}
      BY FillingIsLive DEF FillInv, RowsInPlace, Filling
  <2> QED BY <1>1, <2>1
<1>3. /\ itemList' \in Seq(Row) /\ Len(itemList') = n /\ DOMAIN itemList' = 1..n
      /\ \A i \in 1..n : IF i > start /\ i <= end
                         THEN itemList'[i] = content[i] /\ itemList'[i] \in Items
                         ELSE itemList'[i] = itemList[i]
    BY <1>2, PlacedRows
<1>4. DOMAIN itemList = 1..n /\ itemList # <<>> /\ itemList' # <<>>
    BY <1>1, <1>2, <1>3, LenProperties DEF Typed
<1>5. PagesTrue'
    BY <1>1, PagesKept DEF FillInv
<1>6. EditsFit'
    BY DEF EditsFit, NoEditPending, EditArriving
<1>7. RowsInPlace'
  <2>1. \A i \in 1..n : itemList'[i] \in {Blank, content[i]}
      BY <1>2, <1>3, <1>4
  <2> QED BY <1>1, <1>3, <2>1 DEF RowsInPlace
<1>8. Complete => Complete'
  <2>1. ASSUME itemList \in Seq(Items) PROVE itemList' \in Seq(Items)
    <3>1. \A i \in 1..n : itemList[i] \in Items
        BY <1>4, <2>1, ElementOfSeq, LenProperties
    <3>2. \A i \in 1..Len(itemList') : itemList'[i] \in Items
        BY <1>3, <3>1
    <3> QED BY <1>3, <3>2, SeqOfItems
  <2> QED BY <1>1, <1>3, <2>1 DEF Complete
<1>9. ASSUME ~Complete PROVE Cut' /\ PagesAligned' /\ AvailableChunksArrive'
  <2>1. Cut /\ PagesAligned /\ AvailableChunksArrive
      BY <1>9 DEF FillInv
  <2>2. Cut'
      BY <1>1, <1>2, <1>3, <1>4, <2>1 DEF Cut, ChunksFor
  <2>3. ChunkStart(start) /\ (s.more => Len(s.items) = chunkSize)
      BY <1>1, <2>1 DEF PagesAligned, Arriving
  <2>4. PagesAligned'
    <3>1. ASSUME moreAvailable' PROVE ChunkStart(fetchedCount)'
      <4>1. fetchedCount' = start + chunkSize
          BY <1>1, <2>3, <3>1
      <4>2. ChunkStart(start + chunkSize)
        <5> HIDE DEF start
        <5> QED BY <1>1, <2>3, NextChunkStart
      <4> QED BY <1>1, <4>1, <4>2 DEF ChunkStart
    <3> QED BY <1>1, <2>1, <3>1, PagesKept
  <2>5. ASSUME NEW row \in 0..n - 1, NEW chunk, chunk = row \div chunkSize,
               chunk \in availableChunks'
        PROVE  itemList'[row + 1] # Blank \/ Awaited(chunk)'
    <3>1. row \in Nat /\ row + 1 \in 1..n
        BY <1>1
    <3>2. CASE chunk = start \div chunkSize
      <4>1. start <= row /\ row < start + chunkSize
        <5>1. (row \div chunkSize = start \div chunkSize)
                  <=> (start <= row /\ row < start + chunkSize)
          <6> HIDE DEF start
          <6> QED BY <1>1, <2>3, <3>1, ChunkRows
        <5> HIDE DEF start
        <5> QED BY <2>5, <3>2, <5>1
      <4>2. row + 1 > start /\ row + 1 <= end
        <5> chunkSize \in Nat
            BY DEF Typed
        <5> HIDE DEF start, end, n
        <5> QED BY <1>1, <3>1, <4>1
      <4>3. itemList'[row + 1] \in Items
          BY <1>3, <3>1, <4>2
      <4> QED BY <4>3, PagingAssumption
    <3>3. CASE chunk # start \div chunkSize
      <4>1. chunk \in availableChunks
          BY <2>5, <3>3
      <4>2. CASE itemList[row + 1] # Blank
          BY <1>3, <3>1, <4>2, PagingAssumption
      <4>3. CASE Awaited(chunk)
        <5>1. chunk # signals[1].start \div chunkSize
            BY <1>1, <3>3
        <5> QED BY <1>1, <4>3, <5>1, AwaitedStill
      <4>4. itemList[row + 1] # Blank \/ Awaited(chunk)
          BY <1>2, <2>1, <2>5, <4>1 DEF AvailableChunksArrive, Filling
      <4> QED BY <4>2, <4>3, <4>4
    <3> QED BY <3>2, <3>3
  <2>6. AvailableChunksArrive'
      BY <1>1, <1>3, <2>5 DEF AvailableChunksArrive
  <2> QED BY <2>2, <2>4, <2>6
<1>10. identifier' \in registered'
    BY <1>1 DEF FillInv
<1> QED BY <1>5, <1>6, <1>7, <1>8, <1>9, <1>10 DEF FillInv

LEMMA FetchedFill ==
    ASSUME Careful, Typed, Typed', SessionInv, SignalsFresh, FillInv, Filling,
           OnDataFetched, Accepts(Head(signals))
    PROVE  FillInv'
<1>1. CASE Head(signals).items = <<>>
    BY <1>1, NoItemsFill
<1>2. CASE Head(signals).items # <<>>
  <2>1. PageHeard /\ EditsOld /\ PagesOld /\ NoEditPending /\ NoEditPending'
      BY <1>2, HearsPage
  <2>2. CASE LET end == Head(signals).start + Len(Head(signals).items)
             IN  /\ Len(itemList) < end \/ chunkCount < end \div chunkSize
                 /\ UNCHANGED <<itemList, fetchedCount, chunkCount, availableChunks>>
      BY <2>1, <2>2, IgnoredFill
  <2>3. CASE LET end == Head(signals).start + Len(Head(signals).items)
             IN  /\ moreAvailable' = Head(signals).more
                 /\ Len(itemList) >= end /\ fetchedCount' = end
                 /\ itemList' = Placed(Head(signals).items, Head(signals).start)
                 /\ availableChunks' = availableChunks
                                           \cup {Head(signals).start \div chunkSize}
                 /\ chunkCount' = chunkCount
      BY <2>1, <2>3, PlacedFill
  <2> QED BY <1>2, <2>2, <2>3 DEF OnDataFetched, Filling
<1> QED BY <1>1, <1>2

\* The list shows the content once it has heard of the edit.
LEMMA ChangedShows ==
    ASSUME Typed, FillInv, Filling, OnDataChanged
    PROVE  itemList' = content
<1> DEFINE s == Head(signals)
<1>1. /\ SignalsShrink /\ s = signals[1] /\ 1 \in DOMAIN signals
      /\ s.kind = "dataChanged"
    BY SignalTaken DEF OnDataChanged, Hear, SignalsShrink
<1>2. EditArriving(1) /\ s \in Signal
    BY <1>1, TakeSignal DEF EditArriving, Typed, OnDataChanged, Hear
<1>3. EditFits(s)
    BY <1>1, <1>2 DEF FillInv, EditsFit
<1>4. s.items \in Seq(Row) /\ s.start \in Nat /\ s.count \in Nat
  <2>1. s.items \in Seq(Items) /\ s.start \in Nat /\ s.count \in Nat
      BY <1>1, <1>2 DEF Signal
  <2> QED BY <2>1, SeqMonotonic DEF Row
<1>5. itemList' = ChangedRows(s.items, s.start, s.count)
    BY <1>3 DEF OnDataChanged, EditFits
<1> HIDE DEF s
<1> QED BY <1>3, <1>4, <1>5, EditApplied DEF EditFits, Typed

LEMMA ChangedFill ==
    ASSUME Careful, Typed, SessionInv, SignalsFresh, FillInv, Filling, OnDataChanged
    PROVE  FillInv'
<1> USE DEF sessionVars, settingVars, backendVars
<1>1. SignalsShrink /\ signals[1].kind = "dataChanged"
    BY SignalTaken DEF OnDataChanged, Hear, SignalsShrink
<1>2. UNCHANGED <<isConnected, identifier, loadingType, chunkSize, content, registered,
                  requests>>
    BY DEF OnDataChanged
<1>3. itemList' = content
    BY ChangedShows
<1>4. \A i \in DOMAIN signals' : ~EditArriving(i)'
    BY <1>1 DEF SignalsShrink, SignalsFresh, EditArriving
<1>5. PagesOld
    BY <1>1, <1>2 DEF PagesOld, SignalsShrink, Arriving, Fetches
<1>6. PagesTrue' /\ identifier' \in registered'
    BY <1>2, <1>5, PagesKept DEF FillInv
<1>7. EditsFit'
    BY <1>4 DEF EditsFit
<1>8. RowsInPlace'
    BY <1>2, <1>3 DEF RowsInPlace
<1>9. Complete'
    BY <1>2, <1>3 DEF Complete, Typed
<1> QED BY <1>6, <1>7, <1>8, <1>9 DEF FillInv

LEMMA EditFill ==
    ASSUME Careful, Typed, SessionInv, FillInv, Filling, BackendEdits
    PROVE  FillInv'
<1> USE DEF sessionVars, listVars, settingVars
<1>1. PICK start \in Nat, count \in Nat, data \in Seq(Items) :
          /\ Edit(start, count, data) /\ start + count <= Len(content)
          /\ count = 0 \/ Len(data) = count \/ (data = <<>> /\ count \in Removals)
    BY EditsAnnounced DEF Announced
<1> DEFINE s == Change(start, count, data)
<1>2. /\ requests = <<>> /\ signals = <<>> /\ itemList = content
      /\ UNCHANGED <<isConnected, identifier, loadingType, itemList, requests, registered>>
      /\ content' = Edited(content, data, start, count)
    BY <1>1, FillingIsLive DEF Edit, Careful, Settled, Edited, HoldsAll
<1>3. /\ 1 \in DOMAIN signals' /\ signals'[1] = s
      /\ \A i \in DOMAIN signals' : signals'[i] = s
    BY <1>1, <1>2, EditAdds DEF SignalsGrow
<1>4. s.kind = "dataChanged" /\ s.start = start /\ s.count = count /\ s.items = data
    BY DEF Change
<1> HIDE DEF s
<1>5. DOMAIN requests' = {}
    BY <1>2
<1>6. PagesTrue' /\ identifier' \in registered'
    BY <1>2, <1>3, <1>4, <1>5 DEF FillInv, PagesTrue, Arriving
<1>7. EditFits(s)'
    BY <1>1, <1>2, <1>4 DEF EditFits, Careful
<1>8. itemList' \in Seq(Items)
    BY <1>2 DEF Typed
<1>9. EditsFit'
    BY <1>2, <1>3, <1>7, <1>8 DEF EditsFit, EditFits
<1>10. ~NoEditPending'
    BY <1>3, <1>4 DEF NoEditPending
<1>11. RowsInPlace' /\ Complete'
    BY <1>8, <1>10 DEF RowsInPlace, Complete
<1> QED BY <1>6, <1>9, <1>11 DEF FillInv

\* A reset begins with the first chunk.
LEMMA ResetFill ==
    ASSUME Careful, Typed, SessionInv, Enrolled, FillInv,
           Reload \/ \E type \in LoadingType : SetLoadingType(type)
    PROVE  FillInv'
<1> SUFFICES ASSUME Filling' PROVE FillInv'
    BY DEF FillInv
<1>1. /\ Settled /\ ResetModel(<<>>)
      /\ UNCHANGED <<isConnected, isInitialized, identifier, chunkSize, registered,
                     signals, content>>
      /\ loadingType = "DataChanged" \/ canGetSize
    BY DEF Reload, SetLoadingType, Calm, Careful, Filling, sessionVars, backendVars
<1>2. isConnected /\ isInitialized
  <2>1. isConnected
      BY <1>1, FillingIsLive DEF SessionInv, Unset, Filling
  <2>2. Starting
      BY DEF SessionInv
  <2> QED BY <1>1, <2>1, <2>2, StartingNotSettled
<1>3. identifier \in registered
  <2>1. DOMAIN requests = {}
      BY <1>1 DEF Settled
  <2> QED BY <1>2, <2>1 DEF Enrolled
<1>4. /\ itemList' = <<>> /\ chunkCount' = 0 /\ availableChunks' = {}
      /\ fetchedCount' = 0 /\ ~moreAvailable'
      /\ Len(itemList') = 0 /\ DOMAIN itemList' = {}
  <2>1. ~moreAvailable'
      BY <1>1, <1>2 DEF ResetModel
  <2>2. itemList' = <<>> /\ chunkCount' = 0 /\ availableChunks' = {} /\ fetchedCount' = 0
      BY <1>1 DEF ResetModel
  <2> QED BY <2>1, <2>2
<1>5. DOMAIN signals' = {}
    BY <1>1 DEF Settled
<1>6. \A i \in DOMAIN requests' : requests'[i] = FetchRequest(0)
  <2>1. CallsGrow(FetchRequest(0)) /\ DOMAIN requests = {}
      BY <1>1, <1>2, ResetAdds DEF Settled
  <2> QED BY <2>1 DEF CallsGrow
<1>7. PagesTrue'
    BY <1>1, <1>5, <1>6 DEF PagesTrue, FetchRequest
<1>8. EditsFit' /\ RowsInPlace'
    BY <1>4, <1>5 DEF EditsFit, RowsInPlace
<1>9. Cut' /\ AvailableChunksArrive'
    BY <1>4 DEF Cut, AvailableChunksArrive
<1>10. PagesAligned'
  <2>1. 0 * chunkSize = 0 /\ ChunkStart(0 * chunkSize)
      BY ChunkStartOf DEF Typed
  <2>2. ChunkStart(0)'
      BY <1>1, <2>1 DEF ChunkStart
  <2>3. \A i \in DOMAIN requests' : requests'[i].start = 0
      BY <1>6 DEF FetchRequest
  <2> QED BY <1>4, <1>5, <2>2, <2>3 DEF PagesAligned, ChunkStart
<1> QED BY <1>1, <1>3, <1>7, <1>8, <1>9, <1>10 DEF FillInv

LEMMA StepFill ==
    ASSUME Careful, Typed, Typed', SessionInv, Enrolled, SignalsFresh, FillInv,
           [Next]_vars
    PROVE  FillInv'
<1> USE DEF listVars, sessionVars, settingVars, backendVars
<1>1. CASE UNCHANGED vars
  <2>1. /\ UNCHANGED <<isConnected, identifier, loadingType, chunkSize, content, listVars>>
        /\ UNCHANGED <<requests, signals, registered>>
      BY <1>1 DEF vars
  <2>2. EditsOld /\ PagesOld /\ PagesStay
      BY <2>1 DEF EditsOld, PagesOld, PagesStay, EditArriving, NoEditPending, Arriving,
                  Fetches
  <2> QED BY <2>1, <2>2, FillQuiet
<1>2. CASE Reload \/ \E type \in LoadingType : SetLoadingType(type)
    BY <1>2, ResetFill
<1>3. CASE AnnounceAgain \/ Initialize \/ RegisterInstance \/ UnregisterInstance
    BY <1>3, TakenFill
<1>4. ASSUME ~Filling' PROVE FillInv'
    BY <1>4 DEF FillInv
<1>5. ASSUME Next, Filling', ~(Reload \/ \E type \in LoadingType : SetLoadingType(type)),
             ~(AnnounceAgain \/ Initialize \/ RegisterInstance \/ UnregisterInstance)
      PROVE  FillInv'
  <2>1. ~Disconnect
      BY <1>5 DEF Disconnect, Filling
  <2>2. Filling
      BY <1>5, <2>1 DEF Filling, Next, Connect, FetchMore, SetChunkSize, View,
         OnInitializationDone, OnCapabilitiesChanged, OnCountChanged, OnDataFetched,
         OnDataChanged, SignalLost, ServeFetchData, Insert, Update, Remove, Move, Edit
  <2>3. ~Connect /\ ~SignalLost /\ \A size \in ChunkSizes : ~SetChunkSize(size)
      BY <2>2, FillingIsLive DEF Connect, SignalLost, SetChunkSize, Careful, Filling
  <2>4. CASE FetchMore \/ \E row \in Rows : View(row)
      BY <2>2, <2>4, AskingFill
  <2>5. CASE OnInitializationDone \/ OnCapabilitiesChanged
      BY <2>2, <2>5, HeardFill
  <2>6. CASE OnCountChanged
      BY <2>2, <2>6, HeardFill, CountFill
  <2>7. CASE OnDataFetched
      BY <2>2, <2>7, HeardFill, FetchedFill
  <2>8. CASE OnDataChanged
      BY <2>2, <2>8, ChangedFill
  <2>9. CASE ServeFetchData
      BY <2>2, <2>9, ServeFill
  <2>10. CASE BackendEdits
      BY <2>2, <2>10, EditFill
  <2> QED BY <1>5, <2>1, <2>3, <2>4, <2>5, <2>6, <2>7, <2>8, <2>9, <2>10
          DEF Next, BackendEdits
<1> QED BY <1>1, <1>2, <1>3, <1>4, <1>5

LEMMA InitFill == Init => Enrolled /\ SignalsFresh /\ FillInv
<1>1. DOMAIN <<>> = {}
    OBVIOUS
<1>2. Init => Enrolled /\ SignalsFresh
    BY <1>1 DEF Init, Enrolled, SignalsFresh
<1>3. Init => FillInv
    BY DEF Init, FillInv, Filling
<1> QED BY <1>2, <1>3

PagingInv ==
    /\ Typed /\ SessionInv /\ ListInv
    /\ Enrolled /\ SignalsFresh /\ FillInv

LEMMA InitPaging == Init => PagingInv
    BY InitTyped, InitSession, InitList, InitFill DEF PagingInv

LEMMA StepPaging == Careful /\ PagingInv /\ [Next]_vars => PagingInv'
<1> SUFFICES ASSUME Careful, PagingInv, [Next]_vars PROVE PagingInv'
    OBVIOUS
<1>1. Typed /\ SessionInv /\ ListInv /\ Enrolled /\ SignalsFresh /\ FillInv
    BY DEF PagingInv
<1>2. Typed'
    BY <1>1, StepTyped
<1>3. SessionInv' /\ ListInv'
    BY <1>1, StepSession, StepList
<1>4. Enrolled' /\ SignalsFresh'
    BY <1>1, StepEnrolled, StepFresh
<1>5. FillInv'
    BY <1>1, <1>2, StepFill
<1> QED BY <1>2, <1>3, <1>4, <1>5 DEF PagingInv

(* Each row of a DataChanged list is blank or shows the backend's item of    *)
(* its place, and a row whose chunk counts as available, so that data() will *)
(* not ask for it, shows its item or has its page on the way: for any items, *)
(* chunk sizes, sessions and orders of answers.  It takes the same patience. *)
THEOREM RowsFindTheirPlace ==
    ASSUME Careful
    PROVE  Spec => [](RowsInPlace /\ AvailableChunksArrive)
<1>1. Init => PagingInv
    BY InitPaging
<1>2. PagingInv /\ [Next]_vars => PagingInv'
    BY StepPaging
<1>3. PagingInv => RowsInPlace /\ AvailableChunksArrive
  <2> SUFFICES ASSUME PagingInv PROVE RowsInPlace /\ AvailableChunksArrive
      OBVIOUS
  <2>1. FillInv /\ Typed
      BY DEF PagingInv
  <2>2. CASE ~Filling
      BY <2>2 DEF Filling, RowsInPlace, AvailableChunksArrive
  <2>3. CASE Filling /\ ~Complete
      BY <2>1, <2>3 DEF FillInv
  <2>4. CASE Filling /\ Complete
    <3>1. RowsInPlace
        BY <2>1, <2>4 DEF FillInv
    <3>2. \A i \in 1..Len(itemList) : itemList[i] \in Items
        BY <2>4, ElementOfSeq DEF Complete
    <3>3. Len(itemList) \in Nat
        BY <2>1, LenProperties DEF Typed
    <3>4. \A row \in 0..Len(itemList) - 1 : itemList[row + 1] # Blank
        BY <3>2, <3>3, PagingAssumption
    <3> QED BY <3>1, <3>4 DEF AvailableChunksArrive
  <2> QED BY <2>2, <2>3, <2>4
<1> QED BY <1>1, <1>2, <1>3, PTL DEF Spec

------------------------------------------------------------------------------
(* The chunk bits, which onCountChanged() alone makes room for.              *)

Sizes == Lengths \cup {Len(InitialContent)}

(* Whichever of its lengths the list was cut into chunks at, there are       *)
(* chunks for all of them: onDataChanged() inserts rows without making room  *)
(* for the chunks they fall into, and a list loaded when the backend had     *)
(* nothing is not cut at all.                                                *)
LengthsFit ==
    \A c \in ChunkSizes \cup {DefaultChunkSize}, m, n \in Sizes :
        m > 0 /\ n <= (m \div c + 1) * c

SettingsTyped ==
    /\ isConnected \in BOOLEAN /\ isInitialized \in BOOLEAN
    /\ identifier \in 1..MaxSession
    /\ moreAvailable \in BOOLEAN
    /\ chunkSize \in ChunkSizes \cup {DefaultChunkSize}
    /\ loadingType \in LoadingType /\ canGetSize \in BOOLEAN
    /\ resets \in 0..MaxResets

ChunkInv ==
    /\ Len(content) \in Sizes
    /\ availableChunks \subseteq 0..chunkCount - 1
    /\ Filling =>
          /\ itemList = <<>> \/ /\ Len(itemList) \in Sizes
                                /\ \E m \in Sizes : chunkCount = ChunksFor(m)
          /\ \A i \in DOMAIN signals : EditArriving(i) => itemList # <<>>

LEMMA StepSettings == Typed /\ SettingsTyped /\ [Next]_vars => SettingsTyped'
<1> SUFFICES ASSUME Typed, SettingsTyped, [Next]_vars PROVE SettingsTyped'
    OBVIOUS
<1> USE DEF sessionVars, settingVars, listVars
<1>1. /\ isConnected' \in BOOLEAN /\ isInitialized' \in BOOLEAN
      /\ identifier' \in 1..MaxSession
  <2>1. CASE UNCHANGED sessionVars
      BY <2>1 DEF SettingsTyped
  <2>2. CASE Connect
      BY <2>2 DEF Connect, SettingsTyped
  <2>3. CASE Disconnect
    <3>1. identifier + 1 \in 1..MaxSession
        BY <2>3, PagingAssumption DEF Disconnect, SettingsTyped
    <3> QED BY <2>3, <3>1 DEF Disconnect
  <2>4. CASE OnInitializationDone
      BY <2>4 DEF OnInitializationDone, SettingsTyped
  <2> QED BY <2>1, <2>2, <2>3, <2>4 DEF vars, Next, Reload, FetchMore, SetLoadingType,
        SetChunkSize, View, OnCapabilitiesChanged, OnCountChanged, OnDataFetched,
        OnDataChanged, SignalLost, Initialize, RegisterInstance, UnregisterInstance,
        ServeFetchData, AnnounceAgain, Insert, Update, Remove, Move, Edit
<1>2. moreAvailable' \in BOOLEAN
  <2>1. CASE moreAvailable' = moreAvailable
      BY <2>1 DEF SettingsTyped
  <2>2. CASE \E before : ResetModel(before)
      BY <2>2 DEF ResetModel
  <2>3. CASE \E start : FetchData(start)
      BY <2>3 DEF FetchData
  <2>4. CASE OnDataFetched
    <3>1. Head(signals) \in Signal /\ Head(signals).kind = "dataFetched"
        BY <2>4, TakeSignal DEF OnDataFetched, Hear, Typed
    <3>2. Head(signals).more \in BOOLEAN
        BY <3>1 DEF Signal
    <3> QED BY <2>1, <2>4, <3>2 DEF OnDataFetched
  <2>5. CASE Disconnect
      BY <2>5 DEF Disconnect
  <2> QED BY <2>1, <2>2, <2>3, <2>4, <2>5 DEF vars, Next, Connect, Reload, FetchMore,
        SetLoadingType, SetChunkSize, View, OnInitializationDone, OnCapabilitiesChanged,
        OnCountChanged, OnDataChanged, SignalLost, Initialize, RegisterInstance,
        UnregisterInstance, ServeFetchData, AnnounceAgain, Insert, Update, Remove, Move,
        Edit
<1>3. /\ chunkSize' \in ChunkSizes \cup {DefaultChunkSize}
      /\ loadingType' \in LoadingType /\ canGetSize' \in BOOLEAN
      /\ resets' \in 0..MaxResets
  <2>1. CASE UNCHANGED settingVars
      BY <2>1 DEF SettingsTyped
  <2>2. CASE Disconnect
      BY <2>2 DEF Disconnect, SettingsTyped, LoadingType
  <2>3. CASE Reload \/ \E type \in LoadingType : SetLoadingType(type)
    <3>1. resets' = resets + 1 /\ resets < MaxResets /\ resets \in 0..MaxResets
        BY <2>3 DEF Reload, SetLoadingType, SettingsTyped
    <3>2. resets' \in 0..MaxResets
        BY <3>1, PagingAssumption
    <3>3. /\ chunkSize' \in ChunkSizes \cup {DefaultChunkSize}
          /\ loadingType' \in LoadingType /\ canGetSize' \in BOOLEAN
        BY <2>3 DEF Reload, SetLoadingType, SettingsTyped
    <3> QED BY <3>2, <3>3
  <2>4. CASE \E size \in ChunkSizes : SetChunkSize(size)
      BY <2>4 DEF SetChunkSize, SettingsTyped
  <2>5. CASE OnCapabilitiesChanged
    <3>1. canGetSize' \in BOOLEAN
        BY <2>5 DEF OnCapabilitiesChanged
    <3>2. UNCHANGED <<chunkSize, loadingType, resets>>
        BY <2>5 DEF OnCapabilitiesChanged
    <3> QED BY <3>1, <3>2 DEF SettingsTyped
  <2> QED BY <2>1, <2>2, <2>3, <2>4, <2>5 DEF vars, Next, Connect, FetchMore, View,
        OnInitializationDone, OnCountChanged, OnDataFetched, OnDataChanged, SignalLost,
        Initialize, RegisterInstance, UnregisterInstance, ServeFetchData, AnnounceAgain,
        Insert, Update, Remove, Move, Edit
<1> QED BY <1>1, <1>2, <1>3 DEF SettingsTyped

\* A row of the list falls into a chunk it was cut into.
LEMMA ChunkInRange ==
    ASSUME LengthsFit, SettingsTyped, NEW m \in Sizes, NEW n \in Sizes,
           NEW row \in Nat, row < n
    PROVE  row \div chunkSize \in Nat /\ row \div chunkSize < ChunksFor(m)
<1> DEFINE p == row \div chunkSize
           q == m \div chunkSize
<1>1. chunkSize \in Nat \ {0} /\ m \in Nat /\ n \in Nat
    BY PagingAssumption, LenProperties DEF SettingsTyped, Sizes
<1>2. p \in Nat /\ p * chunkSize <= row
    BY <1>1, Divided
<1>3. q \in Nat /\ n <= (q + 1) * chunkSize
    BY <1>1, Divided DEF LengthsFit, SettingsTyped
<1> HIDE DEF p, q
<1>4. ASSUME q + 1 <= p PROVE FALSE
  <2>1. (q + 1) * chunkSize <= p * chunkSize
    <3>1. CASE q + 1 = p
        BY <1>1, <1>2, <3>1
    <3>2. CASE q + 1 < p
      <4>1. (q + 1) * chunkSize + chunkSize <= p * chunkSize
          BY <1>1, <1>2, <1>3, <3>2, MultiplesApart
      <4>2. (q + 1) * chunkSize \in Nat /\ p * chunkSize \in Nat
          BY <1>1, <1>2, <1>3
      <4> HIDE DEF ChunksFor
      <4> QED BY <1>1, <4>1, <4>2
    <3> QED BY <1>2, <1>3, <1>4, <3>1, <3>2
  <2>2. (q + 1) * chunkSize \in Nat /\ p * chunkSize \in Nat
      BY <1>1, <1>2, <1>3
  <2> QED BY <1>1, <1>2, <1>3, <2>1, <2>2
<1>5. p < q + 1
    BY <1>2, <1>3, <1>4
<1> QED BY <1>2, <1>5 DEF p, q, ChunksFor

\* Signals on their way, but for an edit of this step, were so before.
LEMMA NoNewEdit ==
    ASSUME Typed, Next, ~BackendEdits, NEW i \in DOMAIN signals', EditArriving(i)'
    PROVE  \E j \in DOMAIN signals : EditArriving(j)
    BY OldEditsOnly DEF EditArriving

\* A step that leaves the rows and their number of chunks alone.
LEMMA ChunksKept ==
    ASSUME Typed, ChunkInv, Next, ~BackendEdits,
           availableChunks' \subseteq 0..chunkCount - 1,
           UNCHANGED <<loadingType, chunkSize, content, itemList, chunkCount>>
    PROVE  ChunkInv'
    BY NoNewEdit DEF ChunkInv, Filling, ChunksFor

LEMMA CountChunks ==
    ASSUME Careful, Typed, SessionInv, SignalsFresh, FillInv, ChunkInv, Next,
           OnCountChanged
    PROVE  ChunkInv'
<1> USE DEF listVars, sessionVars, settingVars, backendVars
<1> DEFINE s == Head(signals)
           n == Len(content)
<1>1. /\ signals # <<>> /\ signals' = Tail(signals) /\ s.kind = "countChanged"
      /\ UNCHANGED <<loadingType, chunkSize, content>>
    BY DEF OnCountChanged, Hear
<1>2. ~BackendEdits
  <2>1. ASSUME BackendEdits PROVE FALSE
    <3>1. PICK start \in Nat, count \in Nat, data \in Seq(Items) : Edit(start, count, data)
        BY <2>1, EditsAnnounced DEF Announced
    <3> QED BY <1>1, <3>1 DEF Edit, Careful, Settled
  <2> QED BY <2>1
<1>3. CASE ~CountIsNew(s)
  <2>1. UNCHANGED <<itemList, chunkCount, availableChunks>>
      BY <1>3 DEF OnCountChanged
  <2> QED BY <1>1, <1>2, <2>1, ChunksKept DEF ChunkInv
<1>4. CASE CountIsNew(s)
  <2>1. SignalsShrink /\ s = signals[1] /\ 1 \in DOMAIN signals
      BY <1>1, SignalTaken DEF SignalsShrink
  <2>2. Filling /\ Len(itemList) # n /\ s.length = n /\ n \in Nat
      BY <1>1, <1>4, <2>1, LenProperties DEF SignalsFresh, CountIsNew, Filling, Typed
  <2>3. \A i \in DOMAIN signals : ~EditArriving(i)
      BY <1>1, <2>1 DEF SignalsFresh, EditArriving
  <2>4. NoEditPending
      BY <2>3 DEF NoEditPending, EditArriving
  <2>5. itemList = <<>>
    <3>1. Len(itemList) = 0
        BY <2>2, <2>4, FillingIsLive DEF FillInv, RowsInPlace, Filling
    <3> QED BY <3>1, EmptySeq DEF Typed
  <2>6. Len(itemList') = n
    <3> DEFINE blanks == [i \in 1..n |-> Blank]
    <3>1. blanks \in Seq(Row)
        BY <2>2, IsASeq DEF Row
    <3>2. itemList' = <<>> \o blanks
        BY <1>4, <2>2, <2>5 DEF OnCountChanged
    <3>3. Len(blanks) = n
        BY <2>2
    <3> HIDE DEF blanks
    <3>4. <<>> \o blanks = blanks
        BY <3>1, ConcatEmptySeq
    <3> QED BY <3>2, <3>3, <3>4
  <2>7. /\ chunkCount' = ChunksFor(n)
        /\ availableChunks' \subseteq 0..ChunksFor(n) - 1
      BY <1>4, <2>2 DEF OnCountChanged
  <2>8. \A i \in DOMAIN signals' : ~EditArriving(i)'
      BY <1>2, <2>3, NoNewEdit
  <2> QED BY <1>1, <2>6, <2>7, <2>8 DEF ChunkInv, ChunksFor
<1> QED BY <1>3, <1>4

LEMMA FetchedChunks ==
    ASSUME Careful, LengthsFit, Typed, Typed', SettingsTyped, SessionInv, SignalsFresh,
           FillInv, ChunkInv, Next, ~BackendEdits, OnDataFetched
    PROVE  ChunkInv'
<1> USE DEF listVars, sessionVars, settingVars, backendVars
<1> DEFINE s == Head(signals)
           end == s.start + Len(s.items)
<1>1. UNCHANGED <<loadingType, chunkSize, content>>
    BY DEF OnDataFetched
<1>2. CASE UNCHANGED <<itemList, chunkCount, availableChunks>>
    BY <1>1, <1>2, ChunksKept DEF ChunkInv
<1>3. CASE ~Filling
  <2>1. chunkCount' = chunkCount /\ availableChunks' = availableChunks
      BY <1>3 DEF OnDataFetched, Filling
  <2> QED BY <1>1, <1>3, <2>1 DEF ChunkInv, Filling
<1>4. CASE /\ Filling /\ Accepts(s) /\ s.items # <<>>
           /\ Len(itemList) >= end /\ itemList' = Placed(s.items, s.start)
           /\ availableChunks' = availableChunks \cup {s.start \div chunkSize}
           /\ chunkCount' = chunkCount
  <2>1. PageHeard /\ NoEditPending
      BY <1>4, HearsPage
  <2>2. /\ s.start \in Nat /\ Len(s.items) \in Nat /\ Len(s.items) > 0
        /\ end <= Len(content) /\ Len(content) \in Nat
      BY <2>1, LenProperties DEF PageHeard, Typed
  <2>3. /\ Len(itemList) \in {0, Len(content)}
        /\ \A i \in DOMAIN itemList : itemList[i] \in {Blank, content[i]}
      BY <1>4, <2>1, FillingIsLive DEF FillInv, RowsInPlace, Filling
  <2>4. Len(itemList) = Len(content)
      BY <1>4, <2>2, <2>3
  <2>5. Len(itemList') = Len(content) /\ itemList' # <<>> /\ itemList # <<>>
    <3>1. Len(itemList') = Len(content)
        BY <1>4, <2>1, <2>3, <2>4, PlacedRows
    <3>2. Len(content) > 0
      <4> HIDE DEF s
      <4> QED BY <2>2
    <3> QED BY <2>4, <3>1, <3>2
  <2>6. PICK m \in Sizes : chunkCount = ChunksFor(m)
      BY <1>4, <2>5 DEF ChunkInv
  <2>7. s.start \div chunkSize \in 0..chunkCount - 1
    <3>1. s.start < Len(content)
      <4> HIDE DEF s
      <4> QED BY <2>2
    <3>2. Len(content) \in Sizes
        BY DEF ChunkInv
    <3>3. s.start \div chunkSize \in Nat /\ s.start \div chunkSize < chunkCount
      <4> HIDE DEF s
      <4> QED BY <2>2, <2>6, <3>1, <3>2, ChunkInRange
    <3>4. chunkCount \in Nat
        BY DEF Typed
    <3> HIDE DEF s
    <3> QED BY <3>3, <3>4
  <2>8. availableChunks' \subseteq 0..chunkCount' - 1
      BY <1>4, <2>7 DEF ChunkInv
  <2>9. chunkCount' = ChunksFor(m)'
      BY <1>1, <1>4, <2>6 DEF ChunksFor
  <2> QED BY <1>1, <2>5, <2>8, <2>9 DEF ChunkInv
<1> QED BY <1>2, <1>3, <1>4 DEF OnDataFetched, Filling

LEMMA ResetChunks ==
    ASSUME ChunkInv, content' = content, itemList' = <<>>, chunkCount' = 0,
           availableChunks' = {}, Filling' => DOMAIN signals' = {}
    PROVE  ChunkInv'
    BY DEF ChunkInv, EditArriving

LEMMA EditChunks ==
    ASSUME Careful, LengthsFit, Typed, SessionInv, ChunkInv, BackendEdits
    PROVE  ChunkInv'
<1> USE DEF sessionVars, listVars, settingVars
<1>1. PICK start \in Nat, count \in Nat, data \in Seq(Items) : Edit(start, count, data)
    BY EditsAnnounced DEF Announced
<1>2. /\ UNCHANGED <<loadingType, chunkSize, itemList, chunkCount, availableChunks>>
      /\ Len(content') \in Sizes
      /\ isConnected => HoldsAll
    BY <1>1 DEF Edit, Careful, Sizes
<1>3. Filling => itemList # <<>>
  <2>1. SUFFICES ASSUME Filling PROVE itemList # <<>>
      OBVIOUS
  <2>2. itemList = content
      BY <1>2, <2>1, FillingIsLive DEF HoldsAll
  <2>3. Len(content) \in Sizes
      BY DEF ChunkInv
  <2>4. Len(content) > 0
      BY <2>3 DEF LengthsFit
  <2> QED BY <2>2, <2>4
<1> QED BY <1>2, <1>3 DEF ChunkInv, Filling, ChunksFor

LEMMA StepChunks ==
    ASSUME Careful, LengthsFit, PagingInv, Typed', SettingsTyped, ChunkInv, [Next]_vars
    PROVE  ChunkInv'
<1> USE DEF listVars, sessionVars, settingVars, backendVars
<1>1. Typed /\ SessionInv /\ SignalsFresh /\ FillInv
    BY DEF PagingInv
<1>2. CASE UNCHANGED vars
  <2>1. UNCHANGED <<loadingType, chunkSize, content, itemList, chunkCount,
                    availableChunks, signals>>
      BY <1>2 DEF vars
  <2> QED BY <2>1 DEF ChunkInv, Filling, ChunksFor, EditArriving
<1>3. CASE BackendEdits
    BY <1>1, <1>3, EditChunks
<1>4. ASSUME Next, ~BackendEdits PROVE ChunkInv'
  <2>1. CASE Reload \/ \E type \in LoadingType : SetLoadingType(type)
    <3>1. /\ Settled /\ ResetModel(<<>>) /\ UNCHANGED <<content, signals>>
        BY <2>1 DEF Reload, SetLoadingType, Calm, Careful
    <3>2. DOMAIN signals' = {}
        BY <3>1 DEF Settled
    <3> QED BY <3>1, <3>2, ResetChunks DEF ResetModel
  <2>2. CASE Disconnect
      BY <2>2, ResetChunks DEF Disconnect, Filling
  <2>3. CASE OnInitializationDone /\ Starts
    <3>1. ResetModel(<<RegisterRequest>>) /\ UNCHANGED <<content, loadingType>>
        BY <2>3 DEF OnInitializationDone, RegisterRequest
    <3>2. ~Filling'
        BY <1>1, <2>3, <3>1 DEF SessionInv, NotStarted, Starts, Filling
    <3> QED BY <3>1, <3>2, ResetChunks DEF ResetModel
  <2>4. CASE \E size \in ChunkSizes : SetChunkSize(size)
      BY <2>4 DEF SetChunkSize, Careful, ChunkInv, Filling
  <2>5. CASE FetchMore \/ \E row \in Rows : View(row)
    <3>1. PICK start : FetchData(start)
        BY <2>5 DEF FetchMore, View
    <3>2. UNCHANGED <<loadingType, chunkSize, content, itemList, chunkCount>>
          /\ availableChunks' \subseteq 0..chunkCount - 1
        BY <2>5, <3>1 DEF FetchData, FetchMore, View, ChunkInv
    <3> QED BY <1>1, <1>4, <3>2, ChunksKept
  <2>6. CASE OnCountChanged
      BY <1>1, <1>4, <2>6, CountChunks
  <2>7. CASE OnDataFetched
      BY <1>1, <1>4, <2>7, FetchedChunks
  <2>8. CASE OnDataChanged
    <3>1. UNCHANGED <<loadingType, chunkSize, content, chunkCount, availableChunks>>
        BY <2>8 DEF OnDataChanged
    <3>2. CASE ~Filling
        BY <3>1, <3>2 DEF ChunkInv, Filling
    <3>3. CASE Filling
      <4>1. itemList' = content
          BY <1>1, <2>8, <3>3, ChangedShows
      <4>2. SignalsShrink /\ signals[1].kind = "dataChanged"
          BY <1>1, <2>8, SignalTaken DEF OnDataChanged, Hear, SignalsShrink
      <4>3. itemList # <<>>
          BY <3>3, <4>2 DEF ChunkInv, EditArriving, SignalsShrink
      <4>4. \A i \in DOMAIN signals' : ~EditArriving(i)'
          BY <1>1, <4>2 DEF SignalsShrink, SignalsFresh, EditArriving
      <4> QED BY <3>1, <3>3, <4>1, <4>3, <4>4 DEF ChunkInv, ChunksFor
    <3> QED BY <3>2, <3>3
  <2>9. CASE UNCHANGED <<loadingType, chunkSize, content, itemList, chunkCount,
                         availableChunks>>
      BY <1>1, <1>4, <2>9, ChunksKept DEF ChunkInv
  <2> QED BY <1>4, <2>1, <2>2, <2>3, <2>4, <2>5, <2>6, <2>7, <2>8, <2>9
          DEF Next, BackendEdits, Connect, OnInitializationDone, OnCapabilitiesChanged,
              SignalLost, Initialize, RegisterInstance, UnregisterInstance,
              ServeFetchData, AnnounceAgain
<1> QED BY <1>2, <1>3, <1>4

LEMMA InitChunks == Init => SettingsTyped /\ ChunkInv
<1>1. DOMAIN <<>> = {}
    OBVIOUS
<1>2. ASSUME Init PROVE SettingsTyped
  <2>1. identifier \in 1..MaxSession /\ resets \in 0..MaxResets
      BY <1>2, PagingAssumption DEF Init
  <2>2. /\ isConnected \in BOOLEAN /\ isInitialized \in BOOLEAN
        /\ moreAvailable \in BOOLEAN /\ canGetSize \in BOOLEAN
      BY <1>2 DEF Init
  <2>3. /\ chunkSize \in ChunkSizes \cup {DefaultChunkSize}
        /\ loadingType \in LoadingType
      BY <1>2 DEF Init, LoadingType
  <2> QED BY <2>1, <2>2, <2>3 DEF SettingsTyped
<1>3. ASSUME Init PROVE ChunkInv
  <2>1. Len(content) \in Sizes
      BY <1>3 DEF Init, Sizes
  <2> QED BY <1>3, <2>1 DEF Init, ChunkInv, Filling
<1> QED BY <1>2, <1>3

ListsInv == PagingInv /\ SettingsTyped /\ ChunkInv

LEMMA StepLists == Careful /\ LengthsFit /\ ListsInv /\ [Next]_vars => ListsInv'
<1> SUFFICES ASSUME Careful, LengthsFit, ListsInv, [Next]_vars PROVE ListsInv'
    OBVIOUS
<1>1. PagingInv /\ Typed /\ SettingsTyped /\ ChunkInv
    BY DEF ListsInv, PagingInv
<1>2. PagingInv' /\ Typed'
    BY <1>1, StepPaging DEF PagingInv
<1>3. SettingsTyped'
    BY <1>1, StepSettings
<1>4. ChunkInv'
    BY <1>1, <1>2, StepChunks
<1> QED BY <1>2, <1>3, <1>4 DEF ListsInv

LEMMA InitLists == Init => ListsInv
    BY InitPaging, InitChunks DEF ListsInv

LEMMA RowsInRange == LengthsFit /\ ListsInv => ChunkLookupInRange
<1> SUFFICES ASSUME LengthsFit, ListsInv, Filling, NEW row \in 0..Len(itemList) - 1
             PROVE  row \div chunkSize < chunkCount
    BY DEF ChunkLookupInRange, Filling
<1>1. SettingsTyped /\ ChunkInv /\ itemList \in Seq(Row)
    BY DEF ListsInv, PagingInv, Typed
<1>2. Len(itemList) \in Nat /\ row \in Nat /\ row < Len(itemList) /\ itemList # <<>>
  <2>1. Len(itemList) \in Nat
      BY <1>1, LenProperties
  <2> QED BY <2>1
<1>3. PICK m \in Sizes : chunkCount = ChunksFor(m)
    BY <1>1, <1>2 DEF ChunkInv
<1>4. Len(itemList) \in Sizes
    BY <1>1, <1>2 DEF ChunkInv
<1> QED BY <1>1, <1>2, <1>3, <1>4, ChunkInRange

(* What a view sees is true in both loading types: the rows of a FetchMore   *)
(* list are the first items, those of a DataChanged list are in their        *)
(* places, its available chunks are there or on their way, and data() looks  *)
(* no row's chunk up beyond the bits.  Besides patience this takes lengths   *)
(* that the chunks fit: edits do not make room for more.                     *)
THEOREM ListsTrue ==
    ASSUME Careful, LengthsFit
    PROVE  Spec => []ListTrue
<1>1. Init => ListsInv
    BY InitLists
<1>2. ListsInv /\ [Next]_vars => ListsInv'
    BY StepLists
<1>3. Spec => []ListsInv
    BY <1>1, <1>2, PTL DEF Spec
<1>4. ListsInv => ChunkLookupInRange
    BY RowsInRange
<1> QED BY <1>3, <1>4, RowsArePrefix, RowsFindTheirPlace, PTL DEF ListTrue

(* TypeOK, for any constants that fit: no bit is set beyond the chunk array, *)
(* and nothing is registered that is not a session's.                        *)
THEOREM TypeCorrect ==
    ASSUME Careful, LengthsFit
    PROVE  Spec => []TypeOK
<1>1. Init => ListsInv
    BY InitLists
<1>2. ListsInv /\ [Next]_vars => ListsInv'
    BY StepLists
<1>3. ListsInv => TypeOK
  <2> SUFFICES ASSUME ListsInv PROVE TypeOK
      OBVIOUS
  <2>1. Typed /\ SettingsTyped /\ ChunkInv /\ IdsKnown
      BY DEF ListsInv, PagingInv, SessionInv
  <2>2. registered \subseteq 1..MaxSession
    <3>1. identifier \in 1..MaxSession /\ \A id \in registered : id \in 1..identifier
        BY <2>1 DEF SettingsTyped, IdsKnown, Known
    <3> QED BY <3>1, PagingAssumption
  <2> QED BY <2>1, <2>2 DEF TypeOK, Typed, SettingsTyped, ChunkInv, SignalsTyped, Row
<1> QED BY <1>1, <1>2, <1>3, PTL DEF Spec
==============================================================================
